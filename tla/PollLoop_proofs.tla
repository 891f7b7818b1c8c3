-------------------------- MODULE PollLoop_proofs --------------------------
(***************************************************************************)
(* Proofs about the watermarks of one repository's poll loop, for any pull *)
(* requests, comments, clock and number of upsets.                         *)
(***************************************************************************)
EXTENDS PollLoop, WellFoundedInduction, TLAPS

-----------------------------------------------------------------------------
(* The inductive invariant.                                                *)

\* GitHub's stamps are of the past, and what is there was put there as the
\* constants say.
Clock ==
  /\ \A p \in Pull :
       /\ pulls[p].created <= Stamp
       /\ pulls[p].sha <= touches
       /\ pulls[p].draft => p \in Drafts
       /\ p \in Old => pulls[p].state # "absent"
  /\ \A c \in Comment :
       /\ comments[c].at <= Stamp
       /\ comments[c].asks => comments[c].said

\* The watermarks are seeded together, at the first start, and move to stamps.
Marks ==
  /\ born = Nothing => pc = "down" /\ \A s \in Stem : watermark[s] = Nothing
  /\ born # Nothing =>
       \A s \in Stem :
         /\ watermark[s] \in Instant
         /\ born <= watermark[s]
         /\ watermark[s] = born \/ watermark[s] <= Stamp

\* An opening that was listed is told as it is, the draft state excepted.
PullsTrue ==
  \A i \in Pulls :
    /\ i \in PullItem
    /\ pulls[i.pull].state # "absent"
    /\ i.created = pulls[i.pull].created
    /\ i.draft => i.pull \in Drafts

\* A listing that holds an opening holds every earlier one of those open now.
PullsAll ==
  \A i \in Pulls, p \in Pull :
    IsOpen(p) /\ pulls[p].created < i.created => \E j \in Pulls : j.pull = p

\* A comment that was listed is no newer than it was.
CommentsTrue ==
  \A e \in CommentEndpoint :
    results[e] # Nothing =>
      \A i \in results[e] :
        /\ i \in CommentItem
        /\ SourceOf[i.comment] = e
        /\ i.at <= comments[i.comment].at

Shape == TypeOK /\ Clock /\ Marks /\ PullsTrue /\ CommentsTrue
Inv   == Shape /\ NoBacklog /\ PullsAll /\ OpeningsBelowWatermark

\* Where all comments come from one endpoint and all pull requests with
\* comments were opened before the first start.
OneSource == \A c, d \in Comment : SourceOf[c] = SourceOf[d]
AllOld    == \A c \in Comment : PullOf[c] \in Old

\* A listing that holds a comment holds every mention that is older.
MentionsAll ==
  \A e \in CommentEndpoint :
    results[e] # Nothing =>
      \A i \in results[e], c \in Comment :
        comments[c].asks /\ comments[c].at < i.at =>
          \E j \in results[e] :
            j.comment = c /\ j.at = comments[c].at /\ j.asks

\* The old pull requests that are open are among those known to be.
OpenKnown ==
  /\ open # Nothing => \A p \in Old : IsOpen(p) => p \in open
  /\ PullsAnswered => \A p \in Old : IsOpen(p) => \E j \in Pulls : j.pull = p

MentionsInv == Inv /\ MentionsAll /\ OpenKnown /\ MentionsBelowWatermark

-----------------------------------------------------------------------------
(* Lemmas about the operators.                                             *)

\* A set of natural numbers that is not empty has a least one.
LEMMA Least ==
  ASSUME NEW T \in SUBSET Nat, T # {}
  PROVE  \E x \in T : \A y \in T : x <= y
<1> DEFINE R == OpToRel(<, Nat)
<1>1. IsWellFoundedOn(R, Nat)
  BY NatLessThanWellFounded
<1>2. \A x, y \in Nat : x < y => <<x, y>> \in R
  BY DEF OpToRel
<1> HIDE DEF R
<1>3. PICK x \in T : \A y \in T : ~ (<<y, x>> \in R)
  BY <1>1, WFMin
<1>4. ASSUME NEW y \in T PROVE ~ (y < x)
  BY <1>2, <1>3, Zenon
<1>5. \A y \in T : x <= y
  BY <1>4
<1> QED
  BY <1>5

\* The newest of some stamps is one of them, and none is newer.
LEMMA NewestIs ==
  ASSUME NEW since \in Instant, NEW stamps \in SUBSET Instant
  PROVE  /\ Newest(since, stamps) \in stamps \cup {since}
         /\ Newest(since, stamps) \in Instant
         /\ \A t \in stamps \cup {since} : t <= Newest(since, stamps)
<1> DEFINE All  == stamps \cup {since}
           Top  == 2 * MaxTime + 1
           Gaps == {Top - t : t \in All}
<1>1. Top \in Nat /\ \A t \in All : t \in 0 .. Top
  BY BoundsAssumption DEF Instant
<1> HIDE DEF Top
<1>2. Gaps \in SUBSET Nat
  BY <1>1
<1>3. PICK g \in Gaps : \A h \in Gaps : g <= h
  <2>1. Top - since \in Gaps
    OBVIOUS
  <2> HIDE DEF Gaps
  <2> QED
    BY <1>2, <2>1, Least
<1>4. PICK s \in All : g = Top - s
  OBVIOUS
<1>5. ASSUME NEW t \in All PROVE t <= s
  <2>1. g <= Top - t
    BY <1>3
  <2> HIDE DEF All, Gaps
  <2> QED
    BY <1>1, <1>4, <2>1
<1>6. \E m \in All : \A t \in All : t <= m
  BY <1>5
<1>7. Newest(since, stamps) \in All /\ \A t \in All : t <= Newest(since, stamps)
  BY <1>6 DEF Newest
<1> QED
  BY <1>7

-----------------------------------------------------------------------------
(* The shape of the state.                                                 *)

LEMMA ShapeInit == Init => Shape
<1> SUFFICES ASSUME Init PROVE Shape
  OBVIOUS
<1> USE BoundsAssumption, ColumnsAssumption
<1>1. TypeOK
  <2>1. pulls \in [Pull -> [state : {"absent", "open", "closed"}, created : Instant,
                            draft : BOOLEAN, sha : 0 .. MaxTouches]]
    <3>1. /\ 0 \in Instant /\ 0 \in 0 .. MaxTouches
      BY DEF Instant
    <3> DEFINE PullState == [state : {"absent", "open", "closed"}, created : Instant,
                             draft : BOOLEAN, sha : 0 .. MaxTouches]
    <3>2. Absent \in PullState
      BY <3>1 DEF Absent
    <3>3. [Absent EXCEPT !.state = "open"] \in PullState
      BY <3>2
    <3> HIDE DEF PullState
    <3>4. pulls \in [Pull -> PullState]
      BY <3>2, <3>3 DEF Init
    <3> QED
      BY <3>4 DEF PullState
  <2>2. comments \in [Comment -> [said : BOOLEAN, at : Instant, asks : BOOLEAN]]
    BY DEF Init, Unsaid, Instant
  <2>3. results \in [Endpoint -> Payload \cup {Nothing}]
    BY DEF Init, Idle
  <2> QED
    BY <2>1, <2>2, <2>3 DEF TypeOK, Init
<1>2. Clock
  BY DEF Clock, Init, Absent, Unsaid, Stamp
<1>3. Marks
  BY DEF Marks, Init
<1>4. PullsTrue /\ CommentsTrue
  BY DEF PullsTrue, CommentsTrue, Pulls, PullsAnswered, Init, Idle, Endpoint, CommentEndpoint
<1> QED
  BY <1>1, <1>2, <1>3, <1>4 DEF Shape

LEMMA Polls ==
  ASSUME Shape
  PROVE  /\ \A i \in Pulls : i \in PullItem
         /\ \A i \in Polled : i \in CommentItem /\ i.at <= comments[i.comment].at
         /\ AcceptedPulls \subseteq Pulls /\ AcceptedComments \subseteq Polled
         /\ OpenNow = Nothing \/ OpenNow \subseteq Pull
<1>1. \A i \in Pulls : i \in PullItem
  BY DEF Shape, PullsTrue
<1>2. \A i \in Polled : i \in CommentItem /\ i.at <= comments[i.comment].at
  BY DEF Shape, CommentsTrue, Polled
<1>3. AcceptedPulls \subseteq Pulls /\ AcceptedComments \subseteq Polled
  BY DEF AcceptedPulls, AcceptedComments
<1>4. OpenNow = Nothing \/ OpenNow \subseteq Pull
  BY <1>1 DEF OpenNow, Shape, TypeOK, PullItem
<1> QED
  BY <1>1, <1>2, <1>3, <1>4

\* The watermark of openings after the pulls leg.
LEMMA PullsMark ==
  ASSUME Shape, pc = "process"
  PROVE  /\ AfterPulls \in [Stem -> Instant]
         /\ AfterPulls["comments"] = watermark["comments"]
         /\ LET mark == AfterPulls["pull_requests"]
            IN /\ watermark["pull_requests"] <= mark
               /\ \A i \in Pulls : i.created <= mark
               /\ mark # watermark["pull_requests"] =>
                    \E i \in Pulls : mark = i.created
<1> DEFINE old == watermark["pull_requests"]
           new == Newest(old, {i.created : i \in Pulls})
<1>1. watermark \in [Stem -> Instant]
  BY DEF Shape, Marks, TypeOK
<1>2. old \in Instant /\ {i.created : i \in Pulls} \in SUBSET Instant
  BY <1>1, Polls DEF Stem, PullItem
<1>3. /\ new \in Instant /\ old <= new /\ \A i \in Pulls : i.created <= new
      /\ new # old => \E i \in Pulls : new = i.created
  BY <1>2, NewestIs
<1>4. AfterPulls = [watermark EXCEPT !["pull_requests"] = new]
  BY DEF AfterPulls
<1> HIDE DEF new
<1> QED
  BY <1>1, <1>3, <1>4 DEF Stem

\* The watermark of comments after the comments leg.
CommentsTo == Newest(watermark["comments"], {i.at : i \in Polled})

LEMMA CommentsMark ==
  ASSUME Shape, pc = "process"
  PROVE  /\ CommentsTo \in Instant
         /\ watermark["comments"] <= CommentsTo
         /\ \A i \in Polled : i.at <= CommentsTo
         /\ CommentsTo # watermark["comments"] =>
              \E i \in Polled : CommentsTo = i.at
<1>1. watermark \in [Stem -> Instant]
  BY DEF Shape, Marks, TypeOK
<1>2. watermark["comments"] \in Instant /\ {i.at : i \in Polled} \in SUBSET Instant
  BY <1>1, Polls DEF Stem, CommentItem
<1> QED
  BY <1>2, NewestIs DEF CommentsTo

\* What a cycle that is not cut short does to the watermarks.
LEMMA ProcessMarks ==
  ASSUME Shape, Process
  PROVE  /\ watermark' \in [Stem -> Instant]
         /\ watermark'["pull_requests"] = AfterPulls["pull_requests"]
         /\ watermark'["comments"] = CommentsTo
<1>1. pc = "process"
  BY DEF Process
<1>2. AfterPulls \in [Stem -> Instant] /\ AfterPulls["comments"] = watermark["comments"]
  BY <1>1, PullsMark
<1>3. watermark' = [AfterPulls EXCEPT !["comments"] = CommentsTo]
  BY <1>2 DEF Process, CommentsTo, Stem
<1>4. CommentsTo \in Instant
  BY <1>1, CommentsMark
<1> QED
  BY <1>2, <1>3, <1>4 DEF Stem

-----------------------------------------------------------------------------
(* The shape, step by step.                                                *)

ItemsState == [state : {"absent", "open", "closed"}, created : Instant,
               draft : BOOLEAN, sha : 0 .. MaxTouches]
SaidState == [said : BOOLEAN, at : Instant, asks : BOOLEAN]

LEMMA StampIsInstant ==
  ASSUME TypeOK
  PROVE  Stamp \in Instant /\ Now \in Instant /\ Stamp \in Nat /\ Now = Stamp + 1
BY BoundsAssumption DEF TypeOK, Stamp, Now, Instant

\* What people do changes pull requests or comments, and little else.
LEMMA ChangeKeepsType ==
  ASSUME Shape, NEW p \in Pull, Close(p) \/ Push(p) \/ Ready(p)
  PROVE  /\ pulls' \in [Pull -> ItemsState]
         /\ touches' \in 0 .. MaxTouches /\ touches' = touches + 1
         /\ pulls[p].state = "open"
         /\ \A q \in Pull : /\ pulls'[q].created = pulls[q].created
                            /\ pulls'[q].draft => pulls[q].draft
                            /\ pulls'[q].sha <= pulls[q].sha + 1
                            /\ pulls'[q].state = "open" => pulls[q].state = "open"
                            /\ pulls'[q].state = "absent" => pulls[q].state = "absent"
         /\ etag' \subseteq etag
         /\ UNCHANGED <<time, watermark, queue, daemon, upsets, comments>>
<1>1. pulls[p] \in ItemsState /\ pulls \in [Pull -> ItemsState] /\ touches \in Nat
  BY BoundsAssumption DEF Shape, TypeOK, ItemsState
<1>2. /\ touches < MaxTouches /\ touches' = touches + 1 /\ pulls[p].sha <= touches
      /\ etag' \subseteq etag /\ pulls[p].state = "open"
      /\ UNCHANGED <<time, watermark, queue, daemon, upsets, comments>>
  BY DEF Shape, Clock, Close, Push, Ready, ChangePull, Touch, Changes, Elsewhere, IsOpen
<1>3. PICK change \in ItemsState :
        /\ pulls' = [pulls EXCEPT ![p] = change]
        /\ change.created = pulls[p].created
        /\ change.draft => pulls[p].draft
        /\ change.sha <= pulls[p].sha + 1
        /\ change.state \in {"open", "closed"}
  <2> DEFINE a == [pulls[p] EXCEPT !.state = "closed"]
             b == [pulls[p] EXCEPT !.sha = @ + 1]
             c == [pulls[p] EXCEPT !.draft = FALSE]
  <2>0. pulls[p].sha \in Nat /\ pulls[p].sha + 1 \in 0 .. MaxTouches
    BY <1>1, <1>2, BoundsAssumption DEF ItemsState
  <2>1. CASE Close(p)
    <3>1. a \in ItemsState /\ a.created = pulls[p].created /\ a.draft = pulls[p].draft
          /\ a.sha = pulls[p].sha /\ a.state = "closed"
      BY <1>1 DEF ItemsState
    <3>2. pulls' = [pulls EXCEPT ![p] = a]
      BY <2>1 DEF Close, ChangePull
    <3>3. /\ a.sha <= pulls[p].sha + 1 /\ a.state \in {"open", "closed"}
          /\ a.draft => pulls[p].draft
      BY <2>0, <3>1
    <3> HIDE DEF a
    <3> QED
      BY <3>1, <3>2, <3>3
  <2>2. CASE Push(p)
    <3>1. b \in ItemsState /\ b.created = pulls[p].created /\ b.draft = pulls[p].draft
          /\ b.sha = pulls[p].sha + 1 /\ b.state = "open"
      BY <1>1, <1>2, <2>0 DEF ItemsState
    <3>2. pulls' = [pulls EXCEPT ![p] = b]
      BY <2>2 DEF Push, ChangePull
    <3>3. /\ b.sha <= pulls[p].sha + 1 /\ b.state \in {"open", "closed"}
          /\ b.draft => pulls[p].draft
      BY <2>0, <3>1
    <3> HIDE DEF b
    <3> QED
      BY <3>1, <3>2, <3>3
  <2>3. CASE Ready(p)
    <3>1. c \in ItemsState /\ c.created = pulls[p].created /\ c.draft = FALSE
          /\ c.sha = pulls[p].sha /\ c.state = "open"
      BY <1>1, <1>2 DEF ItemsState
    <3>2. pulls' = [pulls EXCEPT ![p] = c]
      BY <2>3 DEF Ready, ChangePull
    <3>3. /\ c.sha <= pulls[p].sha + 1 /\ c.state \in {"open", "closed"}
          /\ c.draft => pulls[p].draft
      BY <2>0, <3>1
    <3> HIDE DEF c
    <3> QED
      BY <3>1, <3>2, <3>3
  <2> QED
    BY <2>1, <2>2, <2>3
<1>4. touches' \in 0 .. MaxTouches
  BY <1>1, <1>2, BoundsAssumption
<1>5. pulls' \in [Pull -> ItemsState]
  BY <1>1, <1>3
<1>6. \A q \in Pull : /\ pulls'[q].created = pulls[q].created
                      /\ pulls'[q].draft => pulls[q].draft
                      /\ pulls'[q].sha <= pulls[q].sha + 1
                      /\ pulls'[q].state = "open" => pulls[q].state = "open"
                      /\ pulls'[q].state = "absent" => pulls[q].state = "absent"
  <2> TAKE q \in Pull
  <2>1. CASE q = p
    BY <1>1, <1>2, <1>3, <2>1
  <2>2. CASE q # p
    <3>1. pulls'[q] = pulls[q]
      BY <1>1, <1>3, <2>2
    <3>2. pulls[q].sha \in Nat
      BY <1>1, BoundsAssumption DEF ItemsState
    <3> QED
      BY <3>1, <3>2
  <2> QED
    BY <2>1, <2>2
<1> QED
  BY <1>2, <1>4, <1>5, <1>6

LEMMA OpenKeepsType ==
  ASSUME Shape, NEW p \in Pull, Open(p)
  PROVE  /\ pulls' \in [Pull -> ItemsState]
         /\ pulls[p].state = "absent" /\ pulls'[p].state = "open"
         /\ pulls'[p].created = Stamp /\ pulls'[p].sha = 0
         /\ pulls'[p].draft => p \in Drafts
         /\ \A q \in Pull : q # p => pulls'[q] = pulls[q]
         /\ etag' \subseteq etag
         /\ UNCHANGED <<time, watermark, queue, daemon, upsets, comments, touches>>
<1> DEFINE new == [state |-> "open", created |-> Stamp, draft |-> p \in Drafts, sha |-> 0]
<1>1. new \in ItemsState
  BY StampIsInstant, BoundsAssumption DEF ItemsState, Shape
<1>2. new.state = "open" /\ new.created = Stamp /\ (new.draft <=> p \in Drafts) /\ new.sha = 0
  OBVIOUS
<1>3. pulls' = [pulls EXCEPT ![p] = new] /\ pulls[p].state = "absent"
  BY DEF Open
<1>4. /\ etag' \subseteq etag
      /\ UNCHANGED <<time, watermark, queue, daemon, upsets, comments, touches>>
  BY DEF Open, Changes, Elsewhere
<1>5. pulls \in [Pull -> ItemsState]
  BY DEF Shape, TypeOK, ItemsState
<1> HIDE DEF new
<1> QED
  BY <1>1, <1>2, <1>3, <1>4, <1>5

LEMMA SaysKeepType ==
  ASSUME Shape, NEW c \in Comment, Say(c) \/ Edit(c)
  PROVE  /\ comments' \in [Comment -> SaidState]
         /\ comments'[c].said /\ comments'[c].at = Stamp
         /\ \A d \in Comment : d # c => comments'[d] = comments[d]
         /\ etag' \subseteq etag
         /\ touches' \in 0 .. MaxTouches /\ touches <= touches'
         /\ UNCHANGED <<time, watermark, queue, daemon, upsets, pulls>>
<1>1. PICK new \in SaidState :
        /\ comments' = [comments EXCEPT ![c] = new]
        /\ new.said /\ new.at = Stamp
  <2> DEFINE a == [said |-> TRUE, at |-> Stamp, asks |-> c \in Mentions]
             b == [said |-> TRUE, at |-> Stamp, asks |-> TRUE]
  <2>1. a \in SaidState /\ a.said /\ a.at = Stamp /\ b \in SaidState /\ b.said /\ b.at = Stamp
    BY StampIsInstant DEF SaidState, Shape
  <2>2. CASE Say(c)
    <3>1. comments' = [comments EXCEPT ![c] = a]
      BY <2>2 DEF Say
    <3> HIDE DEF a, b
    <3> QED
      BY <2>1, <3>1
  <2>3. CASE Edit(c)
    <3>1. comments' = [comments EXCEPT ![c] = b]
      BY <2>3 DEF Edit
    <3> HIDE DEF a, b
    <3> QED
      BY <2>1, <3>1
  <2> QED
    BY <2>2, <2>3
<1>2. etag' \subseteq etag /\ UNCHANGED <<time, watermark, queue, daemon, upsets, pulls>>
  BY DEF Say, Edit, Changes, Elsewhere
<1>3. touches' \in 0 .. MaxTouches /\ touches <= touches'
  BY BoundsAssumption DEF Say, Edit, Touch, Shape, TypeOK
<1>4. comments \in [Comment -> SaidState]
  BY DEF Shape, TypeOK, SaidState
<1> QED
  BY <1>1, <1>2, <1>3, <1>4

LEMMA RowsKeepType ==
  ASSUME Shape, NEW done \in SUBSET AcceptedPulls, NEW said \in SUBSET AcceptedComments
  PROVE  queue \cup PullRows(done) \cup CommentRows(said) \subseteq Row
<1>1. \A i \in done : <<i.pull, i.sha>> \in Pull \X (0 .. MaxTouches)
  BY Polls DEF PullItem
<1>2. \A i \in said : i.comment \in Comment
  BY Polls DEF CommentItem
<1>3. queue \subseteq Row
  BY DEF Shape, TypeOK
<1> QED
  BY <1>1, <1>2, <1>3 DEF PullRows, CommentRows, Row

\* The parts of the type invariant that a step of the daemon or trouble with
\* it can disturb.
DaemonType ==
  /\ etag \subseteq Endpoint
  /\ watermark \in [Stem -> Instant \cup {Nothing}]
  /\ queue \subseteq Row
  /\ open = Nothing \/ open \subseteq Pull
  /\ results \in [Endpoint -> Payload \cup {Nothing}]
  /\ pc \in Endpoint \cup {"process", "down"}
  /\ born \in Instant \cup {Nothing}
  /\ upsets \in 0 .. MaxUpsets

LEMMA TypeParts ==
  TypeOK <=> /\ DaemonType
             /\ time \in 1 .. MaxTime
             /\ pulls \in [Pull -> ItemsState]
             /\ comments \in [Comment -> SaidState]
             /\ touches \in 0 .. MaxTouches
BY DEF TypeOK, DaemonType, ItemsState, SaidState

LEMMA TypePartsNext ==
  ASSUME /\ DaemonType'
         /\ time' \in 1 .. MaxTime
         /\ pulls' \in [Pull -> ItemsState]
         /\ comments' \in [Comment -> SaidState]
         /\ touches' \in 0 .. MaxTouches
  PROVE  TypeOK'
BY DEF TypeOK, DaemonType, ItemsState, SaidState

LEMMA IdleIsTyped == Idle \in [Endpoint -> Payload \cup {Nothing}]
BY DEF Idle

LEMMA UpsetKeepsType ==
  ASSUME DaemonType, Upset
  PROVE  upsets' \in 0 .. MaxUpsets
BY BoundsAssumption DEF DaemonType, Upset

\* What a listing holds, at the time it is read.
LEMMA ListingIsTyped ==
  ASSUME Shape, NEW e \in Endpoint
  PROVE  /\ Listing(e) \in Payload
         /\ e = "open_pulls" => \A i \in Listing(e) : i \in PullItem
         /\ e \in CommentEndpoint => \A i \in Listing(e) : i \in CommentItem
<1>0. pulls \in [Pull -> ItemsState] /\ comments \in [Comment -> SaidState]
  BY TypeParts DEF Shape
<1>1. CASE e = "open_pulls"
  <2>1. \A p \in Pull : [pull |-> p, created |-> pulls[p].created,
                       draft |-> pulls[p].draft, sha |-> pulls[p].sha] \in PullItem
    BY <1>0 DEF PullItem, ItemsState
  <2>2. \A i \in Listing(e) : i \in PullItem
    BY <1>1, <2>1 DEF Listing
  <2> QED
    BY <1>1, <2>2 DEF Payload, CommentEndpoint
<1>2. CASE e # "open_pulls"
  <2>1. \A c \in Comment : [comment |-> c, at |-> comments[c].at,
                          asks |-> comments[c].asks] \in CommentItem
    BY <1>0 DEF CommentItem, SaidState
  <2>2. \A i \in Listing(e) : i \in CommentItem
    BY <1>2, <2>1 DEF Listing
  <2> QED
    BY <1>2, <2>2 DEF Payload
<1> QED
  BY <1>1, <1>2

LEMMA DaemonTypeStep ==
  ASSUME Shape, Daemon \/ Trouble
  PROVE  DaemonType'
<1> USE DEF DaemonType
<1>0. DaemonType /\ TypeOK
  BY TypeParts DEF Shape
<1>1. CASE Start
  <2>1. watermark' \in [Stem -> Instant \cup {Nothing}]
    BY <1>0, <1>1, StampIsInstant DEF Start, Seeded
  <2>2. born' \in Instant \cup {Nothing}
    BY <1>0, <1>1, StampIsInstant DEF Start
  <2> QED
    BY <1>0, <1>1, <2>1, <2>2 DEF Start, Endpoint
<1>2. ASSUME NEW e \in Endpoint, Get(e) PROVE DaemonType'
  <2>1. results' \in [Endpoint -> Payload \cup {Nothing}]
    <3> DEFINE new == IF e \in etag THEN Nothing ELSE Listing(e)
    <3>1. new \in Payload \cup {Nothing}
      BY ListingIsTyped
    <3>2. results' = [results EXCEPT ![e] = new]
      BY <1>2 DEF Get
    <3> HIDE DEF new
    <3> QED
      BY <1>0, <3>1, <3>2
  <2>2. pc' \in Endpoint \cup {"process", "down"}
    BY <1>2 DEF Get, After, Endpoint, CommentEndpoint
  <2> QED
    BY <1>0, <1>2, <2>1, <2>2 DEF Get
<1>3. CASE Process
  <2>1. AcceptedPulls \in SUBSET AcceptedPulls /\ AcceptedComments \in SUBSET AcceptedComments
    OBVIOUS
  <2>2. queue' \subseteq Row
    BY <1>3, <2>1, RowsKeepType DEF Process
  <2>3. watermark' \in [Stem -> Instant \cup {Nothing}]
    BY <1>3, ProcessMarks
  <2>4. open' = Nothing \/ open' \subseteq Pull
    BY <1>3, Polls DEF Process
  <2> QED
    BY <1>0, <1>3, <2>2, <2>3, <2>4, IdleIsTyped DEF Process, SweepEnds, Endpoint
<1>4. ASSUME NEW e \in Endpoint, GetFails(e) PROVE DaemonType'
  BY <1>0, <1>4, IdleIsTyped, UpsetKeepsType DEF GetFails, SweepEnds, Endpoint, store
<1>5. ASSUME NEW dead \in BOOLEAN, Cut(dead) PROVE DaemonType'
  <2>1. queue' \subseteq Row
    BY <1>5, RowsKeepType DEF Cut
  <2>2. watermark' \in [Stem -> Instant \cup {Nothing}]
    BY <1>0, <1>5, PullsMark DEF Cut
  <2>3. open' = Nothing \/ open' \subseteq Pull
    BY <1>0, <1>5, Polls DEF Cut, Left
  <2>4. upsets' \in 0 .. MaxUpsets
    BY <1>0, <1>5, UpsetKeepsType DEF Cut
  <2>5. results' = Idle /\ pc' \in {"down", "open_pulls"} /\ UNCHANGED <<etag, born>>
    BY <1>5 DEF Cut
  <2> QED
    BY <1>0, <2>1, <2>2, <2>3, <2>4, <2>5, IdleIsTyped DEF Endpoint
<1>6. CASE Die
  BY <1>0, <1>6, IdleIsTyped, UpsetKeepsType DEF Die, store
<1> QED
  BY <1>1, <1>2, <1>3, <1>4, <1>5, <1>6 DEF Daemon, Trouble

LEMMA TypeStep ==
  ASSUME Shape, Next
  PROVE  TypeOK'
<1>0. /\ DaemonType /\ time \in 1 .. MaxTime /\ touches \in 0 .. MaxTouches
      /\ pulls \in [Pull -> ItemsState] /\ comments \in [Comment -> SaidState]
  BY TypeParts DEF Shape
<1>1. CASE Daemon \/ Trouble
  <2>1. UNCHANGED <<time, github>>
    BY <1>1 DEF Daemon, Trouble, Start, Get, Process, GetFails, Cut, Die
  <2> QED
    BY <1>0, <1>1, <2>1, DaemonTypeStep, TypePartsNext DEF github
<1>2. ASSUME NEW p \in Pull, Open(p) PROVE TypeOK'
  BY <1>0, <1>2, OpenKeepsType, TypePartsNext DEF DaemonType, daemon
<1>3. ASSUME NEW p \in Pull, Close(p) \/ Push(p) \/ Ready(p) PROVE TypeOK'
  BY <1>0, <1>3, ChangeKeepsType, TypePartsNext DEF DaemonType, daemon
<1>4. ASSUME NEW c \in Comment, Say(c) \/ Edit(c) PROVE TypeOK'
  BY <1>0, <1>4, SaysKeepType, TypePartsNext DEF DaemonType, daemon
<1>5. CASE Tick
  <2>1. time' \in 1 .. MaxTime
    BY <1>0, <1>5, BoundsAssumption DEF Tick
  <2> QED
    BY <1>0, <1>5, <2>1, TypePartsNext DEF Tick, github, store, daemon, DaemonType
<1> QED
  BY <1>1, <1>2, <1>3, <1>4, <1>5 DEF Next, GitHub

LEMMA InstantsAreNat == Instant \subseteq Nat
BY BoundsAssumption DEF Instant

\* The numbers of the state are naturals.
LEMMA NumbersAreNat ==
  ASSUME TypeOK
  PROVE  /\ \A p \in Pull : pulls[p].created \in Nat /\ pulls[p].sha \in Nat
         /\ \A c \in Comment : comments[c].at \in Nat
         /\ touches \in Nat /\ Stamp \in Nat
         /\ born # Nothing => born \in Nat
         /\ \A s \in Stem : watermark[s] # Nothing => watermark[s] \in Nat
<1>1. \A p \in Pull : pulls[p].created \in Instant /\ pulls[p].sha \in 0 .. MaxTouches
  BY DEF TypeOK
<1>2. \A c \in Comment : comments[c].at \in Instant
  BY DEF TypeOK
<1>3. /\ touches \in 0 .. MaxTouches /\ time \in 1 .. MaxTime
      /\ born # Nothing => born \in Instant
      /\ \A s \in Stem : watermark[s] # Nothing => watermark[s] \in Instant
  BY DEF TypeOK
<1>4. 0 .. MaxTouches \subseteq Nat /\ 1 .. MaxTime \subseteq Nat
  BY BoundsAssumption
<1>5. Stamp \in Nat
  BY <1>3, <1>4 DEF Stamp
<1> QED
  BY <1>1, <1>2, <1>3, <1>4, <1>5, InstantsAreNat

LEMMA NumbersAreNatNext ==
  ASSUME TypeOK'
  PROVE  /\ \A p \in Pull : pulls'[p].created \in Nat /\ pulls'[p].sha \in Nat
         /\ \A c \in Comment : comments'[c].at \in Nat
         /\ touches' \in Nat /\ Stamp' \in Nat
         /\ born' # Nothing => born' \in Nat
         /\ \A s \in Stem : watermark'[s] # Nothing => watermark'[s] \in Nat
<1>1. \A p \in Pull : pulls'[p].created \in Instant /\ pulls'[p].sha \in 0 .. MaxTouches
  BY DEF TypeOK
<1>2. \A c \in Comment : comments'[c].at \in Instant
  BY DEF TypeOK
<1>3. /\ touches' \in 0 .. MaxTouches /\ time' \in 1 .. MaxTime
      /\ born' # Nothing => born' \in Instant
      /\ \A s \in Stem : watermark'[s] # Nothing => watermark'[s] \in Instant
  BY DEF TypeOK
<1>4. 0 .. MaxTouches \subseteq Nat /\ 1 .. MaxTime \subseteq Nat
  BY BoundsAssumption
<1>5. Stamp' \in Nat
  <2>1. time' \in Nat
    BY <1>3, <1>4
  <2>2. \A t \in Nat : 2 * t \in Nat
    OBVIOUS
  <2>3. 2 * time' \in Nat
    BY <2>1, <2>2
  <2> QED
    BY <2>3 DEF Stamp
<1> QED
  BY <1>1, <1>2, <1>3, <1>4, <1>5, InstantsAreNat

LEMMA ClockStep ==
  ASSUME Shape, Next, TypeOK'
  PROVE  Clock'
<1>0. /\ pulls \in [Pull -> ItemsState] /\ comments \in [Comment -> SaidState]
      /\ touches \in Nat /\ Stamp \in Nat /\ Clock
      /\ \A p \in Pull : pulls[p].created \in Nat /\ pulls[p].sha \in Nat
      /\ \A p \in Pull : pulls'[p].created \in Nat /\ pulls'[p].sha \in Nat
      /\ \A c \in Comment : comments[c].at \in Nat
  BY TypeParts, NumbersAreNat, NumbersAreNatNext DEF Shape
<1>1. CASE Daemon \/ Trouble
  <2>1. UNCHANGED <<time, pulls, comments, touches>>
    BY <1>1 DEF Daemon, Trouble, Start, Get, Process, GetFails, Cut, Die, github
  <2> QED
    BY <1>0, <2>1 DEF Clock, Stamp
<1>2. ASSUME NEW p \in Pull, Open(p) PROVE Clock'
  <2>1. /\ pulls'[p].state = "open" /\ pulls'[p].created = Stamp /\ pulls'[p].sha = 0
        /\ pulls'[p].draft => p \in Drafts
        /\ \A q \in Pull : q # p => pulls'[q] = pulls[q]
        /\ UNCHANGED <<time, comments, touches>>
    BY <1>2, OpenKeepsType
  <2>2. Stamp' = Stamp
    BY <2>1 DEF Stamp
  <2>3. \A q \in Pull :
          /\ pulls'[q].created <= Stamp
          /\ pulls'[q].sha <= touches
          /\ pulls'[q].draft => q \in Drafts
          /\ q \in Old => pulls'[q].state # "absent"
    BY <1>0, <2>1 DEF Clock
  <2> QED
    BY <1>0, <2>1, <2>2, <2>3 DEF Clock
<1>3. ASSUME NEW p \in Pull, Close(p) \/ Push(p) \/ Ready(p) PROVE Clock'
  <2>1. \A q \in Pull : /\ pulls'[q].created = pulls[q].created
                        /\ pulls'[q].draft => pulls[q].draft
                        /\ pulls'[q].sha <= pulls[q].sha + 1
                        /\ pulls'[q].state = "open" => pulls[q].state = "open"
                        /\ pulls'[q].state = "absent" => pulls[q].state = "absent"
    BY <1>3, ChangeKeepsType, Zenon
  <2>a. UNCHANGED <<time, comments>> /\ touches' = touches + 1
    BY <1>3, ChangeKeepsType
  <2>2. Stamp' = Stamp
    BY <2>a DEF Stamp
  <2>3. \A q \in Pull :
          /\ pulls'[q].created <= Stamp
          /\ pulls'[q].draft => q \in Drafts
          /\ q \in Old => pulls'[q].state # "absent"
    BY <1>0, <2>1 DEF Clock
  <2>4. ASSUME NEW q \in Pull PROVE pulls'[q].sha <= touches'
    <3>1. pulls[q].sha <= touches /\ pulls'[q].sha <= pulls[q].sha + 1
      BY <1>0, <2>1 DEF Clock
    <3>2. pulls[q].sha \in Nat /\ pulls'[q].sha \in Nat
      BY <1>0
    <3> QED
      BY <1>0, <2>a, <3>1, <3>2
  <2> QED
    BY <1>0, <2>a, <2>2, <2>3, <2>4 DEF Clock
<1>4. ASSUME NEW c \in Comment, Say(c) \/ Edit(c) PROVE Clock'
  <2>1. /\ comments'[c].said /\ comments'[c].at = Stamp
        /\ \A d \in Comment : d # c => comments'[d] = comments[d]
        /\ UNCHANGED <<time, pulls>> /\ touches <= touches' /\ touches' \in Nat
    BY <1>4, SaysKeepType, BoundsAssumption
  <2>2. Stamp' = Stamp
    BY <2>1 DEF Stamp
  <2>3. \A q \in Pull : pulls[q].sha <= touches'
    BY <1>0, <2>1, BoundsAssumption DEF Clock, ItemsState
  <2>4. \A d \in Comment : /\ comments'[d].at <= Stamp
                           /\ comments'[d].asks => comments'[d].said
    BY <1>0, <2>1 DEF Clock
  <2> QED
    BY <1>0, <2>1, <2>2, <2>3, <2>4 DEF Clock
<1>5. CASE Tick
  <2>1. UNCHANGED <<pulls, comments, touches>> /\ time' = time + 1 /\ time \in Nat
    BY <1>5, BoundsAssumption DEF Tick, github, Shape, TypeOK
  <2>2. Stamp <= Stamp' /\ Stamp' \in Nat
    BY <2>1 DEF Stamp
  <2>3. \A p \in Pull : pulls[p].created <= Stamp'
    BY <1>0, <2>2, InstantsAreNat DEF Clock, ItemsState
  <2>4. \A c \in Comment : comments[c].at <= Stamp'
    BY <1>0, <2>2, InstantsAreNat DEF Clock, SaidState
  <2> QED
    BY <1>0, <2>1, <2>3, <2>4 DEF Clock
<1> QED
  BY <1>1, <1>2, <1>3, <1>4, <1>5 DEF Next, GitHub

LEMMA MarksStep ==
  ASSUME Shape, Next, TypeOK'
  PROVE  Marks'
<1>0. /\ Marks /\ Clock /\ Stamp \in Nat /\ Now \in Instant /\ Now = Stamp + 1
      /\ watermark \in [Stem -> Instant \cup {Nothing}] /\ born \in Instant \cup {Nothing}
  BY StampIsInstant DEF Shape, TypeOK
<1>1. CASE Start
  <2>1. CASE born = Nothing
    <3>1. /\ \A s \in Stem : watermark[s] = Nothing
          /\ watermark' = Seeded /\ born' = Now
      BY <1>0, <1>1, <2>1 DEF Marks, Start
    <3>2. \A s \in Stem : watermark'[s] = Now
      BY <3>1 DEF Seeded
    <3> QED
      BY <1>0, <3>1, <3>2, NothingAssumption, InstantsAreNat DEF Marks
  <2>2. CASE born # Nothing
    <3>1. \A s \in Stem : watermark[s] # Nothing
      BY <1>0, <2>2, NothingAssumption DEF Marks
    <3>2. \A s \in Stem : watermark'[s] = watermark[s]
      BY <1>1, <3>1 DEF Start, Seeded
    <3>3. born' = born /\ Stamp' = Stamp
      BY <1>1, <2>2 DEF Start, Stamp
    <3> QED
      BY <1>0, <2>2, <3>2, <3>3 DEF Marks
  <2> QED
    BY <2>1, <2>2
<1>2. ASSUME pc # "down", UNCHANGED <<time, watermark, born>>
      PROVE  Marks'
  BY <1>0, <1>2 DEF Marks, Stamp
<1>3. ASSUME pc = "process", UNCHANGED <<time, born>>,
             watermark' \in [Stem -> Instant],
             watermark'["pull_requests"] \in {watermark["pull_requests"], AfterPulls["pull_requests"]},
             watermark'["comments"] \in {watermark["comments"], CommentsTo}
      PROVE  Marks'
  <2>1. /\ born # Nothing /\ born \in Nat
        /\ \A s \in Stem : /\ watermark[s] \in Nat
                           /\ born <= watermark[s]
                           /\ watermark[s] = born \/ watermark[s] <= Stamp
    BY <1>0, <1>3, InstantsAreNat DEF Marks
  <2>2. \A i \in Pulls : i.created <= Stamp
    BY <1>0 DEF Shape, PullsTrue, Clock, PullItem
  <2>3. \A i \in Polled : i.at <= Stamp
    <3>1. ASSUME NEW i \in Polled PROVE i.at <= Stamp
      <4>1. i \in CommentItem /\ i.at <= comments[i.comment].at
        BY Polls
      <4>2. comments[i.comment].at <= Stamp /\ comments[i.comment].at \in Nat /\ i.at \in Nat
        BY <1>0, <4>1, TypeParts, InstantsAreNat DEF Shape, Clock, CommentItem, SaidState
      <4> QED
        BY <1>0, <4>1, <4>2
    <3> QED
      BY <3>1
  <2>4. \A s \in Stem : watermark'[s] \in Nat /\ watermark'[s] \in Instant
    BY <1>3, InstantsAreNat
  <2>5. /\ watermark["pull_requests"] <= watermark'["pull_requests"]
        /\ watermark'["pull_requests"] = watermark["pull_requests"]
             \/ watermark'["pull_requests"] <= Stamp
    BY <1>3, <2>1, <2>2, PullsMark DEF Stem
  <2>6. /\ watermark["comments"] <= watermark'["comments"]
        /\ watermark'["comments"] = watermark["comments"] \/ watermark'["comments"] <= Stamp
    BY <1>3, <2>1, <2>3, CommentsMark DEF Stem
  <2>7. \A s \in Stem : /\ watermark[s] <= watermark'[s]
                        /\ watermark'[s] = watermark[s] \/ watermark'[s] <= Stamp
    BY <2>5, <2>6 DEF Stem
  <2>8. \A s \in Stem : born <= watermark'[s]
    BY <2>1, <2>4, <2>7
  <2>9. Stamp' = Stamp /\ born' = born
    BY <1>3 DEF Stamp
  <2> QED
    BY <2>1, <2>4, <2>7, <2>8, <2>9 DEF Marks
<1>4. ASSUME NEW e \in Endpoint, Get(e) \/ GetFails(e) PROVE Marks'
  BY <1>2, <1>4 DEF Get, GetFails, store, Endpoint, CommentEndpoint
<1>5. CASE Process
  BY <1>3, <1>5, ProcessMarks DEF Process
<1>6. ASSUME NEW dead \in BOOLEAN, Cut(dead) PROVE Marks'
  <2>1. watermark' \in {watermark, AfterPulls} /\ pc = "process" /\ UNCHANGED <<time, born>>
    BY <1>6 DEF Cut
  <2>2. watermark \in [Stem -> Instant]
    BY <1>0, <2>1 DEF Marks
  <2> QED
    BY <1>3, <2>1, <2>2, PullsMark
<1>7. CASE Die
  BY <1>2, <1>7 DEF Die, store, Endpoint, CommentEndpoint
<1>8. CASE GitHub
  <2>1. UNCHANGED <<time, watermark, born, pc>>
    BY <1>8, OpenKeepsType, ChangeKeepsType, SaysKeepType DEF GitHub, daemon
  <2> QED
    BY <1>0, <2>1 DEF Marks, Stamp
<1>9. CASE Tick
  <2>1. UNCHANGED <<watermark, born, pc>> /\ time' = time + 1 /\ time \in Nat
    BY <1>9, BoundsAssumption DEF Tick, daemon, store, Shape, TypeOK
  <2>2. Stamp <= Stamp' /\ Stamp' \in Nat
    BY <2>1 DEF Stamp
  <2>3. ASSUME born # Nothing, NEW s \in Stem
        PROVE  watermark[s] = born \/ watermark[s] <= Stamp'
    <3>1. watermark[s] \in Nat /\ (watermark[s] = born \/ watermark[s] <= 2 * time)
      BY <1>0, <2>3, InstantsAreNat DEF Marks, Stamp
    <3> QED
      BY <2>1, <3>1 DEF Stamp
  <2> QED
    BY <1>0, <2>1, <2>3 DEF Marks
<1> QED
  BY <1>1, <1>4, <1>5, <1>6, <1>7, <1>8, <1>9 DEF Next, Daemon, Trouble

\* What a step does to what the sweep has read and to what GitHub holds.
LEMMA Steps ==
  ASSUME Next
  PROVE  \/ results' = Idle /\ UNCHANGED <<pulls, comments>>
         \/ (\E e \in Endpoint : Get(e)) /\ UNCHANGED <<pulls, comments>>
         \/ UNCHANGED <<results, pulls, comments>>
         \/ GitHub
<1>1. CASE Start \/ Tick
  BY <1>1 DEF Start, Tick, github, daemon
<1>2. CASE Process \/ Die \/ (\E e \in Endpoint : GetFails(e)) \/ (\E dead \in BOOLEAN : Cut(dead))
  BY <1>2 DEF Process, Die, GetFails, Cut, SweepEnds, github
<1>3. CASE \E e \in Endpoint : Get(e)
  BY <1>3 DEF Get, github
<1> QED
  BY <1>1, <1>2, <1>3 DEF Next, Daemon, Trouble

LEMMA IdleIsEmpty ==
  ASSUME results' = Idle
  PROVE  /\ Pulls' = {} /\ ~PullsAnswered'
         /\ \A e \in CommentEndpoint : results'[e] = Nothing
BY DEF Idle, Pulls, PullsAnswered, Endpoint, CommentEndpoint

\* What is read by the request for the openings, and by the others.
LEMMA GetReads ==
  ASSUME Shape, NEW e \in Endpoint, Get(e)
  PROVE  /\ e = "open_pulls" => Pulls' = {} \/ Pulls' = Listing(e)
         /\ e # "open_pulls" => Pulls' = Pulls
         /\ \A b \in CommentEndpoint :
              b # e => results'[b] = results[b]
         /\ e \in CommentEndpoint => results'[e] = Nothing \/ results'[e] = Listing(e)
<1> DEFINE new == IF e \in etag THEN Nothing ELSE Listing(e)
<1>1. results' = [results EXCEPT ![e] = new] /\ (new = Nothing \/ new = Listing(e))
  BY DEF Get
<1>2. DOMAIN results = Endpoint
  BY DEF Shape, TypeOK
<1> HIDE DEF new
<1>3. results'[e] = new /\ \A b \in Endpoint : b # e => results'[b] = results[b]
  BY <1>1, <1>2
<1> QED
  BY <1>1, <1>3 DEF Pulls, PullsAnswered, Endpoint, CommentEndpoint

LEMMA OpeningsListed ==
  ASSUME Shape
  PROVE  /\ \A i \in Listing("open_pulls") :
              /\ i \in PullItem
              /\ pulls[i.pull].state = "open"
              /\ i.created = pulls[i.pull].created
              /\ i.draft => i.pull \in Drafts
         /\ \A p \in Pull : IsOpen(p) => \E j \in Listing("open_pulls") : j.pull = p
<1> DEFINE Item(p) == [pull |-> p, created |-> pulls[p].created,
                       draft |-> pulls[p].draft, sha |-> pulls[p].sha]
<1>1. Listing("open_pulls") = {Item(p) : p \in {q \in Pull : IsOpen(q)}}
  BY DEF Listing
<1>2. \A i \in Listing("open_pulls") : i \in PullItem
  BY ListingIsTyped DEF Endpoint
<1>3. \A p \in Pull : /\ Item(p).pull = p /\ Item(p).created = pulls[p].created
                      /\ Item(p).draft = pulls[p].draft
  OBVIOUS
<1> HIDE DEF Item
<1>4. \A p \in Pull : pulls[p].draft => p \in Drafts
  BY DEF Shape, Clock
<1> QED
  BY <1>1, <1>2, <1>3, <1>4 DEF IsOpen

LEMMA PullsTrueStep ==
  ASSUME Shape, Next
  PROVE  PullsTrue'
<1>0. PullsTrue
  BY DEF Shape
<1>1. CASE results' = Idle
  BY <1>1, IdleIsEmpty DEF PullsTrue
<1>2. ASSUME NEW e \in Endpoint, Get(e), UNCHANGED pulls PROVE PullsTrue'
  BY <1>0, <1>2, GetReads, OpeningsListed DEF PullsTrue
<1>3. CASE UNCHANGED <<results, pulls>>
  BY <1>0, <1>3 DEF PullsTrue, Pulls, PullsAnswered
<1>4. CASE GitHub
  <2>1. UNCHANGED results /\ Pulls' = Pulls
    <3>1. UNCHANGED results
      BY <1>4, OpenKeepsType, ChangeKeepsType, SaysKeepType DEF GitHub, daemon
    <3> QED
      BY <3>1 DEF Pulls, PullsAnswered
  <2>2. \A q \in Pull : pulls[q].state # "absent" =>
          pulls'[q].created = pulls[q].created /\ pulls'[q].state # "absent"
    <3>1. ASSUME NEW p \in Pull, Open(p), NEW q \in Pull, pulls[q].state # "absent"
          PROVE  pulls'[q] = pulls[q]
      BY <3>1, OpenKeepsType
    <3>2. ASSUME NEW p \in Pull, Close(p) \/ Push(p) \/ Ready(p), NEW q \in Pull
          PROVE  /\ pulls'[q].created = pulls[q].created
                 /\ pulls'[q].state = "absent" => pulls[q].state = "absent"
      BY <3>2, ChangeKeepsType
    <3>3. ASSUME NEW c \in Comment, Say(c) \/ Edit(c) PROVE pulls' = pulls
      BY <3>3, SaysKeepType
    <3> QED
      BY <1>4, <3>1, <3>2, <3>3 DEF GitHub
  <2>3. \A i \in Pulls : i.pull \in Pull
    BY <1>0 DEF PullsTrue, PullItem
  <2> QED
    BY <1>0, <2>1, <2>2, <2>3 DEF PullsTrue
<1> QED
  BY <1>1, <1>2, <1>3, <1>4, Steps

LEMMA CommentsListed ==
  ASSUME Shape, NEW e \in CommentEndpoint
  PROVE  /\ \A i \in Listing(e) :
              /\ i \in CommentItem
              /\ SourceOf[i.comment] = e
              /\ i.at = comments[i.comment].at
              /\ i.asks = comments[i.comment].asks
         /\ \A c \in Comment :
              SourceOf[c] = e /\ comments[c].said => \E j \in Listing(e) : j.comment = c
<1> DEFINE Item(c) == [comment |-> c, at |-> comments[c].at, asks |-> comments[c].asks]
<1>1. Listing(e) = {Item(c) : c \in {d \in Comment : SourceOf[d] = e /\ comments[d].said}}
  BY DEF Listing, CommentEndpoint
<1>2. \A i \in Listing(e) : i \in CommentItem
  BY ListingIsTyped DEF Endpoint
<1>3. \A c \in Comment : /\ Item(c).comment = c /\ Item(c).at = comments[c].at
                         /\ Item(c).asks = comments[c].asks
  OBVIOUS
<1> HIDE DEF Item
<1> QED
  BY <1>1, <1>2, <1>3

\* Comments are only ever edited forward.
LEMMA CommentsMoveOn ==
  ASSUME Shape, Next, TypeOK'
  PROVE  \A c \in Comment : comments[c].at <= comments'[c].at
<1>0. \A c \in Comment : comments[c].at \in Nat /\ comments[c].at <= Stamp
  BY NumbersAreNat DEF Shape, Clock
<1>1. CASE UNCHANGED comments
  BY <1>0, <1>1
<1>2. ASSUME NEW d \in Comment, Say(d) \/ Edit(d), NEW c \in Comment
      PROVE  comments[c].at <= comments'[c].at
  BY <1>0, <1>2, SaysKeepType
<1>3. CASE GitHub
  <2>1. ASSUME NEW p \in Pull, Open(p) \/ Close(p) \/ Push(p) \/ Ready(p)
        PROVE  UNCHANGED comments
    BY <2>1, OpenKeepsType, ChangeKeepsType
  <2> QED
    BY <1>1, <1>2, <1>3, <2>1 DEF GitHub
<1> QED
  BY <1>1, <1>3, Steps

LEMMA CommentsTrueStep ==
  ASSUME Shape, Next, TypeOK'
  PROVE  CommentsTrue'
<1>0. CommentsTrue
  BY DEF Shape
<1>1. CASE results' = Idle
  BY <1>1, IdleIsEmpty DEF CommentsTrue
<1>2. ASSUME UNCHANGED results PROVE CommentsTrue'
  <2>1. ASSUME NEW e \in CommentEndpoint, results[e] # Nothing, NEW i \in results[e]
        PROVE  i \in CommentItem /\ SourceOf[i.comment] = e /\ i.at <= comments'[i.comment].at
    <3>1. i \in CommentItem /\ SourceOf[i.comment] = e /\ i.at <= comments[i.comment].at
      BY <1>0, <2>1 DEF CommentsTrue
    <3>2. i.comment \in Comment /\ i.at \in Nat
      BY <3>1, InstantsAreNat DEF CommentItem
    <3>3. comments[i.comment].at \in Nat /\ comments'[i.comment].at \in Nat
          /\ comments[i.comment].at <= comments'[i.comment].at
      BY <3>2, CommentsMoveOn, NumbersAreNat, NumbersAreNatNext DEF Shape
    <3> QED
      BY <3>1, <3>2, <3>3
  <2> QED
    BY <1>2, <2>1 DEF CommentsTrue
<1>3. ASSUME NEW e \in Endpoint, Get(e), UNCHANGED comments PROVE CommentsTrue'
  <2>1. ASSUME NEW b \in CommentEndpoint, results'[b] # Nothing, NEW i \in results'[b]
        PROVE  i \in CommentItem /\ SourceOf[i.comment] = b /\ i.at <= comments[i.comment].at
    <3>1. CASE b = e
      <4>1. i \in Listing(b)
        BY <1>3, <2>1, <3>1, GetReads
      <4>2. i \in CommentItem /\ SourceOf[i.comment] = b /\ i.at = comments[i.comment].at
        BY <4>1, CommentsListed
      <4>3. i.at \in Nat
        BY <4>2, InstantsAreNat DEF CommentItem
      <4> QED
        BY <4>2, <4>3
    <3>2. CASE b # e
      BY <1>0, <1>3, <2>1, <3>2, GetReads DEF CommentsTrue
    <3> QED
      BY <3>1, <3>2
  <2> QED
    BY <1>3, <2>1 DEF CommentsTrue
<1>4. CASE GitHub
  BY <1>2, <1>4, OpenKeepsType, ChangeKeepsType, SaysKeepType DEF GitHub, daemon
<1> QED
  BY <1>1, <1>2, <1>3, <1>4, Steps

LEMMA ShapeStep ==
  ASSUME Shape, [Next]_vars
  PROVE  Shape'
<1>1. CASE Next
  BY <1>1, TypeStep, ClockStep, MarksStep, PullsTrueStep, CommentsTrueStep DEF Shape
<1>2. CASE UNCHANGED vars
  BY <1>2 DEF vars, github, store, daemon, Shape, TypeOK, Clock, Marks, PullsTrue,
              CommentsTrue, Stamp, Pulls, PullsAnswered
<1> QED
  BY <1>1, <1>2

\* The state keeps its shape: every value is of its type, for any pull
\* requests, comments and bounds.
THEOREM Typing == Spec => []TypeOK
<1>1. Spec => []Shape
  BY ShapeInit, ShapeStep, PTL DEF Spec
<1>2. Shape => TypeOK
  BY DEF Shape
<1> QED
  BY <1>1, <1>2, PTL
-----------------------------------------------------------------------------
(* What is enqueued, and what the watermarks pass.                         *)

\* What a cycle accepts dates from the first start or from later.
LEMMA AcceptedSince ==
  ASSUME Shape, pc = "process"
  PROVE  /\ \A i \in AcceptedPulls : i \in PullItem /\ Since(pulls[i.pull].created)
         /\ \A i \in AcceptedComments : i \in CommentItem /\ Since(comments[i.comment].at)
<1>1. /\ born # Nothing /\ born \in Nat
      /\ \A s \in Stem : watermark[s] \in Nat /\ born <= watermark[s]
  BY NumbersAreNat, NothingAssumption DEF Shape, Marks
<1>2. ASSUME NEW i \in AcceptedPulls
      PROVE  i \in PullItem /\ Since(pulls[i.pull].created)
  <2>1. i \in Pulls /\ i.created >= watermark["pull_requests"]
    BY DEF AcceptedPulls, Fresh
  <2>2. i \in PullItem /\ i.created = pulls[i.pull].created /\ i.created \in Nat
    BY <2>1, InstantsAreNat DEF Shape, PullsTrue, PullItem
  <2>3. born <= watermark["pull_requests"] /\ watermark["pull_requests"] \in Nat
    BY <1>1 DEF Stem
  <2>4. i.created >= born
    BY <1>1, <2>1, <2>2, <2>3
  <2> QED
    BY <1>1, <2>2, <2>4 DEF Since
<1>3. ASSUME NEW i \in AcceptedComments
      PROVE  i \in CommentItem /\ Since(comments[i.comment].at)
  <2>1. i \in Polled /\ i.at >= watermark["comments"]
    BY DEF AcceptedComments, Fresh
  <2>2. i \in CommentItem /\ i.at <= comments[i.comment].at
    BY <2>1, Polls
  <2>3. i.at \in Nat /\ comments[i.comment].at \in Nat
    BY <2>2, InstantsAreNat, NumbersAreNat DEF CommentItem, Shape
  <2>4. born <= watermark["comments"] /\ watermark["comments"] \in Nat
    BY <1>1 DEF Stem
  <2>5. comments[i.comment].at >= born
    BY <1>1, <2>1, <2>2, <2>3, <2>4
  <2> QED
    BY <1>1, <2>2, <2>5 DEF Since
<1> QED
  BY <1>2, <1>3

\* The queue grows by what a cycle accepts, and in no other way.
LEMMA QueueGrows ==
  ASSUME Next
  PROVE  \/ UNCHANGED queue
         \/ /\ pc = "process" /\ UNCHANGED <<pulls, comments, born>>
            /\ \E done \in SUBSET AcceptedPulls, said \in SUBSET AcceptedComments :
                 queue' = queue \cup PullRows(done) \cup CommentRows(said)
<1>1. CASE Process
  <2>1. /\ queue' = queue \cup PullRows(AcceptedPulls) \cup CommentRows(AcceptedComments)
        /\ pc = "process" /\ UNCHANGED <<pulls, comments, born>>
    BY <1>1 DEF Process, github
  <2> QED
    BY <2>1
<1>2. ASSUME NEW dead \in BOOLEAN, Cut(dead)
      PROVE  /\ pc = "process" /\ UNCHANGED <<pulls, comments, born>>
             /\ \E done \in SUBSET AcceptedPulls, said \in SUBSET AcceptedComments :
                  queue' = queue \cup PullRows(done) \cup CommentRows(said)
  BY <1>2 DEF Cut, github
<1>3. CASE Start \/ Tick \/ Die \/ (\E e \in Endpoint : Get(e) \/ GetFails(e))
  BY <1>3 DEF Start, Tick, Die, Get, GetFails, store
<1>4. CASE GitHub
  BY <1>4 DEF GitHub, Open, Close, Push, Ready, ChangePull, Say, Edit, Elsewhere
<1> QED
  BY <1>1, <1>2, <1>3, <1>4 DEF Next, Daemon, Trouble

\* No stamp moves back, and the first start is the first.
LEMMA StampsMoveOn ==
  ASSUME Shape, Next, TypeOK'
  PROVE  /\ \A p \in Pull : pulls[p].created <= pulls'[p].created
         /\ \A c \in Comment : comments[c].at <= comments'[c].at
         /\ born # Nothing => born' = born
<1>0. \A p \in Pull : pulls[p].created \in Nat /\ pulls[p].created <= Stamp
  BY NumbersAreNat DEF Shape, Clock
<1>1. \A p \in Pull : pulls[p].created <= pulls'[p].created
  <2>1. CASE UNCHANGED pulls
    BY <1>0, <2>1
  <2>2. ASSUME NEW p \in Pull, Open(p), NEW q \in Pull
        PROVE  pulls[q].created <= pulls'[q].created
    BY <1>0, <2>2, OpenKeepsType
  <2>3. ASSUME NEW p \in Pull, Close(p) \/ Push(p) \/ Ready(p), NEW q \in Pull
        PROVE  pulls[q].created <= pulls'[q].created
    <3>1. pulls'[q].created = pulls[q].created
      BY <2>3, ChangeKeepsType
    <3> QED
      BY <1>0, <3>1
  <2>4. ASSUME NEW c \in Comment, Say(c) \/ Edit(c) PROVE UNCHANGED pulls
    BY <2>4, SaysKeepType
  <2> QED
    BY <2>1, <2>2, <2>3, <2>4, Steps DEF GitHub
<1>2. born # Nothing => born' = born
  <2>1. CASE GitHub
    BY <2>1, OpenKeepsType, ChangeKeepsType, SaysKeepType DEF GitHub, daemon
  <2>2. CASE Daemon \/ Trouble \/ Tick
    BY <2>2 DEF Daemon, Trouble, Start, Get, Process, GetFails, Cut, Die, Tick, daemon
  <2> QED
    BY <2>1, <2>2 DEF Next
<1> QED
  BY <1>1, <1>2, CommentsMoveOn

LEMMA NoBacklogStep ==
  ASSUME Shape, NoBacklog, Next, TypeOK'
  PROVE  NoBacklog'
<1>1. ASSUME pc = "process", NEW done \in SUBSET AcceptedPulls,
             NEW said \in SUBSET AcceptedComments,
             queue' = queue \cup PullRows(done) \cup CommentRows(said)
      PROVE  /\ \A p \in Pull, s \in 0 .. MaxTouches :
                  <<p, s>> \in queue' => Since(pulls[p].created)
             /\ \A c \in Comment : c \in queue' => Since(comments[c].at)
  <2>1. \A k \in PullRows(done) : \E i \in AcceptedPulls :
          k = <<i.pull, i.sha>> /\ i \in PullItem /\ Since(pulls[i.pull].created)
    BY <1>1, AcceptedSince DEF PullRows
  <2>2. \A k \in CommentRows(said) : k \in Comment /\ Since(comments[k].at)
    BY <1>1, AcceptedSince DEF CommentRows, CommentItem
  <2>3. \A k \in PullRows(done) : k \in Pull \X (0 .. MaxTouches)
    BY <2>1 DEF PullItem
  <2>4. ASSUME NEW p \in Pull, NEW s \in 0 .. MaxTouches, <<p, s>> \in queue'
        PROVE  Since(pulls[p].created)
    <3>1. <<p, s>> \notin CommentRows(said)
      BY <2>2, KeysAssumption
    <3>2. CASE <<p, s>> \in queue
      BY <3>2 DEF NoBacklog
    <3>3. CASE <<p, s>> \in PullRows(done)
      BY <2>1, <3>3
    <3> QED
      BY <1>1, <2>4, <3>1, <3>2, <3>3
  <2>5. ASSUME NEW c \in Comment, c \in queue' PROVE Since(comments[c].at)
    <3>1. c \notin PullRows(done)
      BY <2>3, KeysAssumption
    <3>2. CASE c \in queue
      BY <3>2 DEF NoBacklog
    <3>3. CASE c \in CommentRows(said)
      BY <2>2, <3>3
    <3> QED
      BY <1>1, <2>5, <3>1, <3>2, <3>3
  <2> QED
    BY <2>4, <2>5
<1>2. /\ \A p \in Pull, s \in 0 .. MaxTouches :
           <<p, s>> \in queue' => Since(pulls[p].created)
      /\ \A c \in Comment : c \in queue' => Since(comments[c].at)
  BY <1>1, QueueGrows DEF NoBacklog
<1>3. \A p \in Pull : Since(pulls[p].created) => Since(pulls[p].created)'
  <2> SUFFICES ASSUME NEW p \in Pull, Since(pulls[p].created)
               PROVE  Since(pulls[p].created)'
    OBVIOUS
  <2>1. /\ born' = born /\ born # Nothing /\ born \in Nat /\ born <= pulls[p].created
        /\ pulls[p].created <= pulls'[p].created
        /\ pulls[p].created \in Nat /\ pulls'[p].created \in Nat
    BY StampsMoveOn, NumbersAreNat, NumbersAreNatNext DEF Since, Shape
  <2>2. pulls'[p].created >= born
    BY <2>1
  <2> QED
    BY <2>1, <2>2 DEF Since
<1>4. \A c \in Comment : Since(comments[c].at) => Since(comments[c].at)'
  <2> SUFFICES ASSUME NEW c \in Comment, Since(comments[c].at)
               PROVE  Since(comments[c].at)'
    OBVIOUS
  <2>1. /\ born' = born /\ born # Nothing /\ born \in Nat /\ born <= comments[c].at
        /\ comments[c].at <= comments'[c].at
        /\ comments[c].at \in Nat /\ comments'[c].at \in Nat
    BY StampsMoveOn, NumbersAreNat, NumbersAreNatNext DEF Since, Shape
  <2>2. comments'[c].at >= born
    BY <2>1
  <2> QED
    BY <2>1, <2>2 DEF Since
<1> QED
  BY <1>2, <1>3, <1>4 DEF NoBacklog

LEMMA PullsAllStep ==
  ASSUME Shape, PullsAll, Next, TypeOK'
  PROVE  PullsAll'
<1>1. CASE results' = Idle
  BY <1>1, IdleIsEmpty DEF PullsAll
<1>2. ASSUME NEW e \in Endpoint, Get(e), UNCHANGED pulls PROVE PullsAll'
  <2>1. CASE e = "open_pulls"
    BY <1>2, <2>1, GetReads, OpeningsListed DEF PullsAll, IsOpen
  <2>2. CASE e # "open_pulls"
    BY <1>2, <2>2, GetReads DEF PullsAll, IsOpen
  <2> QED
    BY <2>1, <2>2
<1>3. CASE UNCHANGED <<results, pulls>>
  BY <1>3 DEF PullsAll, Pulls, PullsAnswered, IsOpen
<1>4. CASE GitHub
  <2>1. Pulls' = Pulls
    <3>1. UNCHANGED results
      BY <1>4, OpenKeepsType, ChangeKeepsType, SaysKeepType DEF GitHub, daemon
    <3> QED
      BY <3>1 DEF Pulls, PullsAnswered
  <2>2. \A i \in Pulls : i.created \in Nat /\ i.created <= Stamp
    BY InstantsAreNat DEF Shape, PullsTrue, Clock, PullItem
  <2>3. ASSUME NEW i \in Pulls, NEW q \in Pull,
               pulls'[q].state = "open", pulls'[q].created < i.created
        PROVE  pulls[q].state = "open" /\ pulls[q].created < i.created
    <3>1. ASSUME NEW p \in Pull, Open(p)
          PROVE  pulls[q].state = "open" /\ pulls[q].created < i.created
      <4>1. q # p
        BY <2>2, <2>3, <3>1, OpenKeepsType, NumbersAreNat DEF Shape
      <4> QED
        BY <2>3, <3>1, <4>1, OpenKeepsType
    <3>2. ASSUME NEW p \in Pull, Close(p) \/ Push(p) \/ Ready(p)
          PROVE  pulls[q].state = "open" /\ pulls[q].created < i.created
      BY <2>3, <3>2, ChangeKeepsType
    <3>3. ASSUME NEW c \in Comment, Say(c) \/ Edit(c)
          PROVE  pulls[q].state = "open" /\ pulls[q].created < i.created
      BY <2>3, <3>3, SaysKeepType
    <3> QED
      BY <1>4, <3>1, <3>2, <3>3 DEF GitHub
  <2> QED
    BY <2>1, <2>3 DEF PullsAll, IsOpen
<1> QED
  BY <1>1, <1>2, <1>3, <1>4, Steps

\* A leg that moves the watermark has enqueued the openings that it passes.
LEMMA PullsLeg ==
  ASSUME Inv, pc = "process", UNCHANGED <<pulls, born>>, queue \subseteq queue',
         watermark' \in [Stem -> Instant],
         \/ watermark'["pull_requests"] = watermark["pull_requests"]
         \/ /\ watermark'["pull_requests"] = AfterPulls["pull_requests"]
            /\ PullRows(AcceptedPulls) \subseteq queue'
  PROVE  OpeningsBelowWatermark'
<1> DEFINE old == watermark["pull_requests"]
           new == watermark'["pull_requests"]
<1>0. /\ Shape /\ OpeningsBelowWatermark /\ PullsAll
      /\ old \in Nat /\ new \in Nat /\ old # Nothing
  BY NumbersAreNat, NothingAssumption, InstantsAreNat DEF Inv, Shape, Marks, Stem
<1> SUFFICES ASSUME NEW p \in Pull, IsOpen(p), p \notin Drafts,
                    Since(pulls[p].created), pulls[p].created < new
             PROVE  \E s \in 0 .. MaxTouches : <<p, s>> \in queue'
  BY DEF OpeningsBelowWatermark, IsOpen, Since, Passed
<1>1. pulls[p].created \in Nat
  BY <1>0, NumbersAreNat DEF Shape
<1>2. CASE pulls[p].created < old
  BY <1>0, <1>2 DEF OpeningsBelowWatermark, Passed
<1>3. CASE ~ (pulls[p].created < old)
  <2>1. /\ new = AfterPulls["pull_requests"] /\ new # old
        /\ PullRows(AcceptedPulls) \subseteq queue'
    BY <1>3
  <2>2. PICK i \in Pulls : new = i.created
    BY <1>0, <2>1, PullsMark
  <2>3. PICK j \in Pulls : j.pull = p
    BY <1>0, <2>2 DEF PullsAll
  <2>4. j \in PullItem /\ j.created = pulls[p].created /\ ~j.draft
    BY <1>0, <2>3 DEF Shape, PullsTrue, PullItem
  <2>5. j.created >= old
    BY <1>0, <1>1, <1>3, <2>4
  <2>6. j \in AcceptedPulls
    BY <2>3, <2>4, <2>5 DEF AcceptedPulls, Fresh
  <2>7. <<p, j.sha>> \in queue'
    BY <2>1, <2>3, <2>6 DEF PullRows
  <2> QED
    BY <2>4, <2>7 DEF PullItem
<1> QED
  BY <1>2, <1>3

LEMMA OpeningsStep ==
  ASSUME Inv, Next, TypeOK'
  PROVE  OpeningsBelowWatermark'
<1>0. /\ Shape /\ OpeningsBelowWatermark
      /\ \A p \in Pull : pulls[p].created \in Nat
      /\ Stamp \in Nat
  BY NumbersAreNat DEF Inv, Shape
<1>1. CASE Process
  <2>1. /\ queue \subseteq queue' /\ PullRows(AcceptedPulls) \subseteq queue'
        /\ pc = "process" /\ UNCHANGED <<pulls, born>>
    BY <1>1 DEF Process, github
  <2> QED
    BY <1>0, <1>1, <2>1, ProcessMarks, PullsLeg
<1>2. ASSUME NEW dead \in BOOLEAN, Cut(dead) PROVE OpeningsBelowWatermark'
  <2>1. /\ queue \subseteq queue' /\ pc = "process" /\ UNCHANGED <<pulls, born>>
        /\ \/ UNCHANGED watermark
           \/ watermark' = AfterPulls /\ PullRows(AcceptedPulls) \subseteq queue'
    BY <1>2 DEF Cut, github
  <2>2. watermark \in [Stem -> Instant]
    BY <1>0, <2>1 DEF Shape, Marks, TypeOK
  <2> QED
    BY <1>0, <2>1, <2>2, PullsMark, PullsLeg
<1>3. CASE Start
  <2>1. UNCHANGED <<pulls, queue>>
    BY <1>3 DEF Start, github
  <2>2. CASE born = Nothing
    <3>1. \A s \in Stem : watermark'[s] = Now
      BY <1>0, <1>3, <2>2 DEF Shape, Marks, Start, Seeded
    <3>2. born' = Now /\ Now \in Nat
      BY <1>0, <1>3, <2>2, StampIsInstant, InstantsAreNat DEF Start, Shape
    <3>3. ASSUME NEW p \in Pull, pulls[p].created >= Now, pulls[p].created < Now
          PROVE  FALSE
      BY <1>0, <3>2, <3>3
    <3> QED
      BY <2>1, <3>1, <3>2, <3>3 DEF OpeningsBelowWatermark, Since, Passed, Stem
  <2>3. CASE born # Nothing
    <3>1. \A s \in Stem : watermark'[s] = watermark[s]
      BY <1>0, <1>3, <2>3, NothingAssumption DEF Shape, Marks, Start, Seeded
    <3>2. born' = born
      BY <1>3, <2>3 DEF Start
    <3> QED
      BY <1>0, <2>1, <3>1, <3>2 DEF OpeningsBelowWatermark, IsOpen, Since, Passed, Stem
  <2> QED
    BY <2>2, <2>3
<1>4. CASE Die \/ Tick \/ (\E e \in Endpoint : Get(e) \/ GetFails(e))
  <2>1. UNCHANGED <<pulls, queue, watermark, born>>
    BY <1>4 DEF Die, Tick, Get, GetFails, github, store, daemon
  <2> QED
    BY <1>0, <2>1 DEF OpeningsBelowWatermark, IsOpen, Since, Passed
<1>5. ASSUME NEW c \in Comment, Say(c) \/ Edit(c) PROVE OpeningsBelowWatermark'
  <2>1. UNCHANGED <<pulls, queue, watermark, born>>
    BY <1>0, <1>5, SaysKeepType DEF daemon
  <2> QED
    BY <1>0, <2>1 DEF OpeningsBelowWatermark, IsOpen, Since, Passed
<1>6. ASSUME NEW p \in Pull, Close(p) \/ Push(p) \/ Ready(p) PROVE OpeningsBelowWatermark'
  <2>1. UNCHANGED <<queue, watermark, born>>
    BY <1>0, <1>6, ChangeKeepsType DEF daemon
  <2>2. \A q \in Pull : /\ pulls'[q].created = pulls[q].created
                        /\ pulls'[q].state = "open" => pulls[q].state = "open"
    BY <1>0, <1>6, ChangeKeepsType
  <2> QED
    BY <1>0, <2>1, <2>2 DEF OpeningsBelowWatermark, IsOpen, Since, Passed
<1>7. ASSUME NEW p \in Pull, Open(p) PROVE OpeningsBelowWatermark'
  <2>1. UNCHANGED <<queue, watermark, born>>
    BY <1>0, <1>7, OpenKeepsType DEF daemon
  <2>2. \A q \in Pull : q # p => pulls'[q] = pulls[q]
    BY <1>0, <1>7, OpenKeepsType
  <2>3. pulls'[p].created = Stamp
    BY <1>0, <1>7, OpenKeepsType
  <2>4. ASSUME Since(Stamp), Passed(Stamp, "pull_requests") PROVE FALSE
    <3>1. /\ born \in Nat /\ watermark["pull_requests"] \in Nat
          /\ Stamp >= born /\ Stamp < watermark["pull_requests"]
      BY <1>0, <2>4, NumbersAreNat DEF Since, Passed, Shape, Stem
    <3>2. watermark["pull_requests"] = born \/ watermark["pull_requests"] <= Stamp
      BY <1>0, <2>4 DEF Shape, Marks, Since, Stem
    <3> QED
      BY <1>0, <3>1, <3>2
  <2> QED
    BY <1>0, <2>1, <2>2, <2>3, <2>4 DEF OpeningsBelowWatermark, IsOpen, Since, Passed
<1> QED
  BY <1>1, <1>2, <1>3, <1>4, <1>5, <1>6, <1>7 DEF Next, Daemon, GitHub, Trouble

LEMMA InvInit == Init => Inv
<1> SUFFICES ASSUME Init PROVE Inv
  OBVIOUS
<1>1. Shape
  BY ShapeInit
<1>2. NoBacklog /\ OpeningsBelowWatermark
  BY DEF Init, NoBacklog, OpeningsBelowWatermark, Since
<1>3. PullsAll
  BY DEF Init, PullsAll, Pulls, PullsAnswered, Idle, Endpoint
<1> QED
  BY <1>1, <1>2, <1>3 DEF Inv

LEMMA InvStep ==
  ASSUME Inv, [Next]_vars
  PROVE  Inv'
<1>1. Shape'
  BY ShapeStep DEF Inv
<1>2. CASE Next
  BY <1>1, <1>2, NoBacklogStep, PullsAllStep, OpeningsStep DEF Inv, Shape
<1>3. CASE UNCHANGED vars
  BY <1>1, <1>3 DEF vars, github, store, daemon, Inv, NoBacklog, PullsAll,
     OpeningsBelowWatermark, Pulls, PullsAnswered, IsOpen, Since, Passed
<1> QED
  BY <1>2, <1>3

\* Nothing that pre-dates the first start is ever enqueued: a restart, a lost
\* ETag and a failed sweep replay nothing.
THEOREM ReplaysNothing == Spec => []NoBacklog
<1>1. Spec => []Inv
  BY InvInit, InvStep, PTL DEF Spec
<1>2. Inv => NoBacklog
  BY DEF Inv
<1> QED
  BY <1>1, <1>2, PTL

\* The watermark passes no pull request that was opened ready, after the first
\* start, and is not in the queue: whatever failed, and wherever a cycle ended.
THEOREM SkipsNoOpening == Spec => []OpeningsBelowWatermark
<1>1. Spec => []Inv
  BY InvInit, InvStep, PTL DEF Spec
<1>2. Inv => OpeningsBelowWatermark
  BY DEF Inv
<1> QED
  BY <1>1, <1>2, PTL
-----------------------------------------------------------------------------
(* Mentions, where nothing lets one slip: comments of one endpoint, on     *)
(* pull requests that no listing can be too early for.                     *)

LEMMA MentionsAllStep ==
  ASSUME OneSource, Shape, MentionsAll, Next, TypeOK'
  PROVE  MentionsAll'
<1>1. CASE results' = Idle
  BY <1>1, IdleIsEmpty DEF MentionsAll
<1>2. ASSUME NEW e \in Endpoint, Get(e), UNCHANGED comments PROVE MentionsAll'
  <2>1. ASSUME NEW b \in CommentEndpoint, results'[b] # Nothing, NEW i \in results'[b],
               NEW c \in Comment, comments[c].asks, comments[c].at < i.at
        PROVE  \E j \in results'[b] : j.comment = c /\ j.at = comments[c].at /\ j.asks
    <3>1. CASE b = e
      <4>1. results'[b] = Listing(b)
        BY <1>2, <2>1, <3>1, GetReads
      <4>2. i.comment \in Comment /\ SourceOf[i.comment] = b
        BY <2>1, <4>1, CommentsListed DEF CommentItem
      <4>3. SourceOf[c] = b
        BY <4>2 DEF OneSource
      <4>4. comments[c].said
        BY <2>1 DEF Shape, Clock
      <4>5. PICK j \in Listing(b) : j.comment = c
        BY <4>3, <4>4, CommentsListed
      <4>6. j.at = comments[c].at /\ j.asks = comments[c].asks
        BY <4>5, CommentsListed
      <4> QED
        BY <2>1, <4>1, <4>5, <4>6
    <3>2. CASE b # e
      BY <1>2, <2>1, <3>2, GetReads DEF MentionsAll
    <3> QED
      BY <3>1, <3>2
  <2> QED
    BY <1>2, <2>1 DEF MentionsAll
<1>3. CASE UNCHANGED <<results, comments>>
  BY <1>3 DEF MentionsAll
<1>4. CASE GitHub
  <2>1. UNCHANGED results
    BY <1>4, OpenKeepsType, ChangeKeepsType, SaysKeepType DEF GitHub, daemon
  <2>2. ASSUME NEW d \in Comment, Say(d) \/ Edit(d) PROVE MentionsAll'
    <3>1. ASSUME NEW b \in CommentEndpoint, results[b] # Nothing, NEW i \in results[b],
                 NEW c \in Comment, comments'[c].asks, comments'[c].at < i.at
          PROVE  \E j \in results[b] : j.comment = c /\ j.at = comments'[c].at /\ j.asks
      <4>1. i \in CommentItem /\ i.at <= comments[i.comment].at
        BY <3>1 DEF Shape, CommentsTrue
      <4>2. comments[i.comment].at <= Stamp
        BY <4>1 DEF Shape, Clock, CommentItem
      <4>3. i.at \in Nat /\ comments[i.comment].at \in Nat /\ Stamp \in Nat
        BY <4>1, InstantsAreNat, NumbersAreNat DEF CommentItem, Shape
      <4>4. i.at <= Stamp
        BY <4>1, <4>2, <4>3
      <4>5. c # d
        <5> SUFFICES ASSUME c = d PROVE FALSE
          OBVIOUS
        <5>1. comments'[c].at = Stamp
          BY <2>2, SaysKeepType
        <5> QED
          BY <3>1, <4>3, <4>4, <5>1
      <4>6. comments'[c] = comments[c]
        BY <2>2, <4>5, SaysKeepType
      <4> QED
        BY <3>1, <4>6 DEF MentionsAll
    <3> QED
      BY <2>1, <3>1 DEF MentionsAll
  <2>3. ASSUME NEW p \in Pull, Open(p) \/ Close(p) \/ Push(p) \/ Ready(p)
        PROVE  UNCHANGED comments
    BY <2>3, OpenKeepsType, ChangeKeepsType
  <2> QED
    BY <1>3, <1>4, <2>1, <2>2, <2>3 DEF GitHub
<1> QED
  BY <1>1, <1>2, <1>3, <1>4, Steps

LEMMA OldStayOld ==
  ASSUME Shape, Next
  PROVE  \A p \in Old : IsOpen(p)' => IsOpen(p)
<1> SUFFICES ASSUME NEW p \in Old, pulls'[p].state = "open"
             PROVE  pulls[p].state = "open"
  BY DEF IsOpen
<1>1. p \in Pull /\ pulls[p].state # "absent"
  BY ColumnsAssumption DEF Shape, Clock
<1>2. ASSUME NEW q \in Pull, Open(q) PROVE pulls[p].state = "open"
  <2>1. q # p
    BY <1>1, <1>2, OpenKeepsType
  <2> QED
    BY <1>1, <1>2, <2>1, OpenKeepsType
<1>3. ASSUME NEW q \in Pull, Close(q) \/ Push(q) \/ Ready(q) PROVE pulls[p].state = "open"
  BY <1>1, <1>3, ChangeKeepsType
<1>4. ASSUME NEW c \in Comment, Say(c) \/ Edit(c) PROVE UNCHANGED pulls
  BY <1>4, SaysKeepType
<1> QED
  BY <1>2, <1>3, <1>4, Steps DEF GitHub

LEMMA OpenKnownStep ==
  ASSUME Shape, OpenKnown, Next
  PROVE  OpenKnown'
<1>1. OpenNow # Nothing => \A p \in Old : IsOpen(p) => p \in OpenNow
  <2>1. CASE PullsAnswered
    BY <2>1 DEF OpenKnown, OpenNow
  <2>2. CASE ~PullsAnswered
    BY <2>2 DEF OpenKnown, OpenNow
  <2> QED
    BY <2>1, <2>2
<1>2. ASSUME open' # Nothing, NEW p \in Old, IsOpen(p)' PROVE p \in open'
  <2>1. IsOpen(p)
    BY <1>2, OldStayOld
  <2>2. open' \in {open, OpenNow, Nothing}
    <3>1. CASE GitHub
      BY <3>1, OpenKeepsType, ChangeKeepsType, SaysKeepType DEF GitHub, daemon
    <3>2. CASE Daemon \/ Trouble \/ Tick
      BY <3>2 DEF Daemon, Trouble, Start, Get, Process, GetFails, Cut, Left, Die, Tick, daemon
    <3> QED
      BY <3>1, <3>2 DEF Next
  <2> QED
    BY <1>1, <1>2, <2>1, <2>2 DEF OpenKnown
<1>3. ASSUME PullsAnswered', NEW p \in Old, IsOpen(p)' PROVE \E j \in Pulls' : j.pull = p
  <2>0. IsOpen(p) /\ p \in Pull
    BY <1>3, OldStayOld, ColumnsAssumption
  <2>1. CASE results' = Idle
    BY <1>3, <2>1, IdleIsEmpty
  <2>2. ASSUME NEW e \in Endpoint, Get(e) PROVE \E j \in Pulls' : j.pull = p
    <3> DEFINE new == IF e \in etag THEN Nothing ELSE Listing(e)
    <3>1. results' = [results EXCEPT ![e] = new] /\ (new = Nothing \/ new = Listing(e))
      BY <2>2 DEF Get
    <3>2. DOMAIN results = Endpoint
      BY DEF Shape, TypeOK
    <3> HIDE DEF new
    <3>3. CASE e = "open_pulls"
      <4>1. Pulls' = Listing("open_pulls")
        BY <1>3, <3>1, <3>2, <3>3 DEF PullsAnswered, Pulls, Endpoint
      <4> QED
        BY <2>0, <4>1, OpeningsListed
    <3>4. CASE e # "open_pulls"
      <4>1. results'["open_pulls"] = results["open_pulls"]
        BY <3>1, <3>2, <3>4 DEF Endpoint
      <4> QED
        BY <1>3, <2>0, <4>1 DEF OpenKnown, PullsAnswered, Pulls
    <3> QED
      BY <3>3, <3>4
  <2>3. ASSUME UNCHANGED results PROVE \E j \in Pulls' : j.pull = p
    BY <1>3, <2>0, <2>3 DEF OpenKnown, PullsAnswered, Pulls
  <2>4. CASE GitHub
    BY <2>3, <2>4, OpenKeepsType, ChangeKeepsType, SaysKeepType DEF GitHub, daemon
  <2> QED
    BY <2>1, <2>2, <2>3, <2>4, Steps
<1> QED
  BY <1>2, <1>3 DEF OpenKnown

\* A mention that the cycle's watermark passes is accepted by the cycle.
LEMMA CommentsLeg ==
  ASSUME AllOld, MentionsInv, Process
  PROVE  MentionsBelowWatermark'
<1> DEFINE old == watermark["comments"]
<1>0. /\ Shape /\ MentionsBelowWatermark /\ MentionsAll /\ OpenKnown
      /\ pc = "process" /\ UNCHANGED <<pulls, comments, born>>
      /\ watermark'["comments"] = CommentsTo
      /\ queue' = queue \cup PullRows(AcceptedPulls) \cup CommentRows(AcceptedComments)
  BY ProcessMarks DEF MentionsInv, Inv, Process, github
<1>1. old \in Nat /\ old # Nothing /\ CommentsTo \in Nat
  BY <1>0, CommentsMark, NumbersAreNat, NothingAssumption, InstantsAreNat DEF Shape, Marks, Stem
<1> SUFFICES ASSUME NEW c \in Comment, comments[c].asks, IsOpen(PullOf[c]),
                    Since(comments[c].at), comments[c].at < CommentsTo
             PROVE  c \in queue'
  BY <1>0 DEF MentionsBelowWatermark, IsOpen, Since, Passed
<1>2. comments[c].at \in Nat
  BY <1>0, NumbersAreNat DEF Shape
<1>3. CASE comments[c].at < old
  BY <1>0, <1>1, <1>3 DEF MentionsBelowWatermark, Passed
<1>4. CASE ~ (comments[c].at < old)
  <2>1. CommentsTo # old
    BY <1>4
  <2>2. PICK i \in Polled : CommentsTo = i.at
    BY <1>0, <2>1, CommentsMark
  <2>3. PICK e \in CommentEndpoint : results[e] # Nothing /\ i \in results[e]
    BY DEF Polled
  <2>4. PICK j \in results[e] : j.comment = c /\ j.at = comments[c].at /\ j.asks
    BY <1>0, <2>2, <2>3 DEF MentionsAll
  <2>5. j \in Polled
    BY <2>3, <2>4 DEF Polled
  <2>6. OpenNow # Nothing => PullOf[j.comment] \in OpenNow
    <3>1. PullOf[c] \in Old
      BY DEF AllOld
    <3>2. CASE PullsAnswered
      BY <1>0, <2>4, <3>1, <3>2 DEF OpenKnown, OpenNow
    <3>3. CASE ~PullsAnswered
      BY <1>0, <2>4, <3>1, <3>3 DEF OpenKnown, OpenNow
    <3> QED
      BY <3>2, <3>3
  <2>7. j.at >= old
    BY <1>1, <1>2, <1>4, <2>4
  <2>8. j \in AcceptedComments
    BY <2>4, <2>5, <2>6, <2>7 DEF AcceptedComments, Fresh
  <2> QED
    BY <1>0, <2>4, <2>8 DEF CommentRows
<1> QED
  BY <1>3, <1>4

LEMMA MentionsStep ==
  ASSUME AllOld, MentionsInv, Next, TypeOK'
  PROVE  MentionsBelowWatermark'
<1>0. /\ Shape /\ MentionsBelowWatermark /\ Stamp \in Nat
      /\ \A c \in Comment : PullOf[c] \in Old /\ PullOf[c] \in Pull
  BY NumbersAreNat, ColumnsAssumption DEF MentionsInv, Inv, Shape, AllOld
<1>1. CASE Process
  BY <1>1, CommentsLeg
<1>2. ASSUME UNCHANGED <<pulls, comments, born>>, queue \subseteq queue',
             watermark'["comments"] = watermark["comments"]
      PROVE  MentionsBelowWatermark'
  BY <1>0, <1>2 DEF MentionsBelowWatermark, IsOpen, Since, Passed
<1>3. ASSUME NEW dead \in BOOLEAN, Cut(dead) PROVE MentionsBelowWatermark'
  <2>1. /\ UNCHANGED <<pulls, comments, born>> /\ queue \subseteq queue'
        /\ pc = "process" /\ watermark' \in {watermark, AfterPulls}
    BY <1>3 DEF Cut, github
  <2> QED
    BY <1>0, <1>2, <2>1, PullsMark
<1>4. CASE Start
  <2>1. UNCHANGED <<pulls, comments, queue>>
    BY <1>4 DEF Start, github
  <2>2. CASE born = Nothing
    <3>1. \A s \in Stem : watermark'[s] = Now
      BY <1>0, <1>4, <2>2 DEF Shape, Marks, Start, Seeded
    <3>2. born' = Now /\ Now \in Nat /\ \A c \in Comment : comments[c].at \in Nat
      BY <1>0, <1>4, <2>2, StampIsInstant, InstantsAreNat, NumbersAreNat DEF Start, Shape
    <3>3. ASSUME NEW c \in Comment, comments[c].at >= Now, comments[c].at < Now
          PROVE  FALSE
      BY <3>2, <3>3
    <3> QED
      BY <2>1, <3>1, <3>2, <3>3 DEF MentionsBelowWatermark, Since, Passed, Stem
  <2>3. CASE born # Nothing
    <3>1. \A s \in Stem : watermark'[s] = watermark[s]
      BY <1>0, <1>4, <2>3, NothingAssumption DEF Shape, Marks, Start, Seeded
    <3>2. born' = born
      BY <1>4, <2>3 DEF Start
    <3> QED
      BY <1>2, <2>1, <3>1, <3>2 DEF Stem
  <2> QED
    BY <2>2, <2>3
<1>5. CASE Die \/ Tick \/ (\E e \in Endpoint : Get(e) \/ GetFails(e))
  <2>1. UNCHANGED <<pulls, comments, queue, watermark, born>>
    BY <1>5 DEF Die, Tick, Get, GetFails, github, store, daemon
  <2> QED
    BY <1>2, <2>1
<1>6. ASSUME NEW p \in Pull, Open(p) \/ Close(p) \/ Push(p) \/ Ready(p)
      PROVE  MentionsBelowWatermark'
  <2>1. UNCHANGED <<comments, queue, watermark, born>>
    BY <1>0, <1>6, OpenKeepsType, ChangeKeepsType DEF daemon
  <2>2. \A q \in Old : IsOpen(q)' => IsOpen(q)
    BY <1>0, OldStayOld
  <2> QED
    BY <1>0, <2>1, <2>2 DEF MentionsBelowWatermark, IsOpen, Since, Passed
<1>7. ASSUME NEW d \in Comment, Say(d) \/ Edit(d) PROVE MentionsBelowWatermark'
  <2>1. /\ UNCHANGED <<pulls, queue, watermark, born>>
        /\ comments'[d].at = Stamp
        /\ \A c \in Comment : c # d => comments'[c] = comments[c]
    BY <1>0, <1>7, SaysKeepType DEF daemon
  <2>2. ASSUME Since(Stamp), Passed(Stamp, "comments") PROVE FALSE
    <3>1. /\ born \in Nat /\ watermark["comments"] \in Nat
          /\ Stamp >= born /\ Stamp < watermark["comments"]
      BY <1>0, <2>2, NumbersAreNat DEF Since, Passed, Shape, Stem
    <3>2. watermark["comments"] = born \/ watermark["comments"] <= Stamp
      BY <1>0, <2>2 DEF Shape, Marks, Since, Stem
    <3> QED
      BY <1>0, <3>1, <3>2
  <2> QED
    BY <1>0, <2>1, <2>2 DEF MentionsBelowWatermark, IsOpen, Since, Passed
<1> QED
  BY <1>1, <1>3, <1>4, <1>5, <1>6, <1>7 DEF Next, Daemon, GitHub, Trouble

LEMMA MentionsInvInit == Init => MentionsInv
<1> SUFFICES ASSUME Init PROVE MentionsInv
  OBVIOUS
<1>1. Inv
  BY InvInit
<1>2. MentionsAll
  BY DEF Init, MentionsAll, Idle, Endpoint, CommentEndpoint
<1>3. OpenKnown
  BY DEF Init, OpenKnown, PullsAnswered, Idle, Endpoint
<1>4. MentionsBelowWatermark
  BY DEF Init, MentionsBelowWatermark, Since
<1> QED
  BY <1>1, <1>2, <1>3, <1>4 DEF MentionsInv

LEMMA MentionsInvStep ==
  ASSUME OneSource, AllOld, MentionsInv, [Next]_vars
  PROVE  MentionsInv'
<1>1. Inv'
  BY InvStep DEF MentionsInv
<1>2. CASE Next
  BY <1>1, <1>2, MentionsAllStep, OpenKnownStep, MentionsStep DEF MentionsInv, Inv, Shape
<1>3. CASE UNCHANGED vars
  BY <1>1, <1>3 DEF vars, github, store, daemon, MentionsInv, MentionsAll, OpenKnown,
     MentionsBelowWatermark, Pulls, PullsAnswered, IsOpen, Since, Passed
<1> QED
  BY <1>2, <1>3

\* Where all comments come from one endpoint, and are of pull requests that
\* were opened before the first start, the watermark passes no mention that is
\* not in the queue.  Without the first condition this is false of the code:
\* two endpoints are read one after the other and share the watermark.
THEOREM SkipsNoMention ==
  ASSUME OneSource, AllOld
  PROVE  Spec => []MentionsBelowWatermark
<1>1. Spec => []MentionsInv
  <2>1. MentionsInv /\ [Next]_vars => MentionsInv'
    BY MentionsInvStep
  <2> QED
    BY <2>1, MentionsInvInit, PTL DEF Spec
<1>2. MentionsInv => MentionsBelowWatermark
  BY DEF MentionsInv
<1> QED
  BY <1>1, <1>2, PTL

=============================================================================
