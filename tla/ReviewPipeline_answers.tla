----------------------- MODULE ReviewPipeline_answers ----------------------
(***************************************************************************)
(* Proofs of what a pull request is told, for any triggers, workers and    *)
(* pull requests and whatever fails, as long as no lease lapses while its  *)
(* worker is alive: every completed review is answered, a folded trigger   *)
(* by the review that folded it, and none is posted twice unless a post    *)
(* was cut short.                                                          *)
(*                                                                         *)
(* The hypothesis is `~LiveLapse', and the first invariant is what it      *)
(* gives: a worker that is on a row holds its lease, so no other worker is *)
(* on any row of that pull request (Holding).  The others follow from it   *)
(* one on another: what is told (Telling), what is written (Writings),     *)
(* what was read (Readings), and posts against stamps (Ledgers).           *)
(***************************************************************************)
EXTENDS ReviewPipeline_proofs

USE QueueAssumption, PublicationAssumption, FaultsAssumption
    DEF QueueAssumption, PublicationAssumption, FaultsAssumption,
        Q!ColumnsAssumption, Q!NullAssumption, Q!BoundsAssumption

-----------------------------------------------------------------------------
(* Leases that do not lapse under a live worker.                           *)

\* A worker in these phases goes on with a row; in the others it has none, or
\* is done with it.
Active == Phase \ {"idle", "announce", "fold", "done"}

OnRow(o) == work[o].pc \in Active

Holding ==
  /\ \A o \in Owner : OnRow(o) => Q!Holds(Key_(o), o)
  /\ Q!OneLiveLeasePerPull

-----------------------------------------------------------------------------
(* What a pull request is told.                                            *)

\* A row that no claim takes again.
Dead(k) ==
  \/ rows[k].status \in {"done", "abandoned"}
  \/ rows[k].status = "pending" /\ rows[k].attempts = MaxAttempts

Ending(o) ==
  LET r == rows[Key_(o)]
      w == work[o]
  IN /\ w.last /\ OnRow(o) => r.attempts = MaxAttempts
     /\ w.notice => w.pc \in {"refuse", "abandon", "settle", "verb"} /\ ~w.reviewed
     /\ w.notice /\ w.pc \in {"settle", "verb"} =>
          w.finish = "abandon" \/ (w.finish = "release" /\ r.attempts = MaxAttempts)
     /\ w.pc = "announce" => Dead(Key_(o)) /\ notices[Key_(o)] = 0

Telling ==
  /\ \A o \in Owner : Ending(o)
  /\ \A o, p \in Owner :
       work[o].pc = "announce" /\ work[p].pc = "announce" /\ Key_(o) = Key_(p) => o = p
  /\ \A t \in Trigger : notices[t] <= 1 /\ (notices[t] = 1 => Dead(t))

-----------------------------------------------------------------------------
(* What a completed row leaves behind.                                     *)

\* Nothing is left to post of the run.
Final(t) == runs[t].stamped \/ GaveUp(t)

Served(t) == Final(t) \/ rows[PubOf[t]].status # "absent"

Posting == {"publish", "post", "stamp", "failed", "enqueue"}

Writing(o) ==
  LET w == work[o]
      k == Key_(o)
  IN /\ w.reviewed \/ w.pc = "fold" => runs[k].head # NoSha
     /\ w.reviewed => w.pc \in Posting \cup {"settle", "verb"}
     /\ w.pc \in Posting /\ k \in Trigger => w.reviewed
     /\ w.pc = "settle" /\ ~w.reviewed => w.finish # "complete"
     /\ w.pc = "verb" /\ k \in Trigger =>
          /\ w.finish = "complete" => Served(k)
          /\ w.reviewed => w.finish = "complete"
     /\ w.pc = "verb" /\ k \notin Trigger =>
          /\ w.finish \in {"complete", "unattempted"}
          /\ w.finish = "complete" => Final(Subject(o))
     /\ w.pc = "fold" => Served(k) /\ rows[k].status = "done"

WorkedOn(k) == \E o \in Owner : OnRow(o) /\ Key_(o) = k

Owing(t) ==
  LET r == rows[PubOf[t]]
  IN /\ r.status # "absent" => runs[t].head # NoSha
     /\ r.status = "done" => Final(t)
     /\ r.status = "abandoned" => upsets >= MaxAttempts
     /\ r.status \in {"pending", "claimed"} =>
          r.attempts <= upsets + (IF WorkedOn(PubOf[t]) THEN 1 ELSE 0)
     /\ rows[t].status = "done" /\ foldedBy[t] = NoKey => Served(t)

Writings ==
  /\ \A o \in Owner : Writing(o)
  /\ \A t \in Trigger : Owing(t)

-----------------------------------------------------------------------------
(* What a review has read.                                                 *)

\* The triggers that waited when the worker's claim was made.
Waited(o, t) ==
  /\ rows[t].status # "absent" /\ rows[t].id <= claims[o].started
  /\ PullOf[t] = PullOf[Key_(o)]

\* A commit that is not older than what those triggers were asked about.
Covers(o, sha) ==
  sha = FirstHead => \A t \in Trigger : Waited(o, t) => asked[t] = FirstHead

Reading(o) ==
  LET w == work[o]
  IN /\ claims[o].started <= lastRow
     /\ w.pc = "engine" => Covers(o, w.read)
     /\ w.reviewed \/ w.pc = "fold" =>
          runs[Key_(o)].head = w.head /\ Covers(o, runs[Key_(o)].read)

FoldedOK(t) ==
  LET run == runs[foldedBy[t]] IN
  /\ rows[t].status = "done" /\ rows[foldedBy[t]].status = "done"
  /\ Served(foldedBy[t])
  /\ run.read = FirstHead => asked[t] = FirstHead

Readings ==
  /\ \A o \in Owner : Reading(o)
  /\ \A t \in Trigger :
       /\ rows[t].status # "absent" =>
            asked[t] = FirstHead \/ head[PullOf[t]] # FirstHead
       /\ foldedBy[t] # NoKey => FoldedOK(t)

-----------------------------------------------------------------------------
(* Posts against stamps.                                                   *)

\* The comment is up, and its worker knows.
Up(t) == runs[t].stamped \/ \E o \in Owner : At(o, "stamp") /\ Subject(o) = t

\* It was an item's worker that put it up.
ItemUp(t) == \E o \in Owner : At(o, "stamp") /\ Key_(o) = PubOf[t]

\* A review's worker whose death would cut its post short.
Late(t) ==
  \E o \in Owner :
    Key_(o) = t /\ (At(o, "stamp") \/ (At(o, "verb") /\ work[o].reviewed))

One(b) == IF b THEN 1 ELSE 0

Ledger(t) ==
  /\ comments[t] <= cut[t] + One(Up(t))
  /\ rows[t].status \notin {"done", "abandoned"} =>
       /\ comments[t] <= cut[t] + One(Late(t))
       /\ rows[PubOf[t]].status # "absent" /\ ~runs[t].stamped /\ ~ItemUp(t) =>
            comments[t] + 1 <= cut[t] + One(Late(t))

Ledgers ==
  /\ \A o \in Owner :
       work[o].pc \in {"holds", "publish", "post"} /\ IsItem(o) => ~runs[Subject(o)].stamped
  /\ \A t \in Trigger : Ledger(t)

\* What a worker has in hand after each kind of move.
LEMMA Going ==
  ASSUME Shape, NEW o \in Owner, NEW pc, Go(o, pc)
  PROVE  /\ work'[o].pc = pc
         /\ work'[o].head = work[o].head /\ work'[o].read = work[o].read
         /\ work'[o].last = work[o].last /\ work'[o].finish = work[o].finish
         /\ work'[o].reviewed = work[o].reviewed /\ work'[o].notice = work[o].notice
BY DEF Go, Shape, WorkOK, Work

LEMMA Closing ==
  ASSUME Shape, NEW o \in Owner, NEW finish, Close(o, finish)
  PROVE  /\ work'[o].pc = "verb" /\ work'[o].finish = finish
         /\ work'[o].head = work[o].head /\ work'[o].read = work[o].read
         /\ work'[o].last = work[o].last
         /\ work'[o].reviewed = work[o].reviewed /\ work'[o].notice = work[o].notice
BY DEF Close, Shape, WorkOK, Work

LEMMA Quitting ==
  ASSUME Shape, NEW o \in Owner, NEW finish, NEW notice, End(o, finish, notice)
  PROVE  /\ work'[o].pc = "settle" /\ work'[o].finish = finish
         /\ work'[o].notice = notice
         /\ ~work'[o].last /\ ~work'[o].reviewed
BY DEF End, Idle, Shape, WorkOK

LEMMA Leaving ==
  ASSUME Shape, NEW o \in Owner, Leave(o)
  PROVE  /\ ~work'[o].last /\ ~work'[o].reviewed /\ ~work'[o].notice
         /\ work[o].notice => work'[o].pc = "announce"
         /\ ~work[o].notice /\ work[o].reviewed =>
              work'[o].pc = "fold" /\ work'[o].head = work[o].head
         /\ ~work[o].notice /\ ~work[o].reviewed => work'[o].pc = "done"
<1>1. work[o].notice \in BOOLEAN /\ work[o].reviewed \in BOOLEAN /\ work \in [Owner -> Work]
  BY DEF Shape, WorkOK, Work
<1> QED
  BY <1>1 DEF Leave, Idle

\* What a worker's step makes of a row: nothing, what the verb says of its own
\* row, a fold of a row that waits, or a new publication item.
LEMMA RowMoves ==
  ASSUME Shape, NEW o \in Owner, Step(o), NEW k \in Key
  PROVE  \/ rows'[k] = rows[k]
         \/ /\ AbandonRefused(o) /\ k = Key_(o) /\ Q!Owns(k, o)
            /\ rows'[k].owner = NoOwner
            /\ rows'[k].status = "abandoned" /\ rows'[k].attempts = rows[k].attempts
         \/ /\ CloseRow(o) /\ k = Key_(o) /\ Q!Owns(k, o)
            /\ rows'[k].owner = NoOwner
            /\ work[o].finish = "complete" => rows'[k].status = "done"
            /\ work[o].finish = "abandon" => rows'[k].status = "abandoned"
            /\ work[o].finish \in {"release", "unattempted"} => rows'[k].status = "pending"
            /\ work[o].finish # "unattempted" => rows'[k].attempts = rows[k].attempts
            /\ work[o].finish = "unattempted" /\ rows[k].attempts > 0 =>
                 rows'[k].attempts = rows[k].attempts - 1
            /\ rows'[k].attempts <= rows[k].attempts
         \/ /\ Fold(o) /\ rows'[k].status = "done" /\ rows'[k].owner = NoOwner
            /\ k \in Q!Answered(claims[o].key, claims[o].started, work[o].head)
         \/ /\ EnqueuePublication(o) /\ k = PubOf[Key_(o)] /\ rows[k].status = "absent"
            /\ rows'[k].status = "pending" /\ rows'[k].attempts = 0
            /\ rows'[k].owner = NoOwner
<1>0. RowsOK /\ work[o].finish \in Verb /\ Fits(claims[o], work[o]) /\ rows[k] \in Q!Row
  BY DEF Shape, QueueOK, RowsOK, WorkOK, Work
<1>1. CASE UNCHANGED rows
  BY <1>1
<1>2. CASE AbandonRefused(o)
  <2>1. Key_(o) \in Key
    BY <1>2, Busy DEF AbandonRefused, At
  <2>2. rows' = Q!Finished(Key_(o), o, "abandoned")
    BY <1>2 DEF AbandonRefused, Q!Abandon, Q!Finish, Key_
  <2>3. /\ ByOwner(o, Key_(o)) /\ rows'[Key_(o)].attempts = rows[Key_(o)].attempts
        /\ Q!Owns(Key_(o), o) => rows'[Key_(o)].status = "abandoned"
    BY <1>0, <2>1, <2>2, FinishedRows
  <2> QED
    BY <1>2, <2>3 DEF ByOwner
<1>3. CASE CloseRow(o) /\ work[o].finish # "unattempted"
  <2>1. Key_(o) \in Key
    BY <1>3, Busy DEF CloseRow, At
  <2>2. PICK status \in {"pending", "done", "abandoned"} :
          /\ rows' = Q!Finished(Key_(o), o, status)
          /\ work[o].finish = "complete" => status = "done"
          /\ work[o].finish = "abandon" => status = "abandoned"
          /\ work[o].finish = "release" => status = "pending"
    BY <1>0, <1>3 DEF CloseRow, Verb, Q!Complete, Q!Release, Q!Abandon, Q!Finish, Key_
  <2>3. /\ ByOwner(o, Key_(o)) /\ rows'[Key_(o)].attempts = rows[Key_(o)].attempts
        /\ Q!Owns(Key_(o), o) => rows'[Key_(o)].status = status
    BY <1>0, <2>1, <2>2, FinishedRows
  <2>4. rows[Key_(o)].attempts \in Nat
    BY <1>0, <2>1 DEF RowsOK, Q!Row
  <2> QED
    BY <1>3, <2>2, <2>3, <2>4 DEF ByOwner
<1>4. CASE CloseRow(o) /\ work[o].finish = "unattempted"
  <2>1. Key_(o) \in Key
    BY <1>4, Busy DEF CloseRow, At
  <2>2. rows' = Q!Unattempted(Key_(o), o)
    BY <1>4 DEF CloseRow, Q!ReleaseUnattempted, Key_
  <2>3. /\ ByOwner(o, Key_(o)) /\ rows'[Key_(o)].attempts <= rows[Key_(o)].attempts
        /\ Q!Owns(Key_(o), o) => rows'[Key_(o)].status = "pending"
    BY <1>0, <2>1, <2>2, UnattemptedRows
  <2>4. Q!Owns(Key_(o), o) /\ rows[Key_(o)].attempts > 0 =>
          rows'[Key_(o)].attempts = rows[Key_(o)].attempts - 1
    <3> SUFFICES ASSUME Q!Owns(Key_(o), o), rows[Key_(o)].attempts > 0
                 PROVE  rows'[Key_(o)].attempts = rows[Key_(o)].attempts - 1
      OBVIOUS
    <3>1. rows'[Key_(o)] = Q!Uncounted(rows[Key_(o)])
      BY <1>0, <2>1, <2>2 DEF Q!Unattempted, RowsOK
    <3>2. rows[Key_(o)].attempts # 0
      OBVIOUS
    <3> QED
      BY <3>1, <3>2 DEF Q!Uncounted, Q!GivenUp
  <2> QED
    BY <1>4, <2>3, <2>4 DEF ByOwner
<1>5. CASE EnqueuePublication(o)
  <2>1. Key_(o) \in Trigger
    BY <1>0, <1>5 DEF Fits, OnTrigger, EnqueuePublication, At, Key_
  <2> QED
    BY <1>0, <1>1, <1>5, <2>1, InsertedRows
       DEF EnqueuePublication, Q!Enqueue, Q!Known, queueVars, Shape, QueueOK
<1>6. CASE Fold(o)
  <2>1. rows' = Q!Folded(Q!Answered(claims[o].key, claims[o].started, work[o].head))
    BY <1>6 DEF Fold, Q!Fold
  <2> QED
    BY <1>0, <1>6, <2>1 DEF Q!Folded, Q!GivenUp
<1> QED
  BY <1>1, <1>2, <1>3, <1>4, <1>5, <1>6
     DEF Step, Start, Facts, Checkout, Refuse, Reviewed, EngineFailed, UsageLimited, Settle,
         Item, StillHolds, ReadHead, Post, Stamp, Failed, Announce, Rest, Q!Forget, queueVars

\* A row that is answered waits, and a review may answer it.
LEMMA AnsweredRows ==
  ASSUME NEW k, NEW before, NEW sha, NEW j \in Q!Answered(k, before, sha)
  PROVE  /\ j \in Key /\ rows[j].status = "pending" /\ KindOf[j] # "publish" /\ j \in Trigger
         /\ PullOf[j] = PullOf[k] /\ rows[j].id <= before /\ ShaOf[j] \in {NoSha, sha}
BY DEF Q!Answered

\* A worker that is on a row after its step was on it before, and its row is
\* as it was.
LEMMA StaysOnRow ==
  ASSUME Shape, NEW o \in Owner, Step(o), work'[o].pc \in Active
  PROVE  /\ OnRow(o) /\ claims' = claims /\ Key_(o) \in Key
         /\ rows'[Key_(o)] = rows[Key_(o)]
         /\ ~CloseRow(o) /\ ~AbandonRefused(o) /\ ~Fold(o)
<1>0. /\ work[o] \in Work /\ work \in [Owner -> Work] /\ Fits(claims[o], work[o])
      /\ \A pc : Go(o, pc) => work'[o].pc = pc
  BY Going DEF Shape, WorkOK
<1>2. ~CloseRow(o) /\ ~AbandonRefused(o)
  BY Leaving DEF Active, CloseRow, AbandonRefused
<1>3. ~Announce(o) /\ ~Fold(o)
  BY <1>0 DEF Active, Announce, Fold
<1>4. ~Rest(o)
  BY <1>0 DEF Active, Rest, Idle
<1>5. OnRow(o) /\ claims' = claims
  BY <1>0, <1>2, <1>3, <1>4
     DEF OnRow, Active, Step, Start, Facts, Checkout, Refuse, Reviewed, EngineFailed,
         UsageLimited, Settle, Item, StillHolds, ReadHead, Post, Stamp, Failed,
         EnqueuePublication, Q!Enqueue, At, queueVars, Phase, BeforeSettle
<1>6. Key_(o) \in Key
  BY <1>5, Busy DEF OnRow, Active, At
<1>7. EnqueuePublication(o) => Key_(o) # PubOf[Key_(o)]
  BY <1>0 DEF EnqueuePublication, At, Fits, OnTrigger, Key_
<1> QED
  BY <1>2, <1>3, <1>5, <1>6, <1>7, RowMoves

\* A live row is one no claim takes and no sweep gives up.
LEMMA LiveRows ==
  ASSUME RowsOK, NEW k \in Key
  PROVE  /\ Q!Live(rows, k) <=> Q!Live(Q!Swept, k)
         /\ Q!Live(rows, k) => k \notin Q!Claimable /\ Q!Swept[k] = rows[k]
         /\ \A j \in Q!Claimable : Q!Live(rows, k) => PullOf[k] # PullOf[j]
<1>1. rows[k] \in Q!Row
  BY DEF RowsOK
<1>2. Q!Live(rows, k) => Q!Swept[k] = rows[k]
  BY <1>1 DEF Q!Live, Q!Swept, Q!Exhausted, Q!Offered, Q!Lapsed, Q!Row
<1>3. Q!Live(rows, k) <=> Q!Live(Q!Swept, k)
  BY <1>2, SweptRows DEF Q!Live
<1> QED
  BY <1>2, <1>3 DEF Q!Claimable

\* The clock waits for the workers on a row, and what is left of every other
\* lease keeps to its own row: so whoever is on a row holds it, and nobody
\* else is on any row of the pull request.
LEMMA HoldingStep ==
  ASSUME ~LiveLapse, Shape, Holding, Next
  PROVE  Holding'
<1>0. /\ RowsOK /\ work \in [Owner -> Work]
      /\ \A o \in Owner : OnRow(o) => Key_(o) \in Key /\ claims[o] # Q!NoClaim
      /\ \A o \in Owner : OnRow(o) => Q!Live(rows, Key_(o)) /\ Q!Owns(Key_(o), o)
      /\ \A j, k \in Key :
           Q!Live(rows, j) /\ Q!Live(rows, k) /\ PullOf[j] = PullOf[k] => j = k
  BY Busy DEF Shape, QueueOK, WorkOK, Holding, Q!Holds, Q!OneLiveLeasePerPull, OnRow,
              Active, At
<1>1. ASSUME UNCHANGED <<claims, work>>,
             \A k \in Key : Q!Live(rows, k)' => Q!Live(rows, k),
             \A k \in Key : Q!Live(rows, k) => rows'[k] = rows[k]
      PROVE  Holding'
  BY <1>0, <1>1 DEF Holding, OnRow, Key_, Q!Holds, Q!Owns, Q!Live, Q!OneLiveLeasePerPull
<1>2. ASSUME NEW t \in Trigger, Enqueue(t) PROVE Holding'
  BY <1>0, <1>1, <1>2, InsertedRows
     DEF Enqueue, Q!Enqueue, Q!Known, Q!Live, Shape, QueueOK
<1>3. ASSUME NEW p \in Pull, NEW sha \in Sha, Push(p, sha) PROVE Holding'
  BY <1>1, <1>3 DEF Push, queueVars, Q!Live
<1>4. CASE Tick
  <2>1. /\ UNCHANGED <<claims, work>> /\ rows' = Q!Aged
        /\ \A o \in Owner :
             claims[o] # Q!NoClaim /\ Q!Holds(Key_(o), o) => rows[Key_(o)].lease > 1
    BY <1>4 DEF Tick, Q!Tick
  <2>2. ASSUME NEW k \in Key
        PROVE  /\ rows'[k].status = rows[k].status /\ rows'[k].owner = rows[k].owner
               /\ rows'[k].lease = IF rows[k].lease = 0 THEN 0 ELSE rows[k].lease - 1
               /\ rows[k].lease \in Nat
    <3>1. rows[k] \in Q!Row
      BY <1>0 DEF RowsOK
    <3>2. rows'[k] = [rows[k] EXCEPT !.lease = IF @ = 0 THEN 0 ELSE @ - 1]
      BY <2>1 DEF Q!Aged
    <3> QED
      BY <3>1, <3>2 DEF Q!Row
  <2>3. \A k \in Key : Q!Live(rows, k)' => Q!Live(rows, k)
    BY <2>2 DEF Q!Live
  <2>4. ASSUME NEW o \in Owner, OnRow(o)' PROVE Q!Holds(Key_(o), o)'
    <3>1. OnRow(o) /\ Key_(o)' = Key_(o)
      BY <2>1, <2>4 DEF OnRow, Key_
    <3>2. rows[Key_(o)].lease > 1 /\ Q!Live(rows, Key_(o)) /\ Q!Owns(Key_(o), o)
      BY <1>0, <2>1, <3>1 DEF Q!Holds
    <3>3. rows'[Key_(o)].lease > 0
      BY <1>0, <2>2, <3>1, <3>2
    <3> QED
      BY <1>0, <2>2, <3>1, <3>2, <3>3 DEF Q!Holds, Q!Live, Q!Owns
  <2> QED
    BY <1>0, <2>3, <2>4 DEF Holding, Q!OneLiveLeasePerPull
<1>5. ASSUME NEW o \in Owner, NEW k \in Q!Claimable, NEW refused, Claim(o, k, refused)
      PROVE  Holding'
  <2>0. k \in Key /\ rows' = Q!Leased(k, o)
    BY <1>5 DEF Q!Claimable, Claim, Q!ClaimRow
  <2>1. /\ rows'[k].owner = o /\ rows'[k].status = "claimed" /\ rows'[k].lease = Lease
        /\ \A j \in Key : j # k => rows'[j] = Q!Swept[j]
    <3>1. DOMAIN Q!Swept = Key
      BY DEF Q!Swept
    <3> QED
      BY <1>0, <2>0, <3>1, LeasedRows DEF Q!Leased
  <2>2. /\ Key_(o)' = k
        /\ \A p \in Owner \ {o} : OnRow(p)' = OnRow(p) /\ Key_(p)' = Key_(p)
    BY <1>5 DEF Claim, Q!ClaimRow, Shape, QueueOK, WorkOK, Key_, OnRow
  <2>3. \A j \in Key \ {k} :
          Q!Live(rows, j)' => Q!Live(rows, j) /\ PullOf[j] # PullOf[k]
    BY <1>0, <2>0, <2>1, LiveRows DEF Q!Live
  <2>4. ASSUME NEW p \in Owner, OnRow(p)' PROVE Q!Holds(Key_(p), p)'
    <3>1. CASE p = o
      BY <2>1, <2>2, <3>1 DEF Q!Holds, Q!Live, Q!Owns
    <3>2. CASE p # o
      <4>1. OnRow(p) /\ Key_(p)' = Key_(p) /\ Q!Live(rows, Key_(p)) /\ Q!Owns(Key_(p), p)
            /\ Key_(p) \in Key
        BY <1>0, <2>2, <2>4, <3>2
      <4>2. Key_(p) # k /\ rows'[Key_(p)] = rows[Key_(p)]
        BY <1>0, <2>1, <4>1, LiveRows
      <4> QED
        BY <4>1, <4>2 DEF Q!Holds, Q!Live, Q!Owns
    <3> QED
      BY <3>1, <3>2
  <2> QED
    BY <1>0, <2>0, <2>3, <2>4 DEF Holding, Q!OneLiveLeasePerPull
<1>6. ASSUME NEW o \in Owner, ClaimNothing(o) PROVE Holding'
  BY <1>0, <1>1, <1>6, LiveRows DEF ClaimNothing, Q!ClaimNothing, Q!Live
<1>7. ASSUME NEW o \in Owner, Step(o) PROVE Holding'
  <2>1. \A k \in Key : Q!Live(rows, k)' => Q!Live(rows, k)
    BY <1>7, RowMoves DEF Q!Live, Shape, WorkOK, Work, Verb
  <2>2. ASSUME NEW p \in Owner, OnRow(p)' PROVE Q!Holds(Key_(p), p)'
    <3>1. CASE p = o
      <4>1. OnRow(o) /\ claims' = claims /\ rows'[Key_(o)] = rows[Key_(o)]
        BY <1>7, <2>2, <3>1, StaysOnRow DEF OnRow
      <4> QED
        BY <1>0, <3>1, <4>1 DEF Q!Holds, Q!Live, Q!Owns, Key_
    <3>2. CASE p # o
      <4>1. work'[p] = work[p] /\ claims'[p] = claims[p]
        BY <1>7, <3>2, OthersStand
      <4>2. OnRow(p) /\ Key_(p)' = Key_(p) /\ Q!Live(rows, Key_(p)) /\ Q!Owns(Key_(p), p)
            /\ Key_(p) \in Key
        BY <1>0, <2>2, <4>1 DEF OnRow, Key_
      <4>3. rows'[Key_(p)] = rows[Key_(p)]
        <5>1. ~Q!Owns(Key_(p), o) /\ rows[Key_(p)].status = "claimed"
          BY <3>2, <4>2 DEF Q!Owns, Q!Live
        <5> QED
          BY <1>7, <4>2, <5>1, RowMoves, AnsweredRows
      <4> QED
        BY <4>2, <4>3 DEF Q!Holds, Q!Live, Q!Owns
    <3> QED
      BY <3>1, <3>2
  <2> QED
    BY <1>0, <2>1, <2>2 DEF Holding, Q!OneLiveLeasePerPull
<1>8. ASSUME NEW o \in Owner, Crash(o) PROVE Holding'
  <2>1. /\ rows' = rows /\ work'[o].pc = "idle"
        /\ \A p \in Owner \ {o} : work'[p] = work[p] /\ claims'[p] = claims[p]
    BY <1>0, <1>8, OthersStand DEF Crash, Q!Forget, Idle
  <2>2. ~OnRow(o)'
    BY <2>1 DEF OnRow, Active
  <2> QED
    BY <1>0, <2>1, <2>2 DEF Holding, OnRow, Key_, Q!Holds, Q!Live, Q!Owns, Q!OneLiveLeasePerPull
<1> QED
  BY <1>2, <1>3, <1>4, <1>5, <1>6, <1>7, <1>8 DEF Next

\* While no lease lapses under a live worker, a worker on a row holds it.
LEMMA Held ==
  ASSUME ~LiveLapse
  PROVE  Spec => []Holding
<1>1. Init => Holding
  BY DEF Init, Q!Init, Idle, Q!NoRow, Holding, OnRow, Active, Q!OneLiveLeasePerPull, Q!Live
<1>2. ASSUME Holding, UNCHANGED vars PROVE Holding'
  BY <1>2 DEF vars, Holding, OnRow, Key_, Q!Holds, Q!Live, Q!Owns, Q!OneLiveLeasePerPull
<1>3. Shape /\ Holding /\ [Next]_vars => Holding'
  BY <1>2, HoldingStep
<1> QED
  BY <1>1, <1>3, Shaped, PTL DEF Spec

\* What a step may make of a row that is not absent, when nobody on it acts.
LEMMA HeldRows ==
  ASSUME Shape, Holding, Next, NEW p \in Owner, OnRow(p),
         work'[p] = work[p], claims'[p] = claims[p]
  PROVE  /\ rows'[Key_(p)].status = rows[Key_(p)].status
         /\ rows'[Key_(p)].attempts = rows[Key_(p)].attempts
<1>0. /\ RowsOK /\ Key_(p) \in Key
      /\ Q!Live(rows, Key_(p)) /\ Q!Owns(Key_(p), p) /\ rows[Key_(p)].status = "claimed"
  BY Busy DEF Shape, QueueOK, Holding, Q!Holds, Q!Live, OnRow, Active, At
<1>1. ASSUME NEW t \in Trigger, Enqueue(t) PROVE rows'[Key_(p)] = rows[Key_(p)]
  BY <1>0, <1>1, InsertedRows DEF Enqueue, Q!Enqueue, Q!Known, Shape, QueueOK
<1>2. ASSUME NEW q \in Pull, NEW sha \in Sha, Push(q, sha)
      PROVE  rows'[Key_(p)] = rows[Key_(p)]
  BY <1>2 DEF Push, queueVars
<1>3. CASE Tick
  BY <1>0, <1>3, AgedRows DEF Tick, Q!Tick
<1>4. ASSUME NEW o \in Owner, NEW k \in Q!Claimable, NEW refused, Claim(o, k, refused)
      PROVE  rows'[Key_(p)] = rows[Key_(p)]
  BY <1>0, <1>4, LeasedRows, LiveRows DEF Claim, Q!ClaimRow
<1>5. ASSUME NEW o \in Owner, ClaimNothing(o) PROVE rows'[Key_(p)] = rows[Key_(p)]
  BY <1>0, <1>5, LiveRows DEF ClaimNothing, Q!ClaimNothing
<1>6. ASSUME NEW o \in Owner, Step(o) PROVE rows'[Key_(p)] = rows[Key_(p)]
  <2>1. CASE o = p
    BY <1>6, <2>1, StaysOnRow DEF OnRow
  <2>2. CASE o # p
    <3>1. ~Q!Owns(Key_(p), o)
      BY <1>0, <2>2 DEF Q!Owns
    <3> QED
      BY <1>0, <1>6, <3>1, RowMoves, AnsweredRows
  <2> QED
    BY <2>1, <2>2
<1>7. ASSUME NEW o \in Owner, Crash(o) PROVE rows'[Key_(p)] = rows[Key_(p)]
  BY <1>7 DEF Crash, Q!Forget
<1> QED
  BY <1>1, <1>2, <1>3, <1>4, <1>5, <1>6, <1>7 DEF Next

\* No two workers are on rows of one pull request.
LEMMA Alone ==
  ASSUME Shape, Holding, NEW o \in Owner, NEW p \in Owner, OnRow(o), OnRow(p),
         PullOf[Key_(o)] = PullOf[Key_(p)]
  PROVE  o = p
<1>1. /\ Key_(o) \in Key /\ Key_(p) \in Key
      /\ Q!Holds(Key_(o), o) /\ Q!Holds(Key_(p), p)
  BY Busy DEF Holding, OnRow, Active, At
<1> QED
  BY <1>1 DEF Holding, Q!OneLiveLeasePerPull, Q!Holds, Q!Owns

\* No claim, sweep, verb or fold brings a row back to life that is closed or
\* out of attempts.
LEMMA DeadStays ==
  ASSUME Shape, Next, NEW k \in Key, Dead(k)
  PROVE  Dead(k)'
<1>0. /\ RowsOK /\ rows[k] \in Q!Row /\ rows[k].status # "absent"
      /\ \A o \in Owner : ~Q!Owns(k, o)
  BY DEF Shape, QueueOK, RowsOK, Q!Owns, Dead
<1>1. ASSUME rows'[k].status = rows[k].status, rows'[k].attempts = rows[k].attempts
      PROVE  Dead(k)'
  BY <1>1 DEF Dead
<1>2. ASSUME rows'[k].status \in {"done", "abandoned"} PROVE Dead(k)'
  BY <1>2 DEF Dead
<1>3. ASSUME NEW t \in Trigger, Enqueue(t) PROVE Dead(k)'
  BY <1>0, <1>1, <1>3, InsertedRows DEF Enqueue, Q!Enqueue, Q!Known, Shape, QueueOK
<1>4. ASSUME NEW q \in Pull, NEW sha \in Sha, Push(q, sha) PROVE Dead(k)'
  BY <1>1, <1>4 DEF Push, queueVars
<1>5. CASE Tick
  BY <1>0, <1>1, <1>5, AgedRows DEF Tick, Q!Tick
<1>6. rows'[k] = Q!Swept[k] => Dead(k)'
  BY <1>0, <1>1, <1>2, SweptRows
<1>7. ASSUME NEW o \in Owner, NEW j \in Q!Claimable, NEW refused, Claim(o, j, refused)
      PROVE  Dead(k)'
  <2>1. j # k
    <3>1. j \in Key /\ Q!Offered(Q!Swept, j) /\ Q!Swept[j].attempts < MaxAttempts
      BY DEF Q!Claimable
    <3>2. ASSUME j = k PROVE FALSE
      <4>1. rows[k].status = "pending" /\ rows[k].attempts = MaxAttempts
            /\ Q!Swept[k].attempts = MaxAttempts
        BY <1>0, <3>1, <3>2, SweptRows DEF Dead, Q!Offered, Q!Lapsed
      <4> QED
        BY <3>1, <3>2, <4>1
    <3> QED
      BY <3>2
  <2> QED
    BY <1>0, <1>6, <1>7, <2>1, LeasedRows DEF Claim, Q!ClaimRow
<1>8. ASSUME NEW o \in Owner, ClaimNothing(o) PROVE Dead(k)'
  BY <1>6, <1>8 DEF ClaimNothing, Q!ClaimNothing
<1>9. ASSUME NEW o \in Owner, Step(o) PROVE Dead(k)'
  BY <1>0, <1>1, <1>2, <1>9, RowMoves
<1>10. ASSUME NEW o \in Owner, Crash(o) PROVE Dead(k)'
  BY <1>1, <1>10 DEF Crash, Q!Forget
<1> QED
  BY <1>3, <1>4, <1>5, <1>7, <1>8, <1>9, <1>10 DEF Next

\* A request that is sent again was not carried out, so a write is carried out
\* once at most, and exactly once when its caller hears of it.
LEMMA WritesOnce ==
  \A w \in C!Writes : w.times \in {0, 1} /\ w.heard \in BOOLEAN /\ (w.heard => w.times = 1)
<1>1. SUFFICES ASSUME NEW s \in C!Requests
               PROVE  /\ C!Written(s).times \in {0, 1} /\ C!Written(s).heard \in BOOLEAN
                      /\ C!Written(s).heard => C!Written(s).times = 1
  BY DEF C!Writes
<1>2. PICK n \in 1 .. (C!MaxRetries + 1) : s \in [1 .. n -> C!Response]
  <2>1. s \in UNION {[1 .. m -> C!Response] : m \in 1 .. (C!MaxRetries + 1)}
    BY DEF C!Requests
  <2> QED
    BY <2>1
<1>3. n \in Nat /\ n > 0 /\ DOMAIN s = 1 .. n /\ s \in Seq(C!Response) /\ Len(s) = n
  BY <1>2 DEF C!MaxRetries
<1>4. \A i \in 1 .. (n - 1) : s[i] = "cooldown"
  BY <1>1, <1>3 DEF C!Requests, C!Retried
<1> DEFINE done == {i \in DOMAIN s : s[i] \in C!CarriedOut}
<1>5. done = IF s[n] \in C!CarriedOut THEN {n} ELSE {}
  <2>1. ASSUME NEW i \in DOMAIN s, s[i] \in C!CarriedOut PROVE i = n
    <3>1. s[i] # "cooldown"
      BY <2>1 DEF C!CarriedOut
    <3>2. i \notin 1 .. (n - 1) /\ i \in 1 .. n
      BY <1>3, <1>4, <2>1, <3>1
    <3> QED
      BY <1>3, <3>2
  <2>2. n \in DOMAIN s
    BY <1>3
  <2> QED
    BY <2>1, <2>2
<1>6. C!Written(s).times = IF s[n] \in C!CarriedOut THEN 1 ELSE 0
  <2>1. \A S : C!Cardinality(S) = Cardinality(S)
    BY DEF C!Cardinality, Cardinality
  <2>2. C!Written(s).times = Cardinality(done)
    BY <2>1 DEF C!Written
  <2>3. Cardinality({}) = 0 /\ Cardinality({n}) = 1
    BY FS_EmptySet, FS_Singleton
  <2> HIDE DEF done
  <2> QED
    BY <1>5, <2>2, <2>3
<1>7. C!Written(s).heard = (s[n] = "made")
  BY <1>3 DEF C!Written
<1> QED
  BY <1>6, <1>7 DEF C!CarriedOut

\* A worker on a row may settle it, until it does.
LEMMA MaySettle ==
  ASSUME Shape, Holding, Entitlements, NEW o \in Owner, At(o, "settle")
  PROVE  Settles(o)
BY DEF Holding, OnRow, Active, Phase, BeforeSettle, At, Q!Holds, Entitlements, Entitled,
       Settles

\* The worker that acts: what it has in hand to tell, step by step.
LEMMA OwnEnding ==
  ASSUME Shape, Holding, Entitlements, Telling, NEW o \in Owner, Step(o)
  PROVE  Ending(o)'
<1>0. /\ work[o] \in Work /\ work \in [Owner -> Work] /\ Fits(claims[o], work[o])
      /\ Ending(o)
      /\ OnRow(o) => /\ Q!Owns(Key_(o), o) /\ Key_(o) \in Key
                     /\ rows[Key_(o)].status = "claimed"
      /\ notices \in [Trigger -> Nat]
  BY Busy DEF Shape, WorkOK, DataOK, Telling, Holding, Q!Holds, Q!Live, OnRow, Active, At
<1>1. OnRow(o) /\ Key_(o) \in Trigger => notices[Key_(o)] = 0
  BY <1>0 DEF Telling, Dead
<1>2. ASSUME work'[o].pc \in Active, work'[o].last => work[o].last,
             work'[o].notice =>
               /\ work'[o].pc \in {"refuse", "abandon", "settle", "verb"}
               /\ ~work'[o].reviewed
               /\ work'[o].pc \in {"settle", "verb"} =>
                    \/ work'[o].finish = "abandon"
                    \/ /\ work'[o].finish = "release"
                       /\ rows[Key_(o)].attempts = MaxAttempts
      PROVE  Ending(o)'
  <2>1. /\ OnRow(o) /\ claims' = claims /\ Key_(o)' = Key_(o)
        /\ rows'[Key_(o)] = rows[Key_(o)]
    BY <1>2, StaysOnRow DEF Key_
  <2>2. work'[o].pc # "announce"
    BY <1>2 DEF Active
  <2> QED
    BY <1>0, <1>2, <2>1, <2>2 DEF Ending, OnRow
<1>3. ASSUME work'[o].pc \notin Active \cup {"announce"}, ~work'[o].notice
      PROVE  Ending(o)'
  BY <1>3 DEF Ending, OnRow
<1>4. ASSUME Leave(o), claims' = claims, OnRow(o), notices' = notices,
             work[o].notice => Dead(Key_(o))'
      PROVE  Ending(o)'
  <2>1. CASE work[o].notice
    <3>1. work'[o].pc = "announce" /\ ~work'[o].notice
      BY <1>4, <2>1, Leaving
    <3>2. Key_(o) \in Trigger /\ Key_(o)' = Key_(o)
      BY <1>0, <1>4, <2>1 DEF Fits, Key_
    <3> QED
      BY <1>1, <1>4, <2>1, <3>1, <3>2 DEF Ending, OnRow, Active
  <2>2. CASE ~work[o].notice
    BY <1>3, <1>4, <2>2, Leaving DEF Active
  <2> QED
    BY <2>1, <2>2
<1>5. ASSUME NEW pc \in Active, Go(o, pc),
             work[o].notice => pc \in {"abandon", "verb"},
             pc = "verb" /\ work[o].notice => work[o].pc = "settle"
      PROVE  Ending(o)'
  BY <1>0, <1>2, <1>5, Going DEF Ending
<1>6. ASSUME NEW kind, Fails(o, kind), claims' = claims,
             E!Announced(kind) => E!Finish(kind) = "release" /\ OnRow(o)
      PROVE  Ending(o)'
  <2>1. /\ work'[o].pc = "settle" /\ work'[o].finish = E!Finish(kind)
        /\ ~work'[o].last /\ ~work'[o].reviewed
        /\ work'[o].notice = (work[o].last /\ E!Announced(kind))
    BY <1>6, Quitting DEF Fails
  <2> QED
    BY <1>0, <1>2, <1>6, <2>1 DEF Ending, Active, Phase, BeforeSettle
<1>7. ASSUME NEW finish, Close(o, finish), ~work[o].notice PROVE Ending(o)'
  BY <1>2, <1>7, Closing DEF Active, Phase
<1> USE DEF At
<1>8. CASE Start(o)
  BY <1>0, <1>3, <1>5, <1>8, Going DEF Start, Ending, Active, Phase, BeforeSettle
<1>9. CASE Facts(o)
  <2>1. CASE work' = [work EXCEPT ![o] = [@ EXCEPT !.pc = "checkout",
                                              !.head = head[PullOf[Key_(o)]]]]
    <3>1. /\ work'[o].pc = "checkout" /\ work'[o].last = work[o].last
          /\ work'[o].notice = work[o].notice
      BY <1>0, <2>1 DEF Work
    <3> QED
      BY <1>0, <1>2, <1>9, <3>1 DEF Facts, Ending, Active, Phase, BeforeSettle
  <2>2. CASE work' = [work EXCEPT ![o] = [Idle EXCEPT !.pc = "refuse"]]
    <3>1. work'[o].pc = "refuse" /\ ~work'[o].last /\ ~work'[o].notice
      BY <1>0, <2>2 DEF Idle
    <3> QED
      BY <1>2, <3>1 DEF Active, Phase, BeforeSettle
  <2> QED
    BY <1>6, <1>9, <2>1, <2>2 DEF Facts, E!Announced, queueVars
<1>10. CASE Checkout(o)
  <2>1. CASE work' = [work EXCEPT ![o] = [@ EXCEPT !.pc = "engine",
                                              !.read = head[PullOf[Key_(o)]]]]
    <3>1. /\ work'[o].pc = "engine" /\ work'[o].last = work[o].last
          /\ work'[o].notice = work[o].notice
      BY <1>0, <2>1 DEF Work
    <3> QED
      BY <1>0, <1>2, <1>10, <3>1 DEF Checkout, Ending, Active, Phase, BeforeSettle
  <2>2. CASE work' = [work EXCEPT ![o] = [Idle EXCEPT !.pc = "refuse", !.notice = TRUE]]
    <3>1. work'[o].pc = "refuse" /\ ~work'[o].last /\ ~work'[o].reviewed
      BY <1>0, <2>2 DEF Idle
    <3> QED
      BY <1>2, <3>1 DEF Active, Phase, BeforeSettle
  <2>3. CASE End(o, E!Finish("too_large"), TRUE)
    <3>1. /\ work'[o].pc = "settle" /\ work'[o].finish = "abandon" /\ ~work'[o].last
          /\ ~work'[o].reviewed
      BY <2>3, Quitting DEF E!Finish
    <3> QED
      BY <1>2, <3>1 DEF Active, Phase, BeforeSettle
  <2> QED
    BY <1>6, <1>10, <2>1, <2>2, <2>3 DEF Checkout, E!Announced, queueVars
<1>11. CASE Refuse(o)
  BY <1>5, <1>11 DEF Refuse, Active, Phase
<1>12. CASE AbandonRefused(o)
  <2>1. OnRow(o) /\ Leave(o) /\ notices' = notices /\ claims' = claims
    BY <1>12 DEF AbandonRefused, OnRow, Active, Phase, world, Q!Abandon, Q!Finish
  <2>2. rows'[Key_(o)].status = "abandoned"
    <3>1. rows' = Q!Finished(Key_(o), o, "abandoned")
      BY <1>12 DEF AbandonRefused, Q!Abandon, Q!Finish, Key_
    <3> QED
      BY <1>0, <2>1, <3>1, FinishedRows DEF Shape, QueueOK
  <2> QED
    BY <1>4, <2>1, <2>2 DEF Dead, Key_
<1>13. CASE Reviewed(o)
  <2>1. work'[o].pc = "settle" /\ ~work'[o].last /\ ~work'[o].notice
    BY <1>0, <1>13 DEF Reviewed, Idle
  <2> QED
    BY <1>2, <2>1 DEF Active, Phase, BeforeSettle
<1>14. CASE EngineFailed(o) \/ UsageLimited(o)
  <2>1. E!Announced("usage_limited") = FALSE
        /\ \A kind : E!Announced(kind) => E!Finish(kind) = "release"
    BY DEF E!Announced, E!Finish
  <2>2. OnRow(o) /\ claims' = claims
    BY <1>14 DEF EngineFailed, UsageLimited, OnRow, Active, Phase, BeforeSettle, queueVars
  <2> QED
    BY <1>6, <1>14, <2>1, <2>2 DEF EngineFailed, UsageLimited
<1>15. CASE Settle(o)
  <2>1. Settles(o)
    BY <1>15, MaySettle DEF Settle
  <2> QED
    BY <1>0, <1>5, <1>15, <2>1 DEF Settle, Ending, Active, Phase
<1>16. CASE Item(o)
  <2>1. CASE work' = [work EXCEPT ![o] = [@ EXCEPT !.pc = "holds",
                                              !.head = runs[Subject(o)].head]]
    <3>1. /\ work'[o].pc = "holds" /\ work'[o].last = work[o].last
          /\ work'[o].notice = work[o].notice
      BY <1>0, <2>1 DEF Work
    <3> QED
      BY <1>0, <1>2, <1>16, <3>1 DEF Item, Ending, Active, Phase
  <2> QED
    BY <1>0, <1>7, <1>16, <2>1 DEF Item, Ending
<1>17. CASE StillHolds(o) \/ EnqueuePublication(o)
  BY <1>0, <1>3, <1>5, <1>17, Going
     DEF StillHolds, EnqueuePublication, Ending, Active, Phase
<1>18. CASE ReadHead(o) \/ Stamp(o)
  BY <1>0, <1>5, <1>7, <1>18 DEF ReadHead, Stamp, Ending, Active, Phase
<1>19. CASE Post(o)
  <2>1. \E pc \in {"stamp", "failed"} : Go(o, pc)
    BY <1>19 DEF Post
  <2> QED
    BY <1>0, <1>5, <1>19, <2>1 DEF Post, Ending, Active, Phase
<1>20. CASE Failed(o)
  <2>1. /\ work'[o].pc \in {"verb", "enqueue"} /\ work'[o].last = work[o].last
        /\ work'[o].notice = work[o].notice
    BY <1>0, <1>20 DEF Failed, Work
  <2> QED
    BY <1>0, <1>2, <1>20, <2>1 DEF Failed, Ending, Active, Phase
<1>21. CASE CloseRow(o)
  <2>1. OnRow(o) /\ Leave(o) /\ notices' = notices /\ claims' = claims
        /\ work[o].finish \in Verb
    BY <1>0, <1>21 DEF CloseRow, OnRow, Active, Phase, world, Q!Complete, Q!Release,
                       Q!Abandon, Q!Finish, Q!ReleaseUnattempted, Work, Verb
  <2>2. ASSUME work[o].notice PROVE Dead(Key_(o))'
    <3>1. \/ work[o].finish = "abandon"
          \/ work[o].finish = "release" /\ rows[Key_(o)].attempts = MaxAttempts
      BY <1>0, <1>21, <2>2 DEF Ending, CloseRow
    <3>2. PICK status \in {"pending", "abandoned"} :
            /\ rows' = Q!Finished(Key_(o), o, status)
            /\ work[o].finish = "abandon" => status = "abandoned"
      BY <1>21, <3>1 DEF CloseRow, Q!Release, Q!Abandon, Q!Finish, Key_
    <3>3. /\ rows'[Key_(o)].status = status
          /\ rows'[Key_(o)].attempts = rows[Key_(o)].attempts
      BY <1>0, <2>1, <3>2, FinishedRows DEF Shape, QueueOK
    <3> QED
      BY <2>1, <3>1, <3>2, <3>3 DEF Dead, Key_
  <2> QED
    BY <1>4, <2>1, <2>2
<1>22. CASE Announce(o) \/ Fold(o)
  BY <1>0, <1>3, <1>22, Going DEF Announce, Fold, Ending, Active
<1>23. CASE Rest(o)
  BY <1>0, <1>3, <1>23 DEF Rest, Idle, Active
<1> QED
  BY <1>8, <1>9, <1>10, <1>11, <1>12, <1>13, <1>14, <1>15, <1>16, <1>17, <1>18, <1>19,
     <1>20, <1>21, <1>22, <1>23 DEF Step

\* Nobody else's prospects change.
LEMMA OthersEnding ==
  ASSUME Shape, Holding, Telling, Next, NEW p \in Owner,
         work'[p] = work[p], claims'[p] = claims[p],
         At(p, "announce") => notices'[Key_(p)] = notices[Key_(p)]
  PROVE  Ending(p)'
<1>0. Ending(p) /\ Key_(p)' = Key_(p) /\ Fits(claims[p], work[p])
  BY DEF Telling, Key_, Shape, WorkOK
<1>1. CASE OnRow(p)
  <2>1. rows'[Key_(p)].attempts = rows[Key_(p)].attempts /\ work[p].pc # "announce"
    BY <1>1, HeldRows DEF OnRow, Active
  <2> QED
    BY <1>0, <2>1 DEF Ending, OnRow
<1>2. CASE At(p, "announce")
  <2>1. Key_(p) \in Key /\ Dead(Key_(p))
    BY <1>0, <1>2 DEF Ending, Fits, OnTrigger, At, Key_
  <2>2. Dead(Key_(p))'
    BY <1>0, <2>1, DeadStays DEF Dead
  <2> QED
    BY <1>0, <1>2, <2>2 DEF Ending, OnRow, At, Active
<1>3. CASE ~OnRow(p) /\ ~At(p, "announce")
  <2>1. ~work[p].notice
    BY <1>0, <1>3 DEF Ending, OnRow, Active, Phase, BeforeSettle
  <2> QED
    BY <1>0, <1>3, <2>1 DEF Ending, OnRow, At
<1> QED
  BY <1>1, <1>2, <1>3

\* A worker comes to the announcement or the fold from the end of its row.
LEMMA EndsRow ==
  ASSUME Shape, NEW o \in Owner, Step(o), work'[o].pc \in {"announce", "fold"}
  PROVE  /\ AbandonRefused(o) \/ CloseRow(o) \/ Settle(o)
         /\ Leave(o) /\ OnRow(o) /\ claims' = claims
<1>0. work \in [Owner -> Work] /\ work[o] \in Work
  BY DEF Shape, WorkOK
<1>1. \A pc : Go(o, pc) => pc \in {"announce", "fold"}
  BY Going
<1>2. \A finish : ~Close(o, finish)
  BY Closing
<1>3. \A finish, notice : ~End(o, finish, notice)
  BY Quitting
<1>4. work'[o].pc \notin {"settle", "idle", "verb", "enqueue"}
  OBVIOUS
<1>5. /\ ~Start(o) /\ ~Refuse(o) /\ ~StillHolds(o) /\ ~Stamp(o) /\ ~ReadHead(o)
      /\ ~EnqueuePublication(o) /\ ~Fold(o) /\ ~EngineFailed(o) /\ ~UsageLimited(o)
      /\ ~Post(o) /\ ~Announce(o)
  BY <1>1, <1>2, <1>3
     DEF Start, Refuse, StillHolds, Stamp, ReadHead, EnqueuePublication, Fold,
         EngineFailed, UsageLimited, Post, Fails, Announce
<1>6. ~Reviewed(o)
  <2>1. Reviewed(o) => work'[o].pc = "settle"
    BY <1>0 DEF Reviewed, Idle
  <2> QED
    BY <1>4, <2>1
<1>7. ~Rest(o)
  <2>1. Rest(o) => work'[o].pc = "idle"
    BY <1>0 DEF Rest, Idle
  <2> QED
    BY <1>4, <2>1
<1>8. ~Failed(o)
  <2>1. Failed(o) => work'[o].pc \in {"verb", "enqueue"}
    BY <1>0 DEF Failed, Work
  <2> QED
    BY <1>4, <2>1
<1>9. ~Facts(o)
  <2>1. ASSUME work' = [work EXCEPT ![o] = [@ EXCEPT !.pc = "checkout",
                                                !.head = head[PullOf[Key_(o)]]]]
        PROVE  FALSE
    BY <1>0, <2>1 DEF Work
  <2>2. ASSUME work' = [work EXCEPT ![o] = [Idle EXCEPT !.pc = "refuse"]] PROVE FALSE
    BY <1>0, <2>2 DEF Idle
  <2> QED
    BY <1>3, <2>1, <2>2 DEF Facts, Fails
<1>10. ~Checkout(o)
  <2>1. ASSUME work' = [work EXCEPT ![o] = [@ EXCEPT !.pc = "engine",
                                                !.read = head[PullOf[Key_(o)]]]]
        PROVE  FALSE
    BY <1>0, <2>1 DEF Work
  <2>2. ASSUME work' = [work EXCEPT ![o] = [Idle EXCEPT !.pc = "refuse", !.notice = TRUE]]
        PROVE  FALSE
    BY <1>0, <2>2 DEF Idle
  <2> QED
    BY <1>3, <2>1, <2>2 DEF Checkout, Fails
<1>11. ~Item(o)
  <2>1. ASSUME work' = [work EXCEPT ![o] = [@ EXCEPT !.pc = "holds",
                                                !.head = runs[Subject(o)].head]]
        PROVE  FALSE
    BY <1>0, <2>1 DEF Work
  <2> QED
    BY <1>2, <2>1 DEF Item
<1>12. AbandonRefused(o) \/ CloseRow(o) \/ Settle(o)
  BY <1>5, <1>6, <1>7, <1>8, <1>9, <1>10, <1>11 DEF Step
<1>13. Leave(o)
  <2>1. ~Go(o, "publish") /\ ~Go(o, "verb")
    BY <1>1
  <2> QED
    BY <1>12, <2>1 DEF AbandonRefused, CloseRow, Settle
<1>14. OnRow(o) /\ claims' = claims
  BY <1>0, <1>12
     DEF AbandonRefused, CloseRow, Settle, OnRow, At, Active, Phase, BeforeSettle, queueVars,
         Q!Abandon, Q!Complete, Q!Release, Q!Finish, Q!ReleaseUnattempted, Work, Verb
<1> QED
  BY <1>12, <1>13, <1>14

\* A pull request is told of the end of a row at most once: by the worker that
\* brought it about, and no claim follows it.
LEMMA TellingStep ==
  ASSUME Shape, Holding, Entitlements, Telling, Next
  PROVE  Telling'
<1>0. /\ work \in [Owner -> Work] /\ notices \in [Trigger -> Nat]
      /\ \A o \in Owner : Ending(o) /\ Fits(claims[o], work[o])
      /\ \A t \in Trigger : notices[t] <= 1 /\ (notices[t] = 1 => Dead(t))
      /\ \A t \in Trigger : Dead(t) => Dead(t)'
  BY DeadStays DEF Shape, WorkOK, DataOK, Telling
<1>1. ASSUME UNCHANGED <<claims, work, notices>> PROVE Telling'
  BY <1>0, <1>1, OthersEnding DEF Telling, Key_
<1>2. ASSUME NEW o \in Owner, notices' = notices, Ending(o)', ~At(o, "announce")',
             \A p \in Owner \ {o} : work'[p] = work[p] /\ claims'[p] = claims[p]
      PROVE  Telling'
  BY <1>0, <1>2, OthersEnding DEF Telling, Key_, At
<1>3. ASSUME NEW o \in Owner, NEW k \in Q!Claimable, NEW refused, Claim(o, k, refused)
      PROVE  Telling'
  <2>0. k \in Key
    BY DEF Q!Claimable
  <2>1. /\ claims'[o].key = k
        /\ \A p \in Owner \ {o} : work'[p] = work[p] /\ claims'[p] = claims[p]
    BY <1>3 DEF Claim, Q!ClaimRow, Shape, QueueOK, WorkOK
  <2>2. /\ work'[o].pc \in {"start", "item"} /\ ~work'[o].notice
        /\ work'[o].last => rows'[k].attempts = MaxAttempts
    <3>1. ~work[o].notice
      BY <1>0, <1>3 DEF Claim, Q!ClaimRow, Fits, Q!NoClaim
    <3> QED
      BY <1>0, <1>3, <3>1 DEF Claim, Work
  <2>3. Ending(o)' /\ ~At(o, "announce")'
    BY <2>1, <2>2 DEF Ending, At, Key_
  <2> QED
    BY <1>2, <1>3, <2>1, <2>3 DEF Claim, world
<1>4. ASSUME NEW o \in Owner, Crash(o) PROVE Telling'
  <2>1. /\ work'[o] = Idle /\ notices' = notices
        /\ \A p \in Owner \ {o} : work'[p] = work[p] /\ claims'[p] = claims[p]
    BY <1>0, <1>4, OthersStand DEF Crash
  <2>2. Ending(o)' /\ ~At(o, "announce")'
    BY <2>1 DEF Idle, Ending, At, OnRow, Active
  <2> QED
    BY <1>2, <2>1, <2>2
<1>5. ASSUME NEW o \in Owner, Step(o) PROVE Telling'
  <2>1. \A p \in Owner \ {o} : work'[p] = work[p] /\ claims'[p] = claims[p]
    BY <1>5, OthersStand
  <2>2. CASE Announce(o)
    <3>1. /\ Key_(o) \in Trigger /\ Dead(Key_(o)) /\ notices[Key_(o)] = 0
          /\ work[o].pc = "announce" /\ work'[o].pc = "done"
      BY <1>0, <2>2, Going DEF Announce, At, Ending, Fits, OnTrigger, Key_
    <3>2. /\ \A t \in Trigger \ {Key_(o)} : notices'[t] = notices[t]
          /\ notices'[Key_(o)] \in {0, 1}
      <4>1. CASE notices' = notices
        BY <3>1, <4>1
      <4>2. CASE \E w \in C!Writes : notices' = [notices EXCEPT ![Key_(o)] = @ + w.times]
        BY <1>0, <3>1, <4>2, WritesOnce
      <4> QED
        BY <2>2, <4>1, <4>2 DEF Announce, Notified
    <3>3. ASSUME NEW p \in Owner \ {o} PROVE Ending(p)'
      <4>1. At(p, "announce") => Key_(p) \in Trigger \ {Key_(o)}
        BY <1>0, <3>1 DEF Telling, At, Fits, OnTrigger, Key_
      <4> QED
        BY <2>1, <3>2, <4>1, OthersEnding
    <3>4. Ending(o)'
      BY <1>5, OwnEnding
    <3>5. \A t \in Trigger : notices'[t] <= 1 /\ (notices'[t] = 1 => Dead(t)')
      BY <1>0, <3>1, <3>2
    <3>6. \A p \in Owner \ {o} : work'[p].pc = work[p].pc /\ Key_(p)' = Key_(p)
      BY <2>1 DEF Key_
    <3> QED
      BY <3>1, <3>3, <3>4, <3>5, <3>6 DEF Telling
  <2>3. CASE ~Announce(o)
    <3>1. notices' = notices
      BY <1>5, <2>3
         DEF Step, Start, Facts, Checkout, Refuse, AbandonRefused, Reviewed, EngineFailed,
             UsageLimited, Settle, Item, StillHolds, ReadHead, Post, Stamp, Failed,
             EnqueuePublication, CloseRow, Fold, Rest, world
    <3>2. Ending(o)'
      BY <1>5, OwnEnding
    <3>3. CASE ~At(o, "announce")'
      BY <1>2, <2>1, <3>1, <3>2, <3>3
    <3>4. CASE At(o, "announce")'
      <4>1. OnRow(o) /\ claims' = claims
        BY <1>5, <3>4, EndsRow DEF At
      <4>2. Key_(o) \in Key /\ rows[Key_(o)].status = "claimed" /\ Key_(o)' = Key_(o)
        BY <4>1, Busy DEF Holding, Q!Holds, Q!Live, OnRow, Active, At, Key_
      <4>3. \A p \in Owner \ {o} : At(p, "announce") => Key_(p) # Key_(o)
        BY <1>0, <4>2 DEF Ending, Dead, At
      <4>4. \A p \in Owner \ {o} : Ending(p)'
        BY <2>1, <3>1, OthersEnding
      <4>5. \A p \in Owner \ {o} : work'[p].pc = work[p].pc /\ Key_(p)' = Key_(p)
        BY <2>1 DEF Key_
      <4>6. \A p, q \in Owner :
              work'[p].pc = "announce" /\ work'[q].pc = "announce" /\ Key_(p)' = Key_(q)'
                => p = q
        BY <4>2, <4>3, <4>5 DEF Telling, At
      <4> QED
        BY <1>0, <3>1, <3>2, <4>4, <4>6 DEF Telling
    <3> QED
      BY <3>3, <3>4
  <2> QED
    BY <2>2, <2>3
<1> QED
  BY <1>1, <1>3, <1>4, <1>5
     DEF Next, Enqueue, Q!Enqueue, Push, Tick, Q!Tick, ClaimNothing, Q!ClaimNothing,
         queueVars, world

\* At any time each trigger's end was told once, or not yet.
LEMMA Told ==
  ASSUME ~LiveLapse
  PROVE  Spec => []Telling
<1>1. Init => Telling
  BY DEF Init, Idle, Telling, Ending, OnRow, Active
<1>2. ASSUME Telling, UNCHANGED vars PROVE Telling'
  BY <1>2 DEF vars, queueVars, world, Telling, Ending, OnRow, Dead, Key_
<1>3. Shape /\ Holding /\ Entitlements /\ Telling /\ [Next]_vars => Telling'
  BY <1>2, TellingStep
<1> QED
  BY <1>1, <1>3, Shaped, Held, Entitlement, PTL DEF Spec

\* What a publication item is about.
LEMMA ItemSubject ==
  ASSUME NEW o \in Owner, Key_(o) \in Key
  PROVE  /\ Subject(o) \in Trigger /\ PullOf[Subject(o)] = PullOf[Key_(o)]
         /\ Key_(o) \in Trigger => Subject(o) = Key_(o)
         /\ Key_(o) \notin Trigger => PubOf[Subject(o)] = Key_(o)
<1>1. CASE Key_(o) \in Trigger
  BY <1>1 DEF Subject
<1>2. CASE Key_(o) \notin Trigger
  <2>1. \E t \in Trigger : PubOf[t] = Key_(o)
    BY <1>2
  <2> QED
    BY <1>2, <2>1 DEF Subject
<1> QED
  BY <1>1, <1>2

\* A worker gives its row up by closing it, or dies with it.
LEMMA LeavesRow ==
  ASSUME Shape, Holding, Entitlements, NEW o \in Owner, Step(o), OnRow(o),
         work'[o].pc \notin Active
  PROVE  CloseRow(o) \/ AbandonRefused(o)
<1>0. /\ work[o] \in Work /\ work \in [Owner -> Work]
      /\ \A pc : Go(o, pc) => pc \notin Active
      /\ \A finish : ~Close(o, finish)
      /\ \A finish, notice : ~End(o, finish, notice)
  BY Going, Closing, Quitting DEF Shape, WorkOK, Active, Phase, BeforeSettle
<1>1. /\ Q!Owns(Key_(o), o) /\ Q!Holds(Key_(o), o)
      /\ work[o].pc \in BeforeSettle => Settles(o)
  BY DEF Holding, Q!Holds, Entitlements, Entitled, Settles
<1>2. work'[o].pc \notin BeforeSettle \cup {"holds", "verb", "enqueue"}
  BY DEF Active, Phase, BeforeSettle
<1>3. ~Announce(o) /\ ~Fold(o) /\ ~Rest(o)
  BY DEF OnRow, Active, Announce, Fold, Rest, At
<1>4. ~Start(o) /\ ~Settle(o) /\ ~StillHolds(o)
  BY <1>0, <1>1 DEF Start, Settle, StillHolds, At, Active, Phase, BeforeSettle
<1>5. ~Refuse(o) /\ ~ReadHead(o) /\ ~Post(o) /\ ~Stamp(o) /\ ~EnqueuePublication(o)
      /\ ~EngineFailed(o) /\ ~UsageLimited(o)
  BY <1>0 DEF Refuse, ReadHead, Post, Stamp, EnqueuePublication, EngineFailed, UsageLimited,
              Fails, Active, Phase
<1>6. ~Facts(o)
  <2>1. ASSUME work' = [work EXCEPT ![o] = [@ EXCEPT !.pc = "checkout",
                                                !.head = head[PullOf[Key_(o)]]]]
        PROVE  FALSE
    BY <1>0, <1>2, <2>1 DEF Work, BeforeSettle
  <2>2. ASSUME work' = [work EXCEPT ![o] = [Idle EXCEPT !.pc = "refuse"]] PROVE FALSE
    BY <1>0, <1>2, <2>2 DEF Idle, BeforeSettle
  <2> QED
    BY <1>0, <2>1, <2>2 DEF Facts, Fails
<1>7. ~Checkout(o)
  <2>1. ASSUME work' = [work EXCEPT ![o] = [@ EXCEPT !.pc = "engine",
                                                !.read = head[PullOf[Key_(o)]]]]
        PROVE  FALSE
    BY <1>0, <1>2, <2>1 DEF Work, BeforeSettle
  <2>2. ASSUME work' = [work EXCEPT ![o] = [Idle EXCEPT !.pc = "refuse", !.notice = TRUE]]
        PROVE  FALSE
    BY <1>0, <1>2, <2>2 DEF Idle, BeforeSettle
  <2> QED
    BY <1>0, <2>1, <2>2 DEF Checkout, Fails
<1>8. ~Item(o)
  <2>1. ASSUME work' = [work EXCEPT ![o] = [@ EXCEPT !.pc = "holds",
                                                !.head = runs[Subject(o)].head]]
        PROVE  FALSE
    BY <1>0, <1>2, <2>1 DEF Work
  <2> QED
    BY <1>0, <2>1 DEF Item
<1>9. ~Reviewed(o)
  <2>1. Reviewed(o) => work'[o].pc = "settle"
    BY <1>0 DEF Reviewed, Idle
  <2> QED
    BY <1>2, <2>1 DEF BeforeSettle
<1>10. ~Failed(o)
  <2>1. Failed(o) => work'[o].pc \in {"verb", "enqueue"}
    BY <1>0 DEF Failed, Work
  <2> QED
    BY <1>2, <2>1
<1> QED
  BY <1>3, <1>4, <1>5, <1>6, <1>7, <1>8, <1>9, <1>10 DEF Step

\* What a worker's step makes of a recorded run.
LEMMA RunsMove ==
  ASSUME Shape, NEW o \in Owner, Step(o), NEW t \in Trigger
  PROVE  \/ runs'[t] = runs[t]
         \/ /\ Reviewed(o) /\ t = Key_(o)
            /\ runs'[t].head = work[o].head /\ runs'[t].read = work[o].read
            /\ runs'[t].stamped = runs[t].stamped /\ runs'[t].failures = runs[t].failures
         \/ /\ ReadHead(o) \/ Stamp(o)
            /\ t = Subject(o) /\ runs'[t].stamped
            /\ runs'[t].head = runs[t].head /\ runs'[t].read = runs[t].read
            /\ runs'[t].failures = runs[t].failures
         \/ /\ Failed(o) /\ t = Subject(o) /\ ~GaveUp(t) /\ ~runs[t].stamped
            /\ runs'[t].head = runs[t].head /\ runs'[t].read = runs[t].read
            /\ runs'[t].stamped = runs[t].stamped
            /\ runs'[t].failures = runs[t].failures + 1
<1>0. runs \in [Trigger -> Run] /\ runs[t] \in Run
  BY DEF Shape, DataOK
<1>1. CASE runs' = runs
  BY <1>1
<1>2. CASE Reviewed(o)
  <2> DEFINE r == [runs[Key_(o)] EXCEPT !.head = work[o].head, !.read = work[o].read]
  <2>1. runs' = [runs EXCEPT ![Key_(o)] = r]
    BY <1>2 DEF Reviewed
  <2>2. t = Key_(o) =>
          /\ r.head = work[o].head /\ r.read = work[o].read
          /\ r.stamped = runs[t].stamped /\ r.failures = runs[t].failures
    BY <1>0 DEF Run
  <2> HIDE DEF r
  <2> QED
    BY <1>0, <1>2, <2>1, <2>2
<1>3. CASE (ReadHead(o) \/ Stamp(o)) /\ runs' = Stamped(Subject(o))
  <2> DEFINE r == [runs[Subject(o)] EXCEPT !.stamped = TRUE]
  <2>1. runs' = [runs EXCEPT ![Subject(o)] = r]
    BY <1>3 DEF Stamped
  <2>2. t = Subject(o) =>
          /\ r.head = runs[t].head /\ r.read = runs[t].read
          /\ r.stamped /\ r.failures = runs[t].failures
    BY <1>0 DEF Run
  <2> HIDE DEF r
  <2> QED
    BY <1>0, <1>3, <2>1, <2>2
<1>4. CASE Failed(o) /\ runs' # runs
  <2> DEFINE s == Subject(o)
             r == [runs[s] EXCEPT !.failures = runs[s].failures + 1]
  <2>1. runs' = [runs EXCEPT ![s] = r] /\ ~runs[s].stamped /\ ~GaveUp(s)
    BY <1>4 DEF Failed, PublishFailed
  <2>2. t = s =>
          /\ r.head = runs[t].head /\ r.read = runs[t].read
          /\ r.stamped = runs[t].stamped /\ r.failures = runs[t].failures + 1
    BY <1>0 DEF Run
  <2> HIDE DEF r
  <2> QED
    BY <1>0, <1>4, <2>1, <2>2
<1> QED
  BY <1>1, <1>2, <1>3, <1>4
     DEF Step, Start, Facts, Checkout, Refuse, AbandonRefused, EngineFailed, UsageLimited,
         Settle, Item, StillHolds, ReadHead, Post, Stamp, EnqueuePublication, CloseRow,
         Announce, Fold, Rest

\* A run that was posted, or given up on, stays so, and a recorded one stays
\* recorded.
LEMMA FinalStays ==
  ASSUME Shape, Next, NEW t \in Trigger
  PROVE  /\ runs[t].stamped => runs'[t].stamped
         /\ Final(t) => Final(t)'
         /\ runs[t].head # NoSha => runs'[t].head # NoSha
<1>1. ASSUME NEW o \in Owner, Step(o)
      PROVE  /\ runs[t].stamped => runs'[t].stamped
             /\ Final(t) => Final(t)'
             /\ runs[t].head # NoSha => runs'[t].head # NoSha
  <2>1. Reviewed(o) => work[o].head # NoSha
    BY DEF Reviewed, At, Shape, WorkOK, Fits
  <2> QED
    BY <1>1, <2>1, RunsMove DEF Final, GaveUp
<1>2. ASSUME runs' = runs
      PROVE  /\ runs[t].stamped => runs'[t].stamped
             /\ Final(t) => Final(t)'
             /\ runs[t].head # NoSha => runs'[t].head # NoSha
  BY <1>2 DEF Final, GaveUp
<1> QED
  BY <1>1, <1>2 DEF Next, Enqueue, Push, Tick, Claim, ClaimNothing, Crash

\* A row that was inserted stays in the table.
LEMMA KnownStays ==
  ASSUME Shape, Next, NEW k \in Key, rows[k].status # "absent"
  PROVE  rows'[k].status # "absent"
<1>0. RowsOK /\ \A o \in Owner : work[o].finish \in Verb
  BY DEF Shape, QueueOK, WorkOK, Work
<1>1. ASSUME NEW t \in Trigger, Enqueue(t) PROVE rows'[k].status # "absent"
  BY <1>0, <1>1, InsertedRows DEF Enqueue, Q!Enqueue, Q!Known, Shape, QueueOK
<1>2. CASE Tick
  BY <1>0, <1>2, AgedRows DEF Tick, Q!Tick
<1>3. Q!Swept[k].status # "absent"
  BY <1>0, SweptRows
<1>4. ASSUME NEW o \in Owner, NEW j \in Q!Claimable, NEW refused, Claim(o, j, refused)
      PROVE  rows'[k].status # "absent"
  BY <1>0, <1>3, <1>4, LeasedRows DEF Claim, Q!ClaimRow
<1>5. ASSUME NEW o \in Owner, ClaimNothing(o) PROVE rows'[k].status # "absent"
  BY <1>3, <1>5 DEF ClaimNothing, Q!ClaimNothing
<1>6. ASSUME NEW o \in Owner, Step(o) PROVE rows'[k].status # "absent"
  BY <1>0, <1>6, RowMoves DEF Verb
<1> QED
  BY <1>1, <1>2, <1>4, <1>5, <1>6 DEF Next, Push, queueVars, Crash, Q!Forget

\* What a completed review leaves behind stays there.
LEMMA ServedStays ==
  ASSUME Shape, Next, NEW t \in Trigger, Served(t)
  PROVE  Served(t)'
BY FinalStays, KnownStays DEF Served

\* The worker that acts: what it writes, step by step.
LEMMA OwnWriting ==
  ASSUME Shape, Holding, Entitlements, Writings, Next, NEW o \in Owner, Step(o)
  PROVE  Writing(o)'
<1>0. /\ work[o] \in Work /\ work \in [Owner -> Work] /\ Fits(claims[o], work[o])
      /\ Writing(o)
      /\ OnRow(o) => /\ Q!Owns(Key_(o), o) /\ Key_(o) \in Key
                     /\ rows[Key_(o)].status = "claimed"
      /\ \A t \in Trigger : runs[t].head # NoSha => runs'[t].head # NoSha
      /\ \A t \in Trigger : Final(t) => Final(t)'
      /\ \A t \in Trigger : Served(t) => Served(t)'
  BY Busy, FinalStays, ServedStays
     DEF Shape, WorkOK, Writings, Holding, Q!Holds, Q!Live, OnRow, Active, At
<1>1. ASSUME work'[o].pc \notin Posting \cup {"settle", "verb", "fold"},
             ~work'[o].reviewed
      PROVE  Writing(o)'
  BY <1>1 DEF Writing, Posting
<1>2. ASSUME NEW kind, Fails(o, kind), E!Finish(kind) # "complete" PROVE Writing(o)'
  <2>1. /\ work'[o].pc = "settle" /\ ~work'[o].reviewed
        /\ work'[o].finish = E!Finish(kind)
    BY <1>2, Quitting DEF Fails
  <2> QED
    BY <1>2, <2>1 DEF Writing, Posting
<1>3. work[o].reviewed => Key_(o) \in Trigger
  BY <1>0 DEF Fits, Key_
<1>4. ASSUME claims' = claims, work'[o].pc \in Posting,
             work'[o].reviewed = work[o].reviewed,
             Key_(o) \in Trigger => work[o].reviewed
      PROVE  Writing(o)'
  <2>1. Key_(o)' = Key_(o)
    BY <1>4 DEF Key_
  <2> QED
    BY <1>0, <1>3, <1>4, <2>1 DEF Writing, Posting
<1>5. ASSUME claims' = claims, Key_(o) \in Trigger, Close(o, "complete"), Served(Key_(o))'
      PROVE  Writing(o)'
  <2>1. Key_(o)' = Key_(o)
    BY <1>5 DEF Key_
  <2>2. /\ work'[o].pc = "verb" /\ work'[o].finish = "complete"
        /\ work'[o].reviewed = work[o].reviewed
    BY <1>5, Closing
  <2> QED
    BY <1>0, <1>3, <1>5, <2>1, <2>2 DEF Writing, Posting
<1>6. ASSUME claims' = claims, Key_(o) \notin Trigger, OnRow(o), Close(o, "complete"),
             Final(Subject(o))'
      PROVE  Writing(o)'
  <2>1. Key_(o)' = Key_(o) /\ Subject(o)' = Subject(o)
    BY <1>6 DEF Key_, Subject
  <2>2. /\ work'[o].pc = "verb" /\ work'[o].finish = "complete"
        /\ work'[o].reviewed = work[o].reviewed
    BY <1>6, Closing
  <2> QED
    BY <1>0, <1>3, <1>6, <2>1, <2>2 DEF Writing, Posting
<1> USE DEF At
<1>7. CASE Start(o) \/ Refuse(o) \/ Announce(o) \/ Fold(o)
  BY <1>0, <1>1, <1>7, Going DEF Start, Refuse, Announce, Fold, Writing, Posting
<1>8. CASE Facts(o)
  <2>0. ~work[o].reviewed
    BY <1>0, <1>8 DEF Facts, Writing, Posting
  <2>1. CASE work' = [work EXCEPT ![o] = [@ EXCEPT !.pc = "checkout",
                                              !.head = head[PullOf[Key_(o)]]]]
    <3>1. work'[o].pc = "checkout" /\ work'[o].reviewed = work[o].reviewed
      BY <1>0, <2>1 DEF Work
    <3> QED
      BY <1>1, <2>0, <3>1 DEF Posting
  <2>2. CASE work' = [work EXCEPT ![o] = [Idle EXCEPT !.pc = "refuse"]]
    <3>1. work'[o].pc = "refuse" /\ ~work'[o].reviewed
      BY <1>0, <2>2 DEF Idle
    <3> QED
      BY <1>1, <3>1 DEF Posting
  <2> QED
    BY <1>2, <1>8, <2>1, <2>2 DEF Facts, E!Finish
<1>9. CASE Checkout(o)
  <2>0. ~work[o].reviewed
    BY <1>0, <1>9 DEF Checkout, Writing, Posting
  <2>1. CASE work' = [work EXCEPT ![o] = [@ EXCEPT !.pc = "engine",
                                              !.read = head[PullOf[Key_(o)]]]]
    <3>1. work'[o].pc = "engine" /\ work'[o].reviewed = work[o].reviewed
      BY <1>0, <2>1 DEF Work
    <3> QED
      BY <1>1, <2>0, <3>1 DEF Posting
  <2>2. CASE work' = [work EXCEPT ![o] = [Idle EXCEPT !.pc = "refuse", !.notice = TRUE]]
    <3>1. work'[o].pc = "refuse" /\ ~work'[o].reviewed
      BY <1>0, <2>2 DEF Idle
    <3> QED
      BY <1>1, <3>1 DEF Posting
  <2>3. CASE End(o, E!Finish("too_large"), TRUE)
    <3>1. E!Finish("too_large") = "abandon"
      BY DEF E!Finish
    <3>2. /\ work'[o].pc = "settle" /\ ~work'[o].reviewed /\ work'[o].finish = "abandon"
      BY <2>3, <3>1, Quitting
    <3> QED
      BY <3>2 DEF Writing, Posting
  <2> QED
    BY <1>2, <1>9, <2>1, <2>2, <2>3 DEF Checkout, E!Finish
<1>10. CASE AbandonRefused(o)
  <2>1. Leave(o) /\ ~work[o].reviewed
    BY <1>0, <1>10 DEF AbandonRefused, Writing, Posting
  <2> QED
    BY <1>0, <1>1, <2>1, Leaving DEF Posting, Work
<1>11. CASE Reviewed(o)
  <2>1. work'[o].pc = "settle" /\ work'[o].reviewed
    BY <1>0, <1>11 DEF Reviewed, Idle
  <2>2. Key_(o) \in Trigger /\ work[o].head \in Sha /\ Key_(o)' = Key_(o)
    BY <1>0, <1>11 DEF Reviewed, Fits, OnTrigger, BeforeSettle, Key_, queueVars
  <2>3. runs'[Key_(o)].head = work[o].head
    BY <1>11, <2>2 DEF Reviewed, Shape, DataOK, Run
  <2> QED
    BY <2>1, <2>2, <2>3 DEF Writing, Posting
<1>12. CASE EngineFailed(o) \/ UsageLimited(o)
  <2>1. \A kind \in E!Failures \cup {"usage_limited"} : E!Finish(kind) # "complete"
    BY DEF E!Failures, E!Finish
  <2> QED
    BY <1>2, <1>12, <2>1 DEF EngineFailed, UsageLimited
<1>13. CASE Settle(o)
  <2>1. /\ Key_(o) \in Trigger /\ claims' = claims /\ Settles(o)
        /\ IF work[o].reviewed THEN Go(o, "publish") ELSE Go(o, "verb")
    BY <1>0, <1>13, MaySettle DEF Settle, Fits, OnTrigger, BeforeSettle, Key_, queueVars
  <2>2. CASE work[o].reviewed
    BY <1>4, <2>1, <2>2, Going DEF Posting
  <2>3. CASE ~work[o].reviewed
    <3>1. /\ work'[o].pc = "verb" /\ work'[o].finish # "complete" /\ ~work'[o].reviewed
          /\ Key_(o)' = Key_(o)
      BY <1>0, <1>13, <2>1, <2>3, Going DEF Settle, Writing, Key_
    <3> QED
      BY <2>1, <3>1 DEF Writing, Posting
  <2> QED
    BY <2>2, <2>3
<1>14. CASE Item(o)
  <2>0. /\ Key_(o) \notin Trigger /\ claims' = claims /\ OnRow(o) /\ ~work[o].reviewed
        /\ runs' = runs
    BY <1>0, <1>14 DEF Item, Fits, Key_, queueVars, OnRow, Active, Phase, Writing, Posting
  <2>1. CASE Unpublished(Subject(o))
    <3>1. work' = [work EXCEPT ![o] = [@ EXCEPT !.pc = "holds",
                                            !.head = runs[Subject(o)].head]]
      BY <1>14, <2>1 DEF Item
    <3>2. work'[o].pc = "holds" /\ work'[o].reviewed = work[o].reviewed
      BY <1>0, <3>1 DEF Work
    <3> QED
      BY <1>1, <2>0, <3>2 DEF Posting
  <2>2. CASE ~Unpublished(Subject(o))
    <3>1. Subject(o) \in Trigger /\ PubOf[Subject(o)] = Key_(o)
      BY <1>0, <2>0, ItemSubject
    <3>2. runs[Subject(o)].head # NoSha
      BY <1>0, <2>0, <3>1 DEF Writings, Owing
    <3>3. Final(Subject(o))
      BY <2>2, <3>2 DEF Unpublished, Final
    <3>4. Subject(o)' = Subject(o)
      BY <2>0 DEF Subject, Key_
    <3>5. Final(Subject(o))'
      BY <2>0, <3>3, <3>4 DEF Final, GaveUp
    <3> QED
      BY <1>6, <1>14, <2>0, <2>2, <3>5 DEF Item
  <2> QED
    BY <2>1, <2>2
<1>15. CASE StillHolds(o)
  <2>1. Key_(o) \notin Trigger /\ claims' = claims /\ OnRow(o)
    BY <1>0, <1>15 DEF StillHolds, Fits, Key_, queueVars, OnRow, Active, Phase
  <2>2. Go(o, "publish")
    BY <1>15, <2>1 DEF StillHolds, Holding
  <2> QED
    BY <1>4, <2>1, <2>2, Going DEF Posting
<1>16. CASE ReadHead(o) \/ Post(o) \/ Stamp(o) \/ Failed(o)
  <2>0. /\ claims' = claims /\ OnRow(o) /\ Key_(o) \in Key /\ work[o].pc \in Posting
        /\ Key_(o) \in Trigger => work[o].reviewed
    BY <1>0, <1>16
       DEF ReadHead, Post, Stamp, Failed, queueVars, OnRow, Active, Phase, Writing, Posting
  <2>1. Subject(o) \in Trigger /\ (Key_(o) \in Trigger => Subject(o) = Key_(o))
    BY <2>0, ItemSubject
  <2>2. ASSUME Close(o, "complete"), runs' = Stamped(Subject(o)) PROVE Writing(o)'
    <3>1. Final(Subject(o))'
      <4>1. Stamped(Subject(o))[Subject(o)].stamped
        BY <2>1 DEF Stamped, Shape, DataOK, Run
      <4>2. runs'[Subject(o)].stamped
        BY <2>2, <4>1
      <4>3. Subject(o)' = Subject(o)
        BY <2>0 DEF Subject, Key_
      <4> QED
        BY <4>2, <4>3 DEF Final
    <3>2. CASE Key_(o) \in Trigger
      <4>1. Subject(o)' = Key_(o) /\ Key_(o)' = Key_(o)
        BY <2>0, <2>1, <3>2 DEF Subject, Key_
      <4>2. Served(Key_(o))'
        BY <3>1, <4>1 DEF Served, Final, GaveUp
      <4> QED
        BY <1>5, <2>0, <2>2, <3>2, <4>2
    <3>3. CASE Key_(o) \notin Trigger
      BY <1>6, <2>0, <2>2, <3>1, <3>3
    <3> QED
      BY <3>2, <3>3
  <2>3. CASE ReadHead(o)
    BY <1>4, <2>0, <2>2, <2>3, Going DEF ReadHead, Posting
  <2>4. CASE Post(o)
    <3>1. \E pc \in {"stamp", "failed"} : Go(o, pc)
      BY <2>4 DEF Post
    <3> QED
      BY <1>4, <2>0, <3>1, Going DEF Posting
  <2>5. CASE Stamp(o)
    BY <2>2, <2>5 DEF Stamp
  <2>6. CASE Failed(o)
    <3> DEFINE gaveUp == runs'[Subject(o)].failures = MaxPublishAttempts
    <3>1. /\ work'[o].pc = IF gaveUp \/ IsItem(o) THEN "verb" ELSE "enqueue"
          /\ work'[o].finish = IF gaveUp \/ ~IsItem(o) THEN "complete" ELSE "unattempted"
          /\ work'[o].reviewed = work[o].reviewed
      BY <1>0, <2>6 DEF Failed, Work
    <3>2. Key_(o)' = Key_(o) /\ Subject(o)' = Subject(o)
      BY <2>0 DEF Key_, Subject
    <3>3. gaveUp => Final(Subject(o))'
      BY <3>2 DEF Final, GaveUp
    <3>4. CASE IsItem(o)
      BY <1>0, <1>3, <2>0, <3>1, <3>2, <3>3, <3>4 DEF Writing, IsItem, Posting
    <3>5. CASE ~IsItem(o) /\ gaveUp
      <4>1. Served(Key_(o))'
        BY <2>1, <3>2, <3>3, <3>5 DEF Served, IsItem
      <4> QED
        BY <1>0, <2>0, <3>1, <3>2, <3>5, <4>1 DEF Writing, IsItem, Posting
    <3>6. CASE ~IsItem(o) /\ ~gaveUp
      BY <1>4, <2>0, <3>1, <3>6 DEF Posting
    <3> QED
      BY <3>4, <3>5, <3>6
  <2> QED
    BY <1>16, <2>3, <2>4, <2>5, <2>6
<1>17. CASE EnqueuePublication(o)
  <2>1. Key_(o) \in Trigger /\ claims' = claims /\ work[o].finish = "complete"
        /\ work[o].reviewed
    BY <1>0, <1>17
       DEF EnqueuePublication, Q!Enqueue, queueVars, Fits, OnTrigger, Key_, Writing, Posting
  <2>2. rows'[PubOf[Key_(o)]].status # "absent"
    BY <1>17, <2>1, InsertedRows
       DEF EnqueuePublication, Q!Enqueue, Q!Known, queueVars, Shape, QueueOK
  <2>3. Served(Key_(o))' /\ Key_(o)' = Key_(o)
    BY <2>1, <2>2 DEF Served, Key_
  <2>4. work'[o].pc = "verb" /\ work'[o].finish = "complete" /\ work'[o].reviewed
    BY <1>17, <2>1, Going DEF EnqueuePublication
  <2> QED
    BY <1>0, <2>1, <2>3, <2>4 DEF Writing, Posting
<1>18. CASE CloseRow(o)
  <2>1. OnRow(o) /\ Leave(o) /\ claims' = claims
    BY <1>0, <1>18 DEF CloseRow, OnRow, Active, Phase, Q!Complete, Q!Release,
                       Q!Abandon, Q!Finish, Q!ReleaseUnattempted, Work, Verb
  <2>2. CASE work[o].reviewed /\ ~work[o].notice
    <3>1. /\ work[o].finish = "complete" /\ Key_(o) \in Trigger /\ Served(Key_(o))
          /\ work'[o].pc = "fold" /\ ~work'[o].reviewed /\ Key_(o)' = Key_(o)
          /\ runs[Key_(o)].head # NoSha
      BY <1>0, <1>3, <1>18, <2>1, <2>2, Leaving DEF CloseRow, Writing, Key_
    <3>2. rows' = Q!Finished(Key_(o), o, "done")
      BY <1>18, <3>1 DEF CloseRow, Q!Complete, Q!Finish, Key_
    <3>3. rows'[Key_(o)].status = "done"
      BY <1>0, <2>1, <3>2, FinishedRows DEF Shape, QueueOK
    <3> QED
      BY <1>0, <3>1, <3>3 DEF Writing, Posting
  <2>3. CASE ~work[o].reviewed \/ work[o].notice
    BY <1>0, <1>1, <2>1, <2>3, Leaving DEF Posting, Work
  <2> QED
    BY <1>0, <2>2, <2>3 DEF Work
<1>19. CASE Rest(o)
  <2>1. work'[o].pc = "idle" /\ ~work'[o].reviewed
    BY <1>0, <1>19 DEF Rest, Idle
  <2> QED
    BY <1>1, <2>1 DEF Posting
<1> QED
  BY <1>7, <1>8, <1>9, <1>10, <1>11, <1>12, <1>13, <1>14, <1>15, <1>16, <1>17, <1>18,
     <1>19 DEF Step

\* A closed row is not touched again.
LEMMA ClosedStays ==
  ASSUME Shape, Next, NEW k \in Key, rows[k].status \in {"done", "abandoned"}
  PROVE  rows'[k].status = rows[k].status
<1>0. /\ RowsOK /\ ~Q!Live(rows, k) /\ Q!Swept[k] = rows[k] /\ k \notin Q!Claimable
      /\ \A o \in Owner : ~Q!Owns(k, o)
  <2>1. RowsOK
    BY DEF Shape, QueueOK
  <2>2. Q!Swept[k] = rows[k]
    BY <2>1, SweptRows
  <2> QED
    BY <2>1, <2>2
       DEF RowsOK, Q!Owns, Q!Live, Q!Claimable, Q!Offered, Q!Lapsed
<1>1. ASSUME NEW t \in Trigger, Enqueue(t) PROVE rows'[k].status = rows[k].status
  BY <1>0, <1>1, InsertedRows DEF Enqueue, Q!Enqueue, Q!Known, Shape, QueueOK
<1>2. CASE Tick
  BY <1>0, <1>2, AgedRows DEF Tick, Q!Tick
<1>3. ASSUME NEW o \in Owner, NEW j \in Q!Claimable, NEW refused, Claim(o, j, refused)
      PROVE  rows'[k].status = rows[k].status
  BY <1>0, <1>3, LeasedRows DEF Claim, Q!ClaimRow
<1>4. ASSUME NEW o \in Owner, ClaimNothing(o) PROVE rows'[k].status = rows[k].status
  BY <1>0, <1>4 DEF ClaimNothing, Q!ClaimNothing
<1>5. ASSUME NEW o \in Owner, Step(o) PROVE rows'[k].status = rows[k].status
  BY <1>0, <1>5, RowMoves, AnsweredRows
<1> QED
  BY <1>1, <1>2, <1>3, <1>4, <1>5 DEF Next, Push, queueVars, Crash, Q!Forget

\* What the others have written stands.
LEMMA OthersWriting ==
  ASSUME Shape, Writings, Next, NEW p \in Owner, work'[p] = work[p], claims'[p] = claims[p]
  PROVE  Writing(p)'
<1>0. /\ Writing(p) /\ Fits(claims[p], work[p])
      /\ Key_(p)' = Key_(p) /\ Subject(p)' = Subject(p)
  BY DEF Writings, Shape, WorkOK, Key_, Subject
<1>1. work[p].reviewed \/ work[p].pc = "fold" =>
        runs'[Key_(p)].head # NoSha /\ Key_(p) \in Trigger
  BY <1>0, FinalStays DEF Writing, Fits, OnTrigger, Key_
<1>2. ASSUME Key_(p) \in Trigger, Served(Key_(p)) PROVE Served(Key_(p))'
  BY <1>0, <1>2, ServedStays DEF Served, Final, GaveUp
<1>3. ASSUME work[p].pc = "verb", Final(Subject(p)) PROVE Final(Subject(p))'
  <2>1. Subject(p) \in Trigger
    BY <1>3, Busy, ItemSubject DEF At
  <2> QED
    BY <1>0, <1>3, <2>1, FinalStays DEF Final, GaveUp
<1>4. ASSUME work[p].pc = "fold" PROVE rows'[Key_(p)].status = "done"
  BY <1>0, <1>1, <1>4, ClosedStays DEF Writing
<1> QED
  BY <1>0, <1>1, <1>2, <1>3, <1>4 DEF Writing

\* Upsets are counted and never taken back.
LEMMA UpsetsCount ==
  ASSUME Shape, Next
  PROVE  /\ upsets \in Nat /\ upsets' \in Nat /\ upsets' >= upsets
         /\ \A o \in Owner : Crash(o) => upsets' = upsets + 1
<1>0. upsets \in Nat
  BY DEF Shape, DataOK
<1>1. ASSUME NEW o \in Owner, Post(o) PROVE upsets' \in {upsets, upsets + 1}
  BY <1>1 DEF Post
<1>2. ASSUME NEW o \in Owner, Step(o) PROVE upsets' \in {upsets, upsets + 1}
  BY <1>1, <1>2
     DEF Step, Start, Facts, Checkout, Refuse, AbandonRefused, Reviewed, EngineFailed,
         UsageLimited, Settle, Item, StillHolds, ReadHead, Stamp, Failed,
         EnqueuePublication, CloseRow, Announce, Fold, Rest
<1>3. upsets' \in {upsets, upsets + 1}
  BY <1>2 DEF Next, Enqueue, Push, Tick, Claim, ClaimNothing, Crash
<1>4. \A o \in Owner : Crash(o) => upsets' = upsets + 1
  BY DEF Crash
<1> QED
  BY <1>0, <1>3, <1>4

\* A publication item gets one attempt more than there were upsets while a
\* worker is on it, and none otherwise: only deaths use its attempts up.
LEMMA ItemAttempts ==
  ASSUME Shape, Shape', Holding, Entitlements, Writings, Next, NEW t \in Trigger,
         rows'[PubOf[t]].status \in {"pending", "claimed"}
  PROVE  rows'[PubOf[t]].attempts <= upsets' + (IF WorkedOn(PubOf[t])' THEN 1 ELSE 0)
<1> DEFINE k == PubOf[t]
<1>0. /\ RowsOK /\ k \in Key /\ k \notin Trigger
      /\ rows[k].attempts \in Nat /\ rows'[k].attempts \in Nat
      /\ rows[k].status \in {"pending", "claimed"} =>
           rows[k].attempts <= upsets + (IF WorkedOn(k) THEN 1 ELSE 0)
      /\ upsets \in Nat /\ upsets' \in Nat /\ upsets' >= upsets
      /\ \A o \in Owner : work[o] \in Work /\ Fits(claims[o], work[o])
  BY UpsetsCount DEF Shape, QueueOK, RowsOK, Q!Row, WorkOK, Writings, Owing
<1>1. WorkedOn(k) => Q!Live(rows, k)
  BY DEF WorkedOn, Holding, Q!Holds
<1> HIDE DEF k
<1>2. ASSUME rows'[k].attempts = rows[k].attempts, rows[k].status \in {"pending", "claimed"},
             WorkedOn(k) => WorkedOn(k)'
      PROVE  rows'[k].attempts <= upsets' + (IF WorkedOn(k)' THEN 1 ELSE 0)
  BY <1>0, <1>2
<1>3. ASSUME rows'[k].attempts = 0
      PROVE  rows'[k].attempts <= upsets' + (IF WorkedOn(k)' THEN 1 ELSE 0)
  <2>0. \A n \in Nat : 0 <= n + 1 /\ 0 <= n + 0
    OBVIOUS
  <2>1. CASE WorkedOn(k)'
    BY <1>0, <1>3, <2>0, <2>1
  <2>2. CASE ~WorkedOn(k)'
    BY <1>0, <1>3, <2>0, <2>2
  <2> QED
    BY <2>1, <2>2
<1>4. ASSUME UNCHANGED <<claims, work>> PROVE WorkedOn(k)' = WorkedOn(k)
  BY <1>4 DEF WorkedOn, OnRow, Key_
<1>5. ASSUME rows'[k] = Q!Swept[k] \/ rows'[k] = rows[k], WorkedOn(k) => WorkedOn(k)'
      PROVE  rows'[k].attempts <= upsets' + (IF WorkedOn(k)' THEN 1 ELSE 0)
  <2>1. rows'[k].status \in {"pending", "claimed"}
    BY DEF k
  <2>2. rows'[k] = rows[k]
    BY <1>0, <1>5, <2>1, SweptRows
  <2> QED
    BY <1>2, <1>5, <2>1, <2>2
<1>6. ASSUME NEW j \in Trigger, Enqueue(j)
      PROVE  rows'[k].attempts <= upsets' + (IF WorkedOn(k)' THEN 1 ELSE 0)
  BY <1>0, <1>4, <1>5, <1>6, InsertedRows DEF Enqueue, Q!Enqueue, Shape, QueueOK
<1>7. ASSUME NEW p \in Pull, NEW sha \in Sha, Push(p, sha)
      PROVE  rows'[k].attempts <= upsets' + (IF WorkedOn(k)' THEN 1 ELSE 0)
  BY <1>4, <1>5, <1>7 DEF Push, queueVars
<1>8. ASSUME Tick
      PROVE  rows'[k].attempts <= upsets' + (IF WorkedOn(k)' THEN 1 ELSE 0)
  <2>1. rows'[k].attempts = rows[k].attempts /\ rows'[k].status = rows[k].status
        /\ UNCHANGED <<claims, work>>
    BY <1>0, <1>8, AgedRows DEF Tick, Q!Tick
  <2>2. rows'[k].status \in {"pending", "claimed"}
    BY DEF k
  <2> QED
    BY <1>2, <1>4, <2>1, <2>2
<1>9. ASSUME NEW o \in Owner, NEW j \in Q!Claimable, NEW refused, Claim(o, j, refused)
      PROVE  rows'[k].attempts <= upsets' + (IF WorkedOn(k)' THEN 1 ELSE 0)
  <2>1. /\ \A p \in Owner \ {o} : work'[p] = work[p] /\ claims'[p] = claims[p]
        /\ work[o].pc = "idle" /\ work'[o].pc \in {"start", "item"} /\ claims'[o].key = j
    BY <1>9 DEF Claim, Q!ClaimRow, Shape, QueueOK, WorkOK, Work, At
  <2>2. CASE j = k
    <3>1. OnRow(o)' /\ Key_(o)' = k
      BY <2>1, <2>2 DEF OnRow, Key_, Active, Phase, BeforeSettle
    <3>2. WorkedOn(k)'
      BY <3>1 DEF WorkedOn
    <3>3. ~WorkedOn(k)
      BY <1>0, <1>1, <2>2, LiveRows
    <3>4. rows'[k].attempts = rows[k].attempts + 1
      BY <1>0, <1>9, <2>2, LeasedRows DEF Claim, Q!ClaimRow
    <3>5. rows[k].status \in {"pending", "claimed"}
      <4>1. Q!Offered(Q!Swept, k)
        BY <2>2 DEF Q!Claimable
      <4> QED
        BY <1>0, <4>1, SweptRows DEF Q!Offered, Q!Lapsed
    <3> QED
      BY <1>0, <3>2, <3>3, <3>4, <3>5
  <2>3. CASE j # k
    <3>1. rows'[k] = Q!Swept[k]
      BY <1>0, <1>9, <2>3, LeasedRows DEF Claim, Q!ClaimRow
    <3>2. \A p \in Owner : OnRow(p) => p # o
      BY <2>1 DEF OnRow, Active
    <3>3. WorkedOn(k) => WorkedOn(k)'
      BY <2>1, <3>2 DEF WorkedOn, OnRow, Key_
    <3> QED
      BY <1>5, <3>1, <3>3
  <2> QED
    BY <2>2, <2>3
<1>10. ASSUME NEW o \in Owner, ClaimNothing(o)
       PROVE  rows'[k].attempts <= upsets' + (IF WorkedOn(k)' THEN 1 ELSE 0)
  BY <1>4, <1>5, <1>10 DEF ClaimNothing, Q!ClaimNothing
<1>11. ASSUME NEW o \in Owner, Crash(o)
       PROVE  rows'[k].attempts <= upsets' + (IF WorkedOn(k)' THEN 1 ELSE 0)
  <2>1. rows'[k] = rows[k] /\ upsets' = upsets + 1
    BY <1>11, UpsetsCount DEF Crash, Q!Forget
  <2>2. rows'[k].status \in {"pending", "claimed"}
    BY DEF k
  <2> QED
    BY <1>0, <2>1, <2>2
<1>12. ASSUME NEW o \in Owner, Step(o)
       PROVE  rows'[k].attempts <= upsets' + (IF WorkedOn(k)' THEN 1 ELSE 0)
  <2>0. \A p \in Owner \ {o} : work'[p] = work[p] /\ claims'[p] = claims[p]
    BY <1>12, OthersStand
  <2>1. CASE OnRow(o) /\ Key_(o) = k /\ CloseRow(o)
    <3>1. work[o].finish \in {"complete", "unattempted"}
      BY <1>0, <2>1 DEF Writings, Writing, CloseRow, At
    <3>2. /\ rows[k].status = "claimed" /\ Q!Owns(k, o)
      BY <2>1 DEF Holding, Q!Holds, Q!Live
    <3>3. WorkedOn(k)
      BY <2>1 DEF WorkedOn
    <3>4. CASE work[o].finish = "complete"
      <4>1. rows' = Q!Finished(k, o, "done")
        BY <2>1, <3>4 DEF CloseRow, Q!Complete, Q!Finish, Key_
      <4>2. rows'[k].status = "done"
        BY <1>0, <3>2, <4>1, FinishedRows
      <4> QED
        BY <4>2 DEF k
    <3>5. CASE work[o].finish = "unattempted"
      <4>1. rows' = Q!Unattempted(k, o)
        BY <2>1, <3>5 DEF CloseRow, Q!ReleaseUnattempted, Key_
      <4>2. rows'[k].attempts = IF rows[k].attempts = 0 THEN 0 ELSE rows[k].attempts - 1
        BY <1>0, <3>2, <4>1 DEF Q!Unattempted, Q!Uncounted, Q!GivenUp, RowsOK
      <4> QED
        BY <1>0, <3>2, <3>3, <4>2
    <3> QED
      BY <3>1, <3>4, <3>5
  <2>2. CASE ~(OnRow(o) /\ Key_(o) = k /\ CloseRow(o))
    <3>1. OnRow(o) /\ Key_(o) = k => OnRow(o)' /\ Key_(o)' = k
      <4> SUFFICES ASSUME OnRow(o), Key_(o) = k PROVE OnRow(o)' /\ Key_(o)' = k
        OBVIOUS
      <4>1. ~AbandonRefused(o)
        BY <1>0 DEF AbandonRefused, At, Fits, OnTrigger, Key_
      <4>2. OnRow(o)'
        BY <1>12, <2>2, <4>1, LeavesRow DEF OnRow
      <4>3. claims' = claims
        BY <1>12, <4>2, StaysOnRow DEF OnRow
      <4> QED
        BY <4>2, <4>3 DEF Key_
    <3>2. WorkedOn(k) => WorkedOn(k)'
      BY <2>0, <3>1 DEF WorkedOn, OnRow, Key_
    <3>3. \/ rows'[k] = rows[k] \/ rows'[k].attempts = 0
          \/ CloseRow(o) /\ k = Key_(o)
      <4>1. ~(AbandonRefused(o) /\ k = Key_(o))
        BY <1>0 DEF AbandonRefused, At, Fits, OnTrigger, Key_
      <4>2. \A a, b, c : k \notin Q!Answered(a, b, c)
        BY <1>0, AnsweredRows
      <4> QED
        BY <1>0, <1>12, <4>1, <4>2, RowMoves
    <3>4. ~(CloseRow(o) /\ k = Key_(o))
      BY <2>2 DEF CloseRow, OnRow, At, Active, Phase
    <3> QED
      BY <1>3, <1>5, <3>2, <3>3, <3>4
  <2> QED
    BY <2>1, <2>2
<1> QED
  BY <1>6, <1>7, <1>8, <1>9, <1>10, <1>11, <1>12 DEF Next, k

\* What becomes of a row's status, and at whose hands.
LEMMA RowFates ==
  ASSUME Shape, Next, NEW k \in Key
  PROVE  \/ rows'[k].status = rows[k].status
         \/ /\ rows[k].status = "absent" /\ rows'[k].status = "pending"
            /\ \/ k \in Trigger /\ Enqueue(k)
               \/ \E o \in Owner : EnqueuePublication(o) /\ k = PubOf[Key_(o)]
         \/ /\ Q!Exhausted(k) /\ rows[k].status \in {"pending", "claimed"}
            /\ rows'[k].status = "abandoned"
            /\ \A o \in Owner : ~Step(o)
         \/ rows'[k].status = "claimed" /\ rows[k].status = "pending"
         \/ \E o \in Owner : CloseRow(o) /\ k = Key_(o) /\ Q!Owns(k, o)
         \/ /\ rows'[k].status = "abandoned"
            /\ \E o \in Owner : AbandonRefused(o) /\ k = Key_(o) /\ Q!Owns(k, o)
         \/ /\ rows[k].status = "pending" /\ rows'[k].status = "done"
            /\ \E o \in Owner :
                 Fold(o) /\ k \in Q!Answered(claims[o].key, claims[o].started, work[o].head)
<1>0. RowsOK /\ lastRow \in Nat
  BY DEF Shape, QueueOK
<1>1. \/ Q!Swept[k] = rows[k]
      \/ Q!Exhausted(k) /\ rows[k].status \in {"pending", "claimed"}
         /\ Q!Swept[k].status = "abandoned"
  BY <1>0, SweptRows DEF Q!Swept
<1>2. ASSUME NEW t \in Trigger, Enqueue(t)
      PROVE  \/ rows'[k].status = rows[k].status
             \/ /\ rows[k].status = "absent" /\ rows'[k].status = "pending"
                /\ k \in Trigger /\ Enqueue(k)
  <2>1. rows' = Q!Inserted(t) /\ rows[t].status = "absent"
    BY <1>2 DEF Enqueue, Q!Enqueue, Q!Known
  <2>2. CASE k = t
    BY <1>0, <1>2, <2>1, <2>2, InsertedRows
  <2>3. CASE k # t
    BY <1>0, <2>1, <2>3, InsertedRows
  <2> QED
    BY <2>2, <2>3
<1>3. CASE Tick
  BY <1>0, <1>3, AgedRows DEF Tick, Q!Tick
<1>4. ASSUME NEW o \in Owner, NEW j \in Q!Claimable, NEW refused, Claim(o, j, refused)
      PROVE  \/ rows'[k].status = rows[k].status
             \/ Q!Exhausted(k) /\ rows[k].status \in {"pending", "claimed"}
                /\ rows'[k].status = "abandoned"
             \/ rows'[k].status = "claimed" /\ rows[k].status = "pending"
  <2>1. CASE j = k
    <3>1. rows'[k].status = "claimed"
      BY <1>0, <1>4, <2>1, LeasedRows DEF Claim, Q!ClaimRow
    <3>2. Q!Offered(Q!Swept, k)
      BY <2>1 DEF Q!Claimable
    <3>3. rows[k].status \in {"pending", "claimed"}
      BY <1>1, <3>2 DEF Q!Offered, Q!Lapsed
    <3> QED
      BY <3>1, <3>3
  <2>2. CASE j # k
    BY <1>0, <1>1, <1>4, <2>2, LeasedRows DEF Claim, Q!ClaimRow
  <2> QED
    BY <2>1, <2>2
<1>5. ASSUME NEW o \in Owner, ClaimNothing(o)
      PROVE  \/ rows'[k].status = rows[k].status
             \/ Q!Exhausted(k) /\ rows[k].status \in {"pending", "claimed"}
                /\ rows'[k].status = "abandoned"
  BY <1>1, <1>5 DEF ClaimNothing, Q!ClaimNothing
<1>6. ASSUME NEW o \in Owner, Step(o)
      PROVE  \/ rows'[k].status = rows[k].status
             \/ /\ rows[k].status = "absent" /\ rows'[k].status = "pending"
                /\ EnqueuePublication(o) /\ k = PubOf[Key_(o)]
             \/ CloseRow(o) /\ k = Key_(o) /\ Q!Owns(k, o)
             \/ /\ rows'[k].status = "abandoned"
                /\ AbandonRefused(o) /\ k = Key_(o) /\ Q!Owns(k, o)
             \/ /\ rows[k].status = "pending" /\ rows'[k].status = "done"
                /\ Fold(o) /\ k \in Q!Answered(claims[o].key, claims[o].started, work[o].head)
  BY <1>6, RowMoves, AnsweredRows
<1>7. CASE \E o \in Owner : Step(o)
  BY <1>6, <1>7
<1>8. CASE \A o \in Owner : ~Step(o)
  <2>1. ASSUME rows' = rows PROVE rows'[k].status = rows[k].status
    BY <2>1
  <2> QED
    BY <1>2, <1>3, <1>4, <1>5, <1>8, <2>1 DEF Next, Push, queueVars, Crash, Q!Forget
<1> QED
  BY <1>7, <1>8

\* A fold is recorded where it happens, and nowhere else.
LEMMA FoldedRecords ==
  ASSUME Shape, Next, NEW t \in Trigger
  PROVE  \/ foldedBy'[t] = foldedBy[t]
         \/ /\ rows'[t] # rows[t]
            /\ \E o \in Owner : /\ Fold(o) /\ foldedBy'[t] = Key_(o) /\ Key_(o) \in Trigger
                                /\ t \in Q!Answered(claims[o].key, claims[o].started,
                                                    work[o].head)
<1>1. ASSUME NEW o \in Owner, Fold(o)
      PROVE  \/ foldedBy'[t] = foldedBy[t]
             \/ /\ rows'[t] # rows[t] /\ foldedBy'[t] = Key_(o) /\ Key_(o) \in Trigger
                /\ t \in Q!Answered(claims[o].key, claims[o].started, work[o].head)
  <2>1. Key_(o) \in Trigger
    BY <1>1 DEF Shape, WorkOK, Fits, OnTrigger, Fold, At, Key_
  <2>2. rows' = Q!Folded(Q!Answered(claims[o].key, claims[o].started, work[o].head))
    BY <1>1 DEF Fold, Q!Fold
  <2>3. rows'[t] = rows[t]
        \/ t \in Q!Answered(claims[o].key, claims[o].started, work[o].head)
    BY <2>2 DEF Q!Folded
  <2>4. foldedBy'[t] = IF rows'[t] # rows[t] THEN Key_(o) ELSE foldedBy[t]
    BY <1>1 DEF Fold
  <2> QED
    BY <2>1, <2>3, <2>4
<1>2. ASSUME foldedBy' = foldedBy PROVE foldedBy'[t] = foldedBy[t]
  BY <1>2
<1> QED
  BY <1>1, <1>2
     DEF Next, Enqueue, Push, Tick, Claim, ClaimNothing, Crash, world, Step, Start, Facts,
         Checkout, Refuse, AbandonRefused, Reviewed, EngineFailed, UsageLimited, Settle, Item,
         StillHolds, ReadHead, Post, Stamp, Failed, EnqueuePublication, CloseRow, Announce,
         Rest

\* What every review owes, step by step.
LEMMA OwingStep ==
  ASSUME Shape, Shape', Holding, Entitlements, Writings, Next, NEW t \in Trigger
  PROVE  Owing(t)'
<1>0. /\ RowsOK /\ PubOf[t] \in Key /\ PubOf[t] \notin Trigger /\ t \in Key
      /\ \A o \in Owner : work[o] \in Work /\ Fits(claims[o], work[o]) /\ Writing(o)
      /\ Owing(t)
  BY DEF Shape, QueueOK, WorkOK, Writings
<1>1. /\ \A o \in Owner : ~(AbandonRefused(o) /\ PubOf[t] = Key_(o))
      /\ \A a, b, c : PubOf[t] \notin Q!Answered(a, b, c)
      /\ ~Enqueue(PubOf[t]) \/ PubOf[t] \notin Trigger
  BY <1>0, AnsweredRows DEF AbandonRefused, At, Fits, OnTrigger, Key_
<1>2. /\ Final(t) => Final(t)'
      /\ Served(t) => Served(t)'
      /\ runs[t].head # NoSha => runs'[t].head # NoSha
  BY FinalStays, ServedStays
<1>3. ASSUME rows'[PubOf[t]].status # "absent" PROVE runs'[t].head # NoSha
  <2>1. CASE rows[PubOf[t]].status # "absent"
    BY <1>0, <1>2, <2>1 DEF Owing
  <2>2. CASE rows[PubOf[t]].status = "absent"
    <3>1. PICK o \in Owner : EnqueuePublication(o) /\ PubOf[t] = PubOf[Key_(o)]
      <4>1. \A o \in Owner : ~Q!Owns(PubOf[t], o)
        BY <1>0, <2>2 DEF RowsOK, Q!Owns
      <4> QED
        BY <1>0, <1>1, <1>3, <2>2, <4>1, RowFates DEF Q!Exhausted, Q!Offered, Q!Lapsed
    <3>2. Key_(o) \in Trigger
      BY <1>0, <3>1 DEF EnqueuePublication, At, Fits, OnTrigger, Key_
    <3>3. Key_(o) = t /\ work[o].reviewed
      BY <1>0, <3>1, <3>2 DEF EnqueuePublication, At, Writing, Posting
    <3> QED
      BY <1>0, <1>2, <3>3 DEF Writing
  <2> QED
    BY <2>1, <2>2
<1>4. ASSUME rows'[PubOf[t]].status = "done" PROVE Final(t)'
  <2>1. CASE rows[PubOf[t]].status = "done"
    BY <1>0, <1>2, <2>1 DEF Owing
  <2>2. CASE \E o \in Owner : CloseRow(o) /\ PubOf[t] = Key_(o) /\ Q!Owns(PubOf[t], o)
    <3>1. PICK o \in Owner : CloseRow(o) /\ PubOf[t] = Key_(o) /\ Q!Owns(PubOf[t], o)
      BY <2>2
    <3>2. At(o, "verb") /\ Key_(o) \notin Trigger /\ Key_(o) \in Key
      BY <1>0, <3>1 DEF CloseRow
    <3>3. Subject(o) = t
      BY <3>1, <3>2, ItemSubject
    <3>4. work[o].finish # "unattempted"
      <4>1. ASSUME work[o].finish = "unattempted" PROVE FALSE
        <5>1. rows' = Q!Unattempted(PubOf[t], o)
          BY <3>1, <4>1 DEF CloseRow, Q!ReleaseUnattempted, Key_
        <5>2. rows'[PubOf[t]].status = "pending"
          BY <1>0, <3>1, <5>1, UnattemptedRows
        <5> QED
          BY <1>4, <5>2
      <4> QED
        BY <4>1
    <3>5. Final(Subject(o))
      BY <1>0, <3>2, <3>4 DEF Writing, At
    <3> QED
      BY <1>2, <3>3, <3>5
  <2> QED
    BY <1>0, <1>1, <1>4, <2>1, <2>2, RowFates
<1>5. ASSUME rows'[PubOf[t]].status = "abandoned" PROVE upsets' >= MaxAttempts
  <2>0. upsets \in Nat /\ upsets' \in Nat /\ upsets' >= upsets /\ MaxAttempts \in Nat
    BY UpsetsCount
  <2>1. CASE rows[PubOf[t]].status = "abandoned"
    BY <1>0, <2>0, <2>1 DEF Owing
  <2>2. CASE Q!Exhausted(PubOf[t]) /\ rows[PubOf[t]].status \in {"pending", "claimed"}
    <3>1. ~WorkedOn(PubOf[t])
      BY <2>2 DEF WorkedOn, Holding, Q!Holds, Q!Live, Q!Exhausted, Q!Offered, Q!Lapsed
    <3>2. rows[PubOf[t]].attempts <= upsets + 0
      BY <1>0, <2>2, <3>1 DEF Owing
    <3>3. rows[PubOf[t]].attempts >= MaxAttempts /\ rows[PubOf[t]].attempts \in Nat
      BY <1>0, <2>2 DEF Q!Exhausted, RowsOK, Q!Row
    <3> QED
      BY <2>0, <3>2, <3>3
  <2>3. ASSUME NEW o \in Owner, CloseRow(o), PubOf[t] = Key_(o), Q!Owns(PubOf[t], o)
        PROVE  FALSE
    <3>1. work[o].finish \in {"complete", "unattempted"}
      BY <1>0, <2>3 DEF Writing, CloseRow, At
    <3>2. CASE work[o].finish = "complete"
      <4>1. rows' = Q!Finished(PubOf[t], o, "done")
        BY <2>3, <3>2 DEF CloseRow, Q!Complete, Q!Finish, Key_
      <4>2. rows'[PubOf[t]].status = "done"
        BY <1>0, <2>3, <4>1, FinishedRows
      <4> QED
        BY <1>5, <4>2
    <3>3. CASE work[o].finish = "unattempted"
      <4>1. rows' = Q!Unattempted(PubOf[t], o)
        BY <2>3, <3>3 DEF CloseRow, Q!ReleaseUnattempted, Key_
      <4>2. rows'[PubOf[t]].status = "pending"
        BY <1>0, <2>3, <4>1, UnattemptedRows
      <4> QED
        BY <1>5, <4>2
    <3> QED
      BY <3>1, <3>2, <3>3
  <2> QED
    BY <1>0, <1>1, <1>5, <2>1, <2>2, <2>3, RowFates
<1>6. ASSUME rows'[t].status = "done", foldedBy'[t] = NoKey PROVE Served(t)'
  <2>1. foldedBy[t] = NoKey /\ \A o \in Owner : Fold(o) => rows'[t] = rows[t]
    <3>1. NoKey \notin Key
      OBVIOUS
    <3>2. foldedBy[t] = NoKey
      BY <1>0, <1>6, <3>1, FoldedRecords
    <3>3. ASSUME NEW o \in Owner, Fold(o), rows'[t] # rows[t] PROVE FALSE
      <4>1. foldedBy'[t] = Key_(o) /\ Key_(o) \in Trigger
        BY <3>3, <1>0 DEF Fold, Fits, OnTrigger, At, Key_
      <4> QED
        BY <1>0, <1>6, <3>1, <4>1
    <3> QED
      BY <3>2, <3>3
  <2>2. CASE rows[t].status = "done"
    BY <1>0, <1>2, <2>1, <2>2 DEF Owing
  <2>3. CASE \E o \in Owner : CloseRow(o) /\ t = Key_(o) /\ Q!Owns(t, o)
    <3>1. PICK o \in Owner : CloseRow(o) /\ t = Key_(o) /\ Q!Owns(t, o)
      BY <2>3
    <3>2. work[o].finish = "complete"
      <4>1. ASSUME work[o].finish # "complete" PROVE FALSE
        <5>1. Step(o) /\ work[o].finish \in Verb /\ ~AbandonRefused(o) /\ ~Fold(o)
              /\ ~EnqueuePublication(o)
          BY <1>0, <3>1
             DEF Step, Work, AbandonRefused, Fold, EnqueuePublication, CloseRow, At
        <5>2. rows[t].status = "claimed"
          BY <1>0, <3>1 DEF RowsOK, Q!Owns
        <5>3. rows'[t].status \in {"claimed", "pending", "abandoned"}
          BY <1>0, <4>1, <5>1, <5>2, RowMoves DEF Verb
        <5> QED
          BY <1>6, <5>3
      <4> QED
        BY <4>1
    <3>3. Served(t)
      BY <1>0, <3>1, <3>2 DEF Writing, CloseRow, At
    <3> QED
      BY <1>2, <3>3
  <2> QED
    BY <1>0, <1>6, <2>1, <2>2, <2>3, RowFates
<1>7. rows'[PubOf[t]].status \in {"pending", "claimed"} =>
        rows'[PubOf[t]].attempts <= upsets' + (IF WorkedOn(PubOf[t])' THEN 1 ELSE 0)
  BY ItemAttempts
<1> QED
  BY <1>3, <1>4, <1>5, <1>6, <1>7 DEF Owing

\* Every step keeps what is written.
LEMMA WritingsStep ==
  ASSUME Shape, Shape', Holding, Entitlements, Writings, Next
  PROVE  Writings'
<1>0. work \in [Owner -> Work] /\ \A o \in Owner : work[o] \in Work /\ Writing(o)
  BY DEF Shape, WorkOK, Writings
<1>1. ASSUME NEW o \in Owner, Step(o), NEW p \in Owner PROVE Writing(p)'
  BY <1>1, OwnWriting, OthersWriting, OthersStand
<1>2. ASSUME NEW o \in Owner, Crash(o), NEW p \in Owner PROVE Writing(p)'
  <2>1. CASE p = o
    <3>1. work'[o].pc = "idle" /\ ~work'[o].reviewed
      BY <1>0, <1>2 DEF Crash, Idle
    <3> QED
      BY <2>1, <3>1 DEF Writing, Posting
  <2>2. CASE p # o
    BY <1>2, <2>2, OthersStand, OthersWriting
  <2> QED
    BY <2>1, <2>2
<1>3. ASSUME NEW o \in Owner, NEW k \in Q!Claimable, NEW refused, Claim(o, k, refused),
             NEW p \in Owner
      PROVE  Writing(p)'
  <2> DEFINE w == [work[o] EXCEPT !.pc = IF k \in Trigger THEN "start" ELSE "item",
                           !.last = k \in Trigger /\ rows'[k].attempts = MaxAttempts]
  <2>1. work' = [work EXCEPT ![o] = w] /\ ~work[o].reviewed
    BY <1>0, <1>3 DEF Claim, Writing, At, Posting
  <2>2. w.pc \in {"start", "item"} /\ w.reviewed = work[o].reviewed
    BY <1>0 DEF Work
  <2> HIDE DEF w
  <2>3. CASE p = o
    <3>1. work'[o].pc \in {"start", "item"} /\ ~work'[o].reviewed
      BY <1>0, <2>1, <2>2
    <3> QED
      BY <2>3, <3>1 DEF Writing, Posting
  <2>4. CASE p # o
    <3>1. work'[p] = work[p] /\ claims'[p] = claims[p]
      BY <1>0, <1>3, <2>1, <2>4 DEF Claim, Q!ClaimRow, Shape, QueueOK
    <3> QED
      BY <3>1, OthersWriting
  <2> QED
    BY <2>3, <2>4
<1>4. ASSUME UNCHANGED <<claims, work>>, NEW p \in Owner PROVE Writing(p)'
  BY <1>4, OthersWriting
<1>5. \A p \in Owner : Writing(p)'
  BY <1>1, <1>2, <1>3, <1>4
     DEF Next, Enqueue, Q!Enqueue, Push, queueVars, Tick, Q!Tick, ClaimNothing, Q!ClaimNothing
<1>6. \A t \in Trigger : Owing(t)'
  BY OwingStep
<1> QED
  BY <1>5, <1>6 DEF Writings

\* While no lease lapses under a live worker, what is written agrees.
LEMMA Written ==
  ASSUME ~LiveLapse
  PROVE  Spec => []Writings
<1>1. Init => Writings
  <2> SUFFICES ASSUME Init PROVE Writings
    OBVIOUS
  <2>1. \A o \in Owner : Writing(o)
    BY DEF Init, Idle, Writing, Posting
  <2>2. \A t \in Trigger : Owing(t)
    <3>1. \A k \in Key : rows[k].status = "absent"
      BY DEF Init, Q!Init, Q!NoRow
    <3>2. \A t \in Trigger : PubOf[t] \in Key /\ t \in Key
      OBVIOUS
    <3> QED
      BY <3>1, <3>2 DEF Owing
  <2> QED
    BY <2>1, <2>2 DEF Writings
<1>2. ASSUME Writings, UNCHANGED vars PROVE Writings'
  <2>1. UNCHANGED <<rows, claims, runs, work, foldedBy, upsets>>
    BY <1>2 DEF vars, world
  <2>2. \A o \in Owner : Writing(o)' = Writing(o)
    BY <2>1 DEF Writing, Posting, Final, Served, GaveUp, Key_, Subject
  <2>3. \A t \in Trigger : Owing(t)' = Owing(t)
    BY <2>1 DEF Owing, Final, Served, GaveUp, WorkedOn, OnRow, Key_
  <2> QED
    BY <1>2, <2>2, <2>3 DEF Writings
<1>3. Shape /\ Shape' /\ Holding /\ Entitlements /\ Writings /\ [Next]_vars => Writings'
  BY <1>2, WritingsStep
<1> QED
  BY <1>1, <1>3, Shaped, Held, Entitlement, PTL DEF Spec

-----------------------------------------------------------------------------
(* Stamps against comments, where leases may lapse too.                    *)

\* A head that is not the first one is of a pull request that was pushed to.
Dated(sha, k) == sha \in {NoSha, FirstHead} \/ head[PullOf[k]] # FirstHead

\* A worker that has a head to compare has one of these.
Comparing(w) == w.reviewed \/ w.pc \in {"checkout", "engine", "holds", "publish"}

Heads ==
  /\ \A t \in Trigger : Dated(runs[t].head, t)
  /\ \A o \in Owner :
       Comparing(work[o]) => work[o].head \in Sha /\ Dated(work[o].head, Key_(o))

\* A run is stamped when its comment stands, or where reviews are withheld.
Standing ==
  /\ Heads
  /\ \A t \in Trigger : runs[t].stamped => Shown(t)
  /\ \A o \in Owner : At(o, "stamp") => comments[Subject(o)] > 0

\* A comment is not taken back.
LEMMA CommentsStand ==
  ASSUME Shape, Next, NEW t \in Trigger, comments[t] > 0
  PROVE  comments'[t] > 0
<1>0. comments \in [Trigger -> Nat] /\ comments[t] \in Nat
  BY DEF Shape, DataOK
<1>1. ASSUME NEW o \in Owner, Post(o) PROVE comments'[t] > 0
  <2>1. PICK w \in C!Writes : comments' = [comments EXCEPT ![Subject(o)] = @ + w.times]
    BY <1>1 DEF Post
  <2>2. w.times \in {0, 1}
    BY WritesOnce
  <2>3. comments'[t] \in {comments[t], comments[t] + w.times}
    BY <1>0, <2>1
  <2> QED
    BY <1>0, <2>2, <2>3
<1>2. ASSUME comments' = comments PROVE comments'[t] > 0
  BY <1>2
<1> QED
  BY <1>1, <1>2
     DEF Next, Enqueue, Push, Tick, Claim, ClaimNothing, Crash, world, Step, Start, Facts,
         Checkout, Refuse, AbandonRefused, Reviewed, EngineFailed, UsageLimited, Settle,
         Item, StillHolds, ReadHead, Stamp, Failed, EnqueuePublication, CloseRow, Announce,
         Fold, Rest

\* Pushes do not bring the first head back.
LEMMA PushedStays ==
  ASSUME Shape, Next, NEW q \in Pull, head[q] # FirstHead
  PROVE  head'[q] # FirstHead
<1>0. head \in [Pull -> Sha]
  BY DEF Shape, DataOK
<1>1. ASSUME NEW p \in Pull, NEW sha \in Sha, Push(p, sha) PROVE head'[q] # FirstHead
  BY <1>0, <1>1 DEF Push
<1>2. ASSUME head' = head PROVE head'[q] # FirstHead
  BY <1>2
<1> QED
  BY <1>1, <1>2
     DEF Next, Enqueue, Tick, Claim, ClaimNothing, Crash, world, Step, Start, Facts,
         Checkout, Refuse, AbandonRefused, Reviewed, EngineFailed, UsageLimited, Settle,
         Item, StillHolds, ReadHead, Post, Stamp, Failed, EnqueuePublication, CloseRow,
         Announce, Fold, Rest

\* Where a worker gets the head it compares: from the facts, from the record, or
\* it has it already.
LEMMA GetsHead ==
  ASSUME Shape, NEW o \in Owner, Step(o), Comparing(work'[o])
  PROVE  /\ claims' = claims /\ head' = head
         /\ \/ Comparing(work[o]) /\ work'[o].head = work[o].head
            \/ At(o, "facts") /\ work'[o].head = head[PullOf[Key_(o)]]
            \/ /\ At(o, "item") /\ Unpublished(Subject(o))
               /\ work'[o].head = runs[Subject(o)].head
<1> DEFINE Same == Comparing(work[o]) /\ work'[o].head = work[o].head
<1>0. work[o] \in Work /\ work \in [Owner -> Work] /\ Fits(claims[o], work[o])
      /\ ~Leave(o) /\ \A finish, notice : ~End(o, finish, notice)
  BY Leaving, Quitting DEF Shape, WorkOK, Comparing
<1>1. ASSUME NEW pc, Go(o, pc), pc \in {"engine", "publish"} => Comparing(work[o]),
             pc \notin {"checkout", "holds"}
      PROVE  Same
  BY <1>1, Going DEF Comparing
<1>2. ASSUME NEW finish, Close(o, finish) PROVE Same
  BY <1>2, Closing DEF Comparing
<1>3. ASSUME NEW w, work' = [work EXCEPT ![o] = w] PROVE w = work'[o]
  BY <1>0, <1>3
<1> HIDE DEF Same
<1>4. ~AbandonRefused(o) /\ ~EngineFailed(o) /\ ~UsageLimited(o) /\ ~CloseRow(o)
  BY <1>0 DEF AbandonRefused, EngineFailed, UsageLimited, Fails, CloseRow
<1>5. ~Rest(o)
  <2>1. ~Comparing(Idle)
    BY DEF Comparing, Idle
  <2> QED
    BY <1>3, <2>1 DEF Rest
<1>6. CASE Start(o) \/ Refuse(o) \/ Announce(o) \/ Fold(o) \/ EnqueuePublication(o)
  BY <1>1, <1>6 DEF Start, Refuse, Announce, Fold, Q!Fold, EnqueuePublication, Q!Enqueue,
     queueVars, Same
<1>7. CASE Facts(o)
  <2>1. PICK w : w = [work[o] EXCEPT !.pc = "checkout", !.head = head[PullOf[Key_(o)]]]
    OBVIOUS
  <2>2. w.head = head[PullOf[Key_(o)]]
    BY <1>0, <2>1 DEF Work
  <2>3. ~Comparing([Idle EXCEPT !.pc = "refuse"])
    BY DEF Comparing, Idle
  <2>4. work' # [work EXCEPT ![o] = [Idle EXCEPT !.pc = "refuse"]]
    BY <1>3, <2>3
  <2>5. work' = [work EXCEPT ![o] = w]
    BY <1>0, <1>7, <2>1, <2>4 DEF Facts, Fails
  <2> QED
    BY <1>3, <1>7, <2>2, <2>5 DEF Facts, queueVars
<1>8. CASE Checkout(o)
  <2>1. PICK w : w = [work[o] EXCEPT !.pc = "engine", !.read = head[PullOf[Key_(o)]]]
    OBVIOUS
  <2>2. w.head = work[o].head
    BY <1>0, <2>1 DEF Work
  <2>3. ~Comparing([Idle EXCEPT !.pc = "refuse", !.notice = TRUE])
    BY DEF Comparing, Idle
  <2>4. work' # [work EXCEPT ![o] = [Idle EXCEPT !.pc = "refuse", !.notice = TRUE]]
    BY <1>3, <2>3
  <2>5. work' = [work EXCEPT ![o] = w]
    BY <1>0, <1>8, <2>1, <2>4 DEF Checkout, Fails
  <2> QED
    BY <1>3, <1>8, <2>2, <2>5 DEF Checkout, queueVars, At, Comparing
<1>9. CASE Reviewed(o)
  <2>1. PICK w : w = [Idle EXCEPT !.pc = "settle", !.head = work[o].head,
                                  !.finish = E!Finish("completed"), !.reviewed = TRUE]
    OBVIOUS
  <2>2. w.head = work[o].head
    BY <2>1 DEF Idle
  <2>3. work' = [work EXCEPT ![o] = w]
    BY <1>9, <2>1 DEF Reviewed
  <2> QED
    BY <1>3, <1>9, <2>2, <2>3 DEF Reviewed, queueVars, At, Comparing
<1>10. CASE Settle(o)
  <2>1. Go(o, IF work[o].reviewed THEN "publish" ELSE "verb")
    BY <1>0, <1>10 DEF Settle
  <2>2. Same
    BY <1>1, <2>1 DEF Comparing
  <2> QED
    BY <1>10, <2>2 DEF Settle, queueVars, Same
<1>11. CASE Item(o)
  <2>1. CASE Unpublished(Subject(o))
    <3>1. PICK w : w = [work[o] EXCEPT !.pc = "holds", !.head = runs[Subject(o)].head]
      OBVIOUS
    <3>2. w.head = runs[Subject(o)].head
      BY <1>0, <3>1 DEF Work
    <3>3. work' = [work EXCEPT ![o] = w]
      BY <1>11, <2>1, <3>1 DEF Item
    <3> QED
      BY <1>3, <1>11, <2>1, <3>2, <3>3 DEF Item, queueVars
  <2>2. CASE ~Unpublished(Subject(o))
    BY <1>2, <1>11, <2>2 DEF Item, queueVars, Same
  <2> QED
    BY <2>1, <2>2
<1>12. CASE StillHolds(o)
  <2>1. Comparing(work[o])
    BY <1>12 DEF StillHolds, At, Comparing
  <2>2. Same
    BY <1>1, <1>12, <2>1 DEF StillHolds
  <2> QED
    BY <1>12, <2>2 DEF StillHolds, queueVars, Same
<1>13. CASE ReadHead(o)
  BY <1>1, <1>2, <1>13 DEF ReadHead, queueVars, Same
<1>14. CASE Post(o)
  <2>1. PICK pc : Go(o, pc) /\ pc \in {"stamp", "failed"}
    BY <1>14 DEF Post
  <2>2. Same
    BY <1>1, <2>1
  <2> QED
    BY <1>14, <2>2 DEF Post, queueVars, Same
<1>15. CASE Stamp(o)
  BY <1>2, <1>15 DEF Stamp, queueVars, Same
<1>16. CASE Failed(o)
  <2>1. work'[o].pc \in {"verb", "enqueue"} /\ work'[o].head = work[o].head
        /\ work'[o].reviewed = work[o].reviewed
    BY <1>0, <1>16 DEF Failed, Work
  <2>2. Same
    BY <2>1 DEF Comparing, Same
  <2> QED
    BY <1>16, <2>2 DEF Failed, queueVars, Same
<1> QED
  BY <1>4, <1>5, <1>6, <1>7, <1>8, <1>9, <1>10, <1>11, <1>12, <1>13, <1>14, <1>15, <1>16
     DEF Step

\* A worker stamps after a post that was made.
LEMMA ToStamp ==
  ASSUME Shape, NEW o \in Owner, Step(o), work'[o].pc = "stamp"
  PROVE  claims' = claims /\ comments'[Subject(o)] > 0
<1>0. /\ work[o] \in Work /\ work \in [Owner -> Work] /\ comments \in [Trigger -> Nat]
      /\ \A pc : Go(o, pc) => pc = "stamp"
      /\ \A finish : ~Close(o, finish)
      /\ \A finish, notice : ~End(o, finish, notice)
      /\ ~Leave(o)
  BY Going, Closing, Quitting, Leaving DEF Shape, WorkOK, DataOK
<1>1. ~Start(o) /\ ~Settle(o) /\ ~StillHolds(o) /\ ~Refuse(o) /\ ~AbandonRefused(o)
      /\ ~EngineFailed(o) /\ ~UsageLimited(o) /\ ~Stamp(o) /\ ~EnqueuePublication(o)
      /\ ~CloseRow(o) /\ ~Announce(o) /\ ~Fold(o) /\ ~ReadHead(o)
  BY <1>0 DEF Start, Settle, StillHolds, Refuse, AbandonRefused, EngineFailed, UsageLimited,
     Fails, Stamp, EnqueuePublication, CloseRow, Announce, Fold, ReadHead
<1>2. ASSUME NEW w, work' = [work EXCEPT ![o] = w] PROVE w.pc = "stamp"
  BY <1>0, <1>2
<1>3. ~Facts(o) /\ ~Checkout(o) /\ ~Item(o) /\ ~Reviewed(o) /\ ~Rest(o)
  <2>1. ~Facts(o)
    <3>1. [work[o] EXCEPT !.pc = "checkout", !.head = head[PullOf[Key_(o)]]].pc = "checkout"
      BY <1>0 DEF Work
    <3>2. [Idle EXCEPT !.pc = "refuse"].pc = "refuse"
      BY DEF Idle
    <3>3. work' # [work EXCEPT ![o] = [@ EXCEPT !.pc = "checkout",
                                                !.head = head[PullOf[Key_(o)]]]]
      BY <1>2, <3>1
    <3>4. work' # [work EXCEPT ![o] = [Idle EXCEPT !.pc = "refuse"]]
      BY <1>2, <3>2
    <3> QED
      BY <1>0, <3>3, <3>4 DEF Facts, Fails
  <2>2. ~Checkout(o)
    <3>1. [work[o] EXCEPT !.pc = "engine", !.read = head[PullOf[Key_(o)]]].pc = "engine"
      BY <1>0 DEF Work
    <3>2. [Idle EXCEPT !.pc = "refuse", !.notice = TRUE].pc = "refuse"
      BY DEF Idle
    <3>3. work' # [work EXCEPT ![o] = [@ EXCEPT !.pc = "engine",
                                                !.read = head[PullOf[Key_(o)]]]]
      BY <1>2, <3>1
    <3>4. work' # [work EXCEPT ![o] = [Idle EXCEPT !.pc = "refuse", !.notice = TRUE]]
      BY <1>2, <3>2
    <3> QED
      BY <1>0, <3>3, <3>4 DEF Checkout, Fails
  <2>3. ~Item(o)
    <3>1. [work[o] EXCEPT !.pc = "holds", !.head = runs[Subject(o)].head].pc = "holds"
      BY <1>0 DEF Work
    <3>2. work' # [work EXCEPT ![o] = [@ EXCEPT !.pc = "holds",
                                                !.head = runs[Subject(o)].head]]
      BY <1>2, <3>1
    <3> QED
      BY <1>0, <3>2 DEF Item
  <2>4. ~Reviewed(o)
    <3>1. [Idle EXCEPT !.pc = "settle", !.head = work[o].head,
                       !.finish = E!Finish("completed"), !.reviewed = TRUE].pc = "settle"
      BY DEF Idle
    <3> QED
      BY <1>2, <3>1 DEF Reviewed
  <2>5. ~Rest(o)
    <3>1. Idle.pc = "idle"
      BY DEF Idle
    <3> QED
      BY <1>2, <3>1 DEF Rest
  <2> QED
    BY <2>1, <2>2, <2>3, <2>4, <2>5
<1>4. ~Failed(o)
  <2>1. Failed(o) => work'[o].pc \in {"verb", "enqueue"}
    BY <1>0 DEF Failed, Work
  <2> QED
    BY <2>1
<1>5. Post(o)
  BY <1>1, <1>3, <1>4 DEF Step
<1>6. PICK w \in C!Writes :
        /\ Go(o, IF w.heard THEN "stamp" ELSE "failed")
        /\ comments' = [comments EXCEPT ![Subject(o)] = @ + w.times]
  BY <1>5 DEF Post
<1>7. w.times = 1
  BY <1>0, <1>6, WritesOnce
<1>8. Subject(o) \in Trigger
  BY <1>5, Busy, ItemSubject DEF Post, At
<1>9. comments'[Subject(o)] = comments[Subject(o)] + 1 /\ comments[Subject(o)] \in Nat
  BY <1>0, <1>6, <1>7, <1>8
<1> QED
  BY <1>5, <1>9 DEF Post, queueVars

\* Every step keeps the heads dated.
LEMMA HeadsStep ==
  ASSUME Shape, Heads, Next
  PROVE  Heads'
<1>0. /\ work \in [Owner -> Work] /\ claims \in [Owner -> Q!Claim \cup {Q!NoClaim}]
      /\ runs \in [Trigger -> Run] /\ head \in [Pull -> Sha] /\ Trigger \subseteq Key
  BY DEF Shape, WorkOK, QueueOK, DataOK
<1>1. ASSUME NEW t \in Trigger PROVE Dated(runs[t].head, t)'
  <2>1. CASE runs'[t].head = runs[t].head
    <3>1. Dated(runs[t].head, t) /\ PullOf[t] \in Pull
      BY DEF Heads
    <3> QED
      BY <2>1, <3>1, PushedStays DEF Dated
  <2>2. ASSUME NEW o \in Owner, Step(o), runs'[t].head # runs[t].head
        PROVE  Dated(runs[t].head, t)'
    <3>1. Reviewed(o) /\ t = Key_(o) /\ runs'[t].head = work[o].head
      BY <2>2, RunsMove
    <3>2. Dated(work[o].head, t) /\ PullOf[t] \in Pull
      BY <3>1 DEF Heads, Reviewed, At, Comparing
    <3> QED
      BY <3>1, <3>2, PushedStays DEF Dated
  <2> QED
    BY <2>1, <2>2 DEF Next, Enqueue, Push, Tick, Claim, ClaimNothing, Crash
<1>2. ASSUME NEW p \in Owner, Comparing(work[p]), work'[p].head = work[p].head,
             claims'[p] = claims[p]
      PROVE  work'[p].head \in Sha /\ Dated(work[p].head, Key_(p))'
  <2>1. Key_(p) \in Key
    BY <1>2, Busy DEF Comparing, At, Shape, WorkOK, Fits, Key_, Q!NoClaim
  <2>2. work[p].head \in Sha /\ Dated(work[p].head, Key_(p)) /\ Key_(p)' = Key_(p)
    BY <1>2 DEF Heads, Key_
  <2>3. head'[PullOf[Key_(p)]] # FirstHead \/ work[p].head \in {NoSha, FirstHead}
    <3>1. PICK q \in Pull : q = PullOf[Key_(p)]
      BY <2>1
    <3> QED
      BY <2>2, <3>1, PushedStays DEF Dated
  <2> QED
    BY <1>2, <2>2, <2>3 DEF Dated
<1>3. ASSUME NEW p \in Owner, Comparing(work'[p])
      PROVE  work'[p].head \in Sha /\ Dated(work[p].head, Key_(p))'
  <2>1. ASSUME NEW o \in Owner, Step(o)
        PROVE  work'[p].head \in Sha /\ Dated(work[p].head, Key_(p))'
    <3>1. CASE p # o
      BY <1>2, <1>3, <2>1, <3>1, OthersStand
    <3>2. ASSUME p = o, At(o, "facts"), claims' = claims, head' = head,
                 work'[o].head = head[PullOf[Key_(o)]]
          PROVE  work'[p].head \in Sha /\ Dated(work[p].head, Key_(p))'
      <4>1. Key_(o)' = Key_(o) /\ PullOf[Key_(o)] \in Pull
        BY <3>2, Busy DEF At, Key_
      <4> QED
        BY <1>0, <3>2, <4>1 DEF Dated
    <3>3. ASSUME p = o, At(o, "item"), Unpublished(Subject(o)), claims' = claims,
                 head' = head, work'[o].head = runs[Subject(o)].head
          PROVE  work'[p].head \in Sha /\ Dated(work[p].head, Key_(p))'
      <4>1. Key_(o)' = Key_(o) /\ Subject(o) \in Trigger
            /\ PullOf[Subject(o)] = PullOf[Key_(o)]
        BY <3>3, Busy, ItemSubject DEF At, Key_
      <4>2. runs[Subject(o)].head \in Sha
        BY <1>0, <3>3, <4>1 DEF Unpublished, Run
      <4>3. Dated(runs[Subject(o)].head, Subject(o))
        BY <4>1 DEF Heads
      <4> QED
        BY <3>3, <4>1, <4>2, <4>3 DEF Dated
    <3>4. CASE p = o
      BY <1>2, <1>3, <2>1, <3>2, <3>3, <3>4, GetsHead
    <3> QED
      BY <3>1, <3>4
  <2>2. ASSUME NEW o \in Owner, Crash(o)
        PROVE  work'[p].head \in Sha /\ Dated(work[p].head, Key_(p))'
    <3>1. p # o
      BY <1>0, <1>3, <2>2 DEF Crash, Idle, Comparing
    <3> QED
      BY <1>2, <1>3, <2>2, <3>1, OthersStand
  <2>3. ASSUME NEW o \in Owner, NEW k \in Q!Claimable, NEW refused, Claim(o, k, refused)
        PROVE  work'[p].head \in Sha /\ Dated(work[p].head, Key_(p))'
    <3>1. \E w, c : work' = [work EXCEPT ![o] = w] /\ claims' = [claims EXCEPT ![o] = c]
      BY <2>3 DEF Claim, Q!ClaimRow
    <3>2. ~work[o].reviewed
      BY <1>0, <2>3 DEF Claim, At, Shape, WorkOK, Fits, Q!NoClaim
    <3>3. work'[o].pc \in {"start", "item"} /\ work'[o].reviewed = work[o].reviewed
      BY <1>0, <2>3 DEF Claim, Work
    <3>4. p # o
      BY <1>3, <3>2, <3>3 DEF Comparing
    <3>5. work'[p] = work[p] /\ claims'[p] = claims[p]
      BY <1>0, <3>1, <3>4
    <3> QED
      BY <1>2, <1>3, <3>5
  <2>4. ASSUME UNCHANGED <<claims, work>>
        PROVE  work'[p].head \in Sha /\ Dated(work[p].head, Key_(p))'
    BY <1>2, <1>3, <2>4
  <2> QED
    BY <2>1, <2>2, <2>3, <2>4
       DEF Next, Enqueue, Q!Enqueue, Push, queueVars, Tick, Q!Tick, ClaimNothing,
           Q!ClaimNothing
<1>4. ASSUME NEW p \in Owner PROVE Comparing(work[p])' => Comparing(work'[p])
  BY DEF Comparing
<1> QED
  BY <1>1, <1>3, <1>4 DEF Heads

\* Every step keeps stamps and comments together.
LEMMA StandingStep ==
  ASSUME Shape, Standing, Next
  PROVE  Standing'
<1>0. work \in [Owner -> Work] /\ claims \in [Owner -> Q!Claim \cup {Q!NoClaim}]
  BY DEF Shape, WorkOK, QueueOK
<1>1. ASSUME NEW t \in Trigger, Shown(t) \/ runs[t].stamped, runs'[t].stamped
      PROVE  Shown(t)'
  <2>1. Shown(t)
    BY <1>1 DEF Standing
  <2>2. head[PullOf[t]] # FirstHead => head'[PullOf[t]] # FirstHead
    BY PushedStays
  <2> QED
    BY <1>1, <2>1, <2>2, CommentsStand DEF Shown
<1>2. ASSUME NEW t \in Trigger, runs'[t].stamped PROVE Shown(t)'
  <2>1. ASSUME NEW o \in Owner, Step(o), ~runs[t].stamped PROVE Shown(t)'
    <3>1. (ReadHead(o) \/ Stamp(o)) /\ t = Subject(o) /\ runs' # runs
      BY <1>2, <2>1, RunsMove
    <3>2. CASE ReadHead(o)
      <4>1. /\ work[o].head \in Sha /\ Dated(work[o].head, Key_(o))
            /\ PullOf[t] = PullOf[Key_(o)]
        BY <3>1, <3>2, Busy, ItemSubject DEF ReadHead, At, Standing, Heads, Comparing
      <4>2. Discarded(o) \/ Withholds
        BY <3>1, <3>2 DEF ReadHead
      <4>3. Discarded(o) => ~PostSuperseded /\ head[PullOf[t]] # FirstHead
        BY <4>1 DEF Discarded, Dated
      <4> QED
        BY <1>2, <3>2, <4>2, <4>3 DEF ReadHead, Shown
    <3>3. CASE Stamp(o)
      <4>1. comments[t] > 0
        BY <3>1, <3>3 DEF Stamp, Standing
      <4> QED
        BY <1>2, <4>1, CommentsStand DEF Shown
    <3> QED
      BY <3>1, <3>2, <3>3
  <2>2. ASSUME runs' = runs PROVE Shown(t)'
    BY <1>1, <1>2, <2>2
  <2> QED
    BY <1>1, <1>2, <2>1, <2>2 DEF Next, Enqueue, Push, Tick, Claim, ClaimNothing, Crash
<1>3. ASSUME NEW p \in Owner, At(p, "stamp"), work'[p] = work[p], claims'[p] = claims[p]
      PROVE  comments'[Subject(p)'] > 0
  <2>1. Subject(p)' = Subject(p)
    BY <1>3 DEF Subject, Key_
  <2>2. Subject(p) \in Trigger
    BY <1>3, Busy, ItemSubject DEF At
  <2> QED
    BY <1>3, <2>1, <2>2, CommentsStand DEF Standing
<1>4. ASSUME NEW p \in Owner, At(p, "stamp")' PROVE comments'[Subject(p)'] > 0
  <2>1. ASSUME NEW o \in Owner, Step(o) PROVE comments'[Subject(p)'] > 0
    <3>1. CASE p = o
      <4>1. claims' = claims /\ comments'[Subject(p)] > 0
        BY <1>4, <2>1, <3>1, ToStamp DEF At
      <4>2. Subject(p)' = Subject(p)
        BY <4>1 DEF Subject, Key_
      <4> QED
        BY <4>1, <4>2
    <3>2. CASE p # o
      BY <1>3, <1>4, <2>1, <3>2, OthersStand DEF At
    <3> QED
      BY <3>1, <3>2
  <2>2. ASSUME NEW o \in Owner, Crash(o) PROVE comments'[Subject(p)'] > 0
    <3>1. p # o
      BY <1>0, <1>4, <2>2 DEF Crash, Idle, At
    <3> QED
      BY <1>3, <1>4, <2>2, <3>1, OthersStand DEF At
  <2>3. ASSUME NEW o \in Owner, NEW k \in Q!Claimable, NEW refused, Claim(o, k, refused)
        PROVE  comments'[Subject(p)'] > 0
    <3>1. \E w, c : work' = [work EXCEPT ![o] = w] /\ claims' = [claims EXCEPT ![o] = c]
      BY <2>3 DEF Claim, Q!ClaimRow
    <3>2. work'[o].pc \in {"start", "item"}
      BY <1>0, <2>3 DEF Claim, Work
    <3>3. p # o
      BY <1>4, <3>2 DEF At
    <3>4. work'[p] = work[p] /\ claims'[p] = claims[p]
      BY <1>0, <3>1, <3>3
    <3> QED
      BY <1>3, <1>4, <3>4 DEF At
  <2>4. ASSUME UNCHANGED <<claims, work>> PROVE comments'[Subject(p)'] > 0
    BY <1>3, <1>4, <2>4 DEF At
  <2> QED
    BY <2>1, <2>2, <2>3, <2>4
       DEF Next, Enqueue, Q!Enqueue, Push, queueVars, Tick, Q!Tick, ClaimNothing,
           Q!ClaimNothing
<1> QED
  BY <1>2, <1>4, HeadsStep DEF Standing

\* A stamp stands for a comment, or for a decision to withhold it.
LEMMA Stood == Spec => []Standing
<1>1. Init => Standing
  BY DEF Init, NoRun, Idle, Standing, Heads, Dated, Comparing, At
<1>2. ASSUME Standing, UNCHANGED vars PROVE Standing'
  <2>1. UNCHANGED <<claims, runs, work, comments, head>>
    BY <1>2 DEF vars, world
  <2>2. \A o \in Owner : Subject(o)' = Subject(o) /\ Key_(o)' = Key_(o)
    BY <2>1 DEF Subject, Key_
  <2>3. Heads'
    BY <1>2, <2>1, <2>2 DEF Standing, Heads, Dated, Comparing
  <2> QED
    BY <1>2, <2>1, <2>2, <2>3 DEF Standing, Shown, At
<1>3. Shape /\ Standing /\ [Next]_vars => Standing'
  BY <1>2, StandingStep
<1> QED
  BY <1>1, <1>3, Shaped, PTL DEF Spec

\* What is served is answered, as far as the settings let it be.
LEMMA ServedIsAnswered ==
  ASSUME Shape, Writings, Standing, NEW t \in Trigger, Served(t)
  PROVE  Answers(t)
<1>1. Owing(t) /\ rows[PubOf[t]] \in Q!Row
  BY DEF Writings, Shape, QueueOK, RowsOK
<1>2. Final(t) => Answers(t)
  BY DEF Final, Standing, Answers
<1>3. CASE rows[PubOf[t]].status # "absent"
  BY <1>1, <1>2, <1>3 DEF Owing, Answers, Owed, Q!Row, Q!Status
<1> QED
  BY <1>2, <1>3 DEF Served

\* A review whose row is done and that no other review folded has its comment
\* on the pull request, unless the settings withhold it, or was given up on after
\* its attempts, or its publication item is still on its way or used up by
\* deaths: whatever fails in between, the pull request's answer is not forgotten
\* (worker.py's _settle_publish_and_finish, _publish_recorded and _gave_up).  A
\* lease that lapses under a live worker costs the item an attempt as well, so
\* it may then be used up without any death.
THEOREM AnswersDone ==
  ASSUME ~LiveLapse
  PROVE  Spec => []DoneIsAnswered
<1>1. ASSUME Shape, Writings, Standing PROVE DoneIsAnswered
  BY <1>1, ServedIsAnswered DEF DoneIsAnswered, Writings, Owing
<1> QED
  BY <1>1, Shaped, Written, Stood, PTL

\* A row keeps the position it was inserted at, which was the last one.
LEMMA IdsStay ==
  ASSUME Shape, Next, NEW k \in Key
  PROVE  /\ lastRow \in Nat /\ lastRow' \in Nat /\ lastRow' >= lastRow
         /\ rows[k].status # "absent" => rows'[k].id = rows[k].id
         /\ rows[k].status = "absent" /\ rows'[k].status # "absent" =>
              rows'[k].id = lastRow + 1
<1>0. /\ RowsOK /\ lastRow \in Nat /\ rows[k] \in Q!Row
      /\ \A o \in Owner : work[o] \in Work /\ Fits(claims[o], work[o])
  BY DEF Shape, QueueOK, RowsOK, WorkOK
<1>1. lastRow' \in {lastRow, lastRow + 1}
  BY <1>0 DEF Next, Enqueue, Q!Enqueue, Push, queueVars, Tick, Q!Tick, Claim, Q!ClaimRow,
     ClaimNothing, Q!ClaimNothing, Crash, Q!Forget, Step, Start, Facts, Checkout, Refuse,
     AbandonRefused, Q!Abandon, Q!Finish, Reviewed, EngineFailed, UsageLimited, Settle, Item,
     StillHolds, ReadHead, Post, Stamp, Failed, EnqueuePublication, CloseRow, Q!Complete,
     Q!Release, Q!ReleaseUnattempted, Announce, Fold, Q!Fold, Rest, Work, Verb
<1>2. Q!Swept[k].id = rows[k].id
  BY DEF Q!Swept, Q!GivenUp
<1>3. ASSUME NEW j \in Key, rows[j].status = "absent", rows' = Q!Inserted(j)
      PROVE  IF k = j THEN rows'[k].id = lastRow + 1 ELSE rows'[k] = rows[k]
  BY <1>0, <1>3 DEF Q!Inserted, RowsOK
<1>4. ASSUME NEW t \in Trigger, Enqueue(t)
      PROVE  IF k = t THEN rows[k].status = "absent" /\ rows'[k].id = lastRow + 1
             ELSE rows'[k] = rows[k]
  BY <1>3, <1>4 DEF Enqueue, Q!Enqueue, Q!Known
<1>5. CASE Tick
  <2>1. rows'[k] = [rows[k] EXCEPT !.lease = IF @ = 0 THEN 0 ELSE @ - 1]
    BY <1>5 DEF Tick, Q!Tick, Q!Aged
  <2> QED
    BY <1>0, <1>1, <2>1 DEF Q!Row
<1>6. ASSUME NEW o \in Owner, NEW j \in Q!Claimable, NEW refused, Claim(o, j, refused)
      PROVE  rows'[k].id = rows[k].id /\ (rows[k].status = "absent" => rows'[k].status = "absent")
  <2>0. rows' = Q!Leased(j, o) /\ j \in Key /\ rows[j].status # "absent"
    <3>1. Q!Offered(Q!Swept, j) /\ j \in Key
      BY DEF Q!Claimable
    <3> QED
      BY <1>0, <1>6, <3>1, SweptRows DEF Claim, Q!ClaimRow, Q!Offered, Q!Lapsed
  <2>1. k # j => rows'[k] = Q!Swept[k]
    BY <1>0, <2>0, LeasedRows
  <2>2. k = j => rows'[k].id = Q!Swept[k].id
    BY <2>0 DEF Q!Leased, Q!Swept
  <2>3. rows[k].status = "absent" => Q!Swept[k] = rows[k]
    BY <1>0, SweptRows
  <2> QED
    BY <1>2, <2>0, <2>1, <2>2, <2>3
<1>7. ASSUME NEW o \in Owner, ClaimNothing(o)
      PROVE  rows'[k].id = rows[k].id /\ (rows[k].status = "absent" => rows'[k].status = "absent")
  BY <1>0, <1>2, <1>7, SweptRows DEF ClaimNothing, Q!ClaimNothing
<1>8. ASSUME NEW o \in Owner, Step(o)
      PROVE  \/ rows'[k].id = rows[k].id /\ (rows[k].status = "absent" => rows'[k].status = "absent")
             \/ rows[k].status = "absent" /\ rows'[k].id = lastRow + 1
  <2>1. rows[k].status = "absent" => \A p \in Owner : ~Q!Owns(k, p)
    BY <1>0 DEF RowsOK, Q!Owns
  <2>2. CASE UNCHANGED rows
    BY <2>2
  <2>3. ASSUME NEW status, Key_(o) \in Key, rows' = Q!Finished(Key_(o), o, status)
        PROVE  rows'[k].id = rows[k].id
               /\ (rows[k].status = "absent" => rows'[k].status = "absent")
    BY <1>0, <2>1, <2>3 DEF Q!Finished, Q!GivenUp, RowsOK
  <2>4. CASE AbandonRefused(o)
    <3>1. Key_(o) \in Key /\ rows' = Q!Finished(Key_(o), o, "abandoned")
      BY <2>4, Busy DEF AbandonRefused, At, Q!Abandon, Q!Finish, Key_
    <3> QED
      BY <2>3, <3>1
  <2>5. CASE CloseRow(o)
    <3>1. Key_(o) \in Key /\ work[o].finish \in Verb
      BY <1>0, <2>5, Busy DEF CloseRow, At, Work
    <3>2. CASE work[o].finish = "unattempted"
      <4>1. rows' = Q!Unattempted(Key_(o), o)
        BY <2>5, <3>2 DEF CloseRow, Q!ReleaseUnattempted, Key_
      <4>2. rows'[k] = rows[k] \/ (k = Key_(o) /\ Q!Owns(k, o) /\ rows'[k] = Q!Uncounted(rows[k]))
        BY <1>0, <3>1, <4>1 DEF Q!Unattempted, RowsOK
      <4>3. Q!Uncounted(rows[k]).id = rows[k].id
        BY DEF Q!Uncounted, Q!GivenUp
      <4> QED
        BY <2>1, <4>2, <4>3
    <3>3. CASE work[o].finish # "unattempted"
      <4>1. \E status : rows' = Q!Finished(Key_(o), o, status)
        BY <2>5, <3>1, <3>3 DEF CloseRow, Verb, Q!Complete, Q!Release, Q!Abandon, Q!Finish, Key_
      <4> QED
        BY <2>3, <3>1, <4>1
    <3> QED
      BY <3>2, <3>3
  <2>6. CASE EnqueuePublication(o)
    <3>1. Key_(o) \in Trigger
      BY <1>0, <2>6 DEF Fits, OnTrigger, EnqueuePublication, At, Key_
    <3>2. rows' # rows => rows' = Q!Inserted(PubOf[Key_(o)])
                          /\ rows[PubOf[Key_(o)]].status = "absent"
      BY <2>6 DEF EnqueuePublication, Q!Enqueue, Q!Known, queueVars
    <3> QED
      BY <1>3, <2>2, <3>1, <3>2
  <2>7. CASE Fold(o)
    <3>1. rows' = Q!Folded(Q!Answered(claims[o].key, claims[o].started, work[o].head))
      BY <2>7 DEF Fold, Q!Fold
    <3> QED
      BY <3>1, AnsweredRows DEF Q!Folded, Q!GivenUp
  <2> QED
    BY <1>8, <2>2, <2>4, <2>5, <2>6, <2>7
       DEF Step, Start, Facts, Checkout, Refuse, Reviewed, EngineFailed, UsageLimited, Settle,
           Item, StillHolds, ReadHead, Post, Stamp, Failed, Announce, Rest, Q!Forget, queueVars
<1>9. ASSUME NEW o \in Owner, Crash(o) PROVE rows'[k] = rows[k]
  BY <1>9 DEF Crash, Q!Forget
<1>10. ASSUME NEW p \in Pull, NEW sha \in Sha, Push(p, sha) PROVE rows'[k] = rows[k]
  BY <1>10 DEF Push, queueVars
<1>11. lastRow' \in Nat /\ lastRow' >= lastRow
  BY <1>0, <1>1
<1> QED
  BY <1>0, <1>4, <1>5, <1>6, <1>7, <1>8, <1>9, <1>10, <1>11 DEF Next

\* A trigger is asked about a head when it is accepted, and never again.
LEMMA AskedStays ==
  ASSUME Shape, Next, NEW t \in Trigger
  PROVE  /\ rows[t].status # "absent" => asked'[t] = asked[t]
         /\ rows[t].status = "absent" /\ rows'[t].status # "absent" =>
              asked'[t] = head[PullOf[t]] /\ head' = head
<1>0. RowsOK /\ asked \in [Trigger -> Sha \cup {NoSha}]
      /\ (rows[t].status = "absent" => \A o \in Owner : ~Q!Owns(t, o))
  BY DEF Shape, QueueOK, DataOK, RowsOK, Q!Owns
<1>1. ASSUME NEW j \in Trigger, Enqueue(j), j # t PROVE asked'[t] = asked[t]
  BY <1>0, <1>1 DEF Enqueue
<1>2. ASSUME rows[t].status # "absent" PROVE ~Enqueue(t)
  BY <1>2 DEF Enqueue, Q!Enqueue, Q!Known
<1>3. asked' = asked \/ \E j \in Trigger : Enqueue(j)
  BY DEF Next, Push, world, Tick, Claim, ClaimNothing, Crash, Step, Start, Facts,
         Checkout, Refuse, AbandonRefused, Reviewed, EngineFailed, UsageLimited, Settle, Item,
         StillHolds, ReadHead, Post, Stamp, Failed, EnqueuePublication, CloseRow, Announce,
         Fold, Rest
<1>4. ASSUME rows[t].status = "absent", rows'[t].status # "absent" PROVE Enqueue(t)
  <2>1. \A o \in Owner : ~(EnqueuePublication(o) /\ t = PubOf[Key_(o)])
    <3>1. \A o \in Owner : EnqueuePublication(o) => Key_(o) \in Trigger
      BY DEF Shape, WorkOK, Fits, OnTrigger, EnqueuePublication, At, Key_
    <3> QED
      BY <3>1
  <2> QED
    BY <1>0, <1>4, <2>1, RowFates
<1>5. Enqueue(t) => asked'[t] = head[PullOf[t]] /\ head' = head
  BY <1>0 DEF Enqueue
<1> QED
  BY <1>1, <1>2, <1>3, <1>4, <1>5

\* A head that was pushed to is never again the first one.
LEMMA HeadStays ==
  ASSUME Shape, Next, NEW p \in Pull, head[p] # FirstHead
  PROVE  head'[p] # FirstHead
BY DEF Shape, DataOK, Next, Push, Enqueue, Tick, Claim, ClaimNothing, Crash, Step, Start,
       Facts, Checkout, Refuse, AbandonRefused, Reviewed, EngineFailed, UsageLimited, Settle,
       Item, StillHolds, ReadHead, Post, Stamp, Failed, EnqueuePublication, CloseRow,
       Announce, Fold, Rest

\* A worker's claim bounds what waited for it, and that was asked about then.
LEMMA CoversStays ==
  ASSUME Shape, Next, NEW o \in Owner, claims'[o] = claims[o],
         claims[o].started \in Nat, claims[o].started <= lastRow, NEW sha, Covers(o, sha)
  PROVE  Covers(o, sha)'
<1> SUFFICES ASSUME sha = FirstHead, NEW t \in Trigger, Waited(o, t)'
             PROVE  asked'[t] = FirstHead
  BY DEF Covers
<1>1. /\ rows'[t].status # "absent" /\ rows'[t].id <= claims[o].started
      /\ PullOf[t] = PullOf[Key_(o)]
  BY DEF Waited, Key_
<1>2. rows[t].status # "absent"
  <2>1. ASSUME rows[t].status = "absent" PROVE FALSE
    <3>1. rows'[t].id = lastRow + 1 /\ lastRow \in Nat
      BY <1>1, <2>1, IdsStay
    <3> QED
      BY <1>1, <3>1
  <2> QED
    BY <2>1
<1>3. rows'[t].id = rows[t].id /\ asked'[t] = asked[t]
  BY <1>2, IdsStay, AskedStays
<1> QED
  BY <1>1, <1>2, <1>3 DEF Covers, Waited

\* Where a review that was just recorded is carried along.
LEMMA ReviewCarried ==
  ASSUME Shape, Writings, NEW o \in Owner, Step(o), ~Reviewed(o),
         work'[o].reviewed \/ work'[o].pc = "fold"
  PROVE  /\ work[o].reviewed /\ work'[o].head = work[o].head /\ claims' = claims
         /\ work'[o].read = work[o].read \/ work'[o].pc = "fold"
<1>0. /\ work[o] \in Work /\ work \in [Owner -> Work] /\ Writing(o)
      /\ \A pc : Go(o, pc) =>
           /\ work'[o].pc = pc /\ work'[o].head = work[o].head
           /\ work'[o].read = work[o].read /\ work'[o].reviewed = work[o].reviewed
      /\ \A finish : Close(o, finish) =>
           /\ work'[o].pc = "verb" /\ work'[o].head = work[o].head
           /\ work'[o].read = work[o].read /\ work'[o].reviewed = work[o].reviewed
      /\ \A finish, notice : ~End(o, finish, notice)
  <2>1. ASSUME NEW finish, NEW notice, End(o, finish, notice) PROVE FALSE
    <3>1. work'[o].pc = "settle" /\ ~work'[o].reviewed
      BY <2>1, Quitting
    <3> QED
      BY <3>1
  <2> QED
    BY <2>1, Going, Closing DEF Shape, WorkOK, Writings
<1>1. Leave(o) =>
        /\ work[o].reviewed /\ work'[o].pc = "fold" /\ work'[o].head = work[o].head
  <2> SUFFICES ASSUME Leave(o)
               PROVE  work[o].reviewed /\ work'[o].pc = "fold" /\ work'[o].head = work[o].head
    OBVIOUS
  <2>1. work[o].notice \in BOOLEAN /\ work[o].reviewed \in BOOLEAN
    BY <1>0 DEF Work
  <2> QED
    BY <2>1, Leaving
<1>2. work[o].reviewed => work[o].pc \notin {"start", "facts", "checkout", "engine", "refuse",
                            "abandon", "item", "holds", "announce", "fold", "done", "idle"}
  BY <1>0 DEF Writing, Posting
<1>3. ~Start(o) /\ ~Refuse(o) /\ ~AbandonRefused(o) /\ ~StillHolds(o) /\ ~Announce(o)
      /\ ~Fold(o)
  BY <1>0, <1>1, <1>2
     DEF Start, Refuse, AbandonRefused, StillHolds, Announce, Fold, At
<1>4. ~Facts(o) /\ ~Checkout(o) /\ ~EngineFailed(o) /\ ~UsageLimited(o)
  <2>1. ASSUME Facts(o) PROVE FALSE
    <3>1. CASE work' = [work EXCEPT ![o] = [@ EXCEPT !.pc = "checkout",
                                                !.head = head[PullOf[Key_(o)]]]]
      <4>1. work'[o].pc = "checkout" /\ work'[o].reviewed = work[o].reviewed
        BY <1>0, <3>1 DEF Work
      <4> QED
        BY <1>2, <2>1, <4>1 DEF Facts, At
    <3>2. CASE work' = [work EXCEPT ![o] = [Idle EXCEPT !.pc = "refuse"]]
      <4>1. work'[o].pc = "refuse" /\ ~work'[o].reviewed
        BY <1>0, <3>2 DEF Idle
      <4> QED
        BY <4>1
    <3> QED
      BY <1>0, <2>1, <3>1, <3>2 DEF Facts, Fails
  <2>2. ASSUME Checkout(o) PROVE FALSE
    <3>1. CASE work' = [work EXCEPT ![o] = [@ EXCEPT !.pc = "engine",
                                                !.read = head[PullOf[Key_(o)]]]]
      <4>1. work'[o].pc = "engine" /\ work'[o].reviewed = work[o].reviewed
        BY <1>0, <3>1 DEF Work
      <4> QED
        BY <1>2, <2>2, <4>1 DEF Checkout, At
    <3>2. CASE work' = [work EXCEPT ![o] = [Idle EXCEPT !.pc = "refuse", !.notice = TRUE]]
      <4>1. work'[o].pc = "refuse" /\ ~work'[o].reviewed
        BY <1>0, <3>2 DEF Idle
      <4> QED
        BY <4>1
    <3> QED
      BY <1>0, <2>2, <3>1, <3>2 DEF Checkout, Fails
  <2> QED
    BY <1>0, <2>1, <2>2 DEF EngineFailed, UsageLimited, Fails
<1>5. ASSUME Item(o) PROVE FALSE
  <2>1. CASE work' = [work EXCEPT ![o] = [@ EXCEPT !.pc = "holds",
                                              !.head = runs[Subject(o)].head]]
    <3>1. work'[o].pc = "holds" /\ work'[o].reviewed = work[o].reviewed
      BY <1>0, <2>1 DEF Work
    <3> QED
      BY <1>2, <1>5, <3>1 DEF Item, At
  <2>2. CASE Close(o, "complete")
    BY <1>0, <1>2, <1>5, <2>2 DEF Item, At
  <2> QED
    BY <1>5, <2>1, <2>2 DEF Item
<1>6. CASE Settle(o)
  BY <1>0, <1>1, <1>6 DEF Settle, queueVars
<1>7. CASE ReadHead(o) \/ Post(o) \/ Stamp(o) \/ EnqueuePublication(o)
  <2>1. claims' = claims
    BY <1>7 DEF ReadHead, Post, Stamp, EnqueuePublication, Q!Enqueue, queueVars
  <2>2. (\E pc \in Phase \ {"fold"} : Go(o, pc)) \/ Close(o, "complete")
    BY <1>7 DEF ReadHead, Post, Stamp, EnqueuePublication, Phase, BeforeSettle
  <2> QED
    BY <1>0, <2>1, <2>2
<1>8. CASE Failed(o)
  <2>1. /\ work'[o].pc \in {"verb", "enqueue"} /\ work'[o].head = work[o].head
        /\ work'[o].read = work[o].read /\ work'[o].reviewed = work[o].reviewed
    BY <1>0, <1>8 DEF Failed, Work
  <2> QED
    BY <1>8, <2>1 DEF Failed, queueVars
<1>9. CASE CloseRow(o)
  <2>1. claims' = claims
    BY <1>0, <1>9 DEF CloseRow, Work, Verb, Q!Complete, Q!Release, Q!Abandon, Q!Finish,
                      Q!ReleaseUnattempted
  <2> QED
    BY <1>1, <1>9, <2>1 DEF CloseRow
<1>10. ~Rest(o)
  BY <1>0 DEF Rest, Idle
<1> QED
  BY <1>3, <1>4, <1>5, <1>6, <1>7, <1>8, <1>9, <1>10 DEF Step

\* A run that nobody is recording keeps the head it reviewed.
LEMMA RunKept ==
  ASSUME Shape, Next, NEW t \in Trigger,
         \A o \in Owner : Step(o) /\ Reviewed(o) => Key_(o) # t
  PROVE  runs'[t].head = runs[t].head /\ runs'[t].read = runs[t].read
<1>1. ASSUME NEW o \in Owner, Step(o)
      PROVE  runs'[t].head = runs[t].head /\ runs'[t].read = runs[t].read
  BY <1>1, RunsMove
<1>2. CASE \A o \in Owner : ~Step(o)
  <2>1. runs' = runs
    BY <1>2 DEF Next, Enqueue, Push, Tick, Claim, ClaimNothing, Crash
  <2> QED
    BY <2>1
<1> QED
  BY <1>1, <1>2

\* Who records a run holds its row.
LEMMA Recording ==
  ASSUME Shape, Holding, NEW o \in Owner, Reviewed(o)
  PROVE  /\ OnRow(o) /\ Key_(o) \in Trigger /\ claims' = claims
         /\ rows[Key_(o)].status = "claimed" /\ rows' = rows
<1>1. OnRow(o) /\ work[o].pc = "engine" /\ claims' = claims /\ rows' = rows
  BY DEF Reviewed, At, OnRow, Active, Phase, BeforeSettle, queueVars
<1> QED
  BY <1>1 DEF Holding, Q!Holds, Q!Live, Shape, WorkOK, Fits, OnTrigger, BeforeSettle, Key_

\* The worker that acts: what it has read, step by step.
LEMMA OwnReading ==
  ASSUME Shape, Holding, Entitlements, Writings, Readings, Next, NEW o \in Owner, Step(o)
  PROVE  Reading(o)'
<1>0. /\ work[o] \in Work /\ work \in [Owner -> Work] /\ Reading(o)
      /\ claims[o].started \in Nat /\ lastRow \in Nat /\ lastRow' \in Nat
      /\ lastRow' >= lastRow
      /\ RowsOK
  <2>1. \E t \in Key : TRUE
    BY Busy DEF Shape, QueueOK, RowsOK, Step, Start, Facts, Checkout, Refuse, AbandonRefused,
       Reviewed, EngineFailed, UsageLimited, Settle, Item, StillHolds, ReadHead, Post, Stamp,
       Failed, EnqueuePublication, CloseRow, Announce, Fold, Rest, At
  <2> QED
    BY <2>1, IdsStay DEF Shape, WorkOK, QueueOK, Readings, Q!Claim, Q!NoClaim
<1>1. claims'[o].started <= lastRow'
  <2>1. claims' = claims \/ claims'[o] = Q!NoClaim
    <3>1. CASE CloseRow(o)
      BY <1>0, <3>1 DEF CloseRow, Work, Verb, Q!Complete, Q!Release, Q!Abandon, Q!Finish,
                        Q!ReleaseUnattempted
    <3>2. CASE Rest(o)
      BY <3>2 DEF Rest, Q!Forget, Shape, QueueOK
    <3> QED
      BY <3>1, <3>2 DEF Step, Start, Facts, Checkout, Refuse, AbandonRefused, Q!Abandon,
         Q!Finish, Reviewed, EngineFailed, UsageLimited, Settle, Item, StillHolds, ReadHead,
         Post, Stamp, Failed, EnqueuePublication, Q!Enqueue, Announce, Fold, Q!Fold, queueVars
  <2> QED
    BY <1>0, <2>1 DEF Reading, Q!NoClaim
<1>2. ASSUME claims' = claims, NEW sha, Covers(o, sha) PROVE Covers(o, sha)'
  BY <1>0, <1>2, CoversStays DEF Reading
<1>3. ASSUME work'[o].pc = "engine" PROVE Covers(o, work[o].read)'
  <2>1. Key_(o) \in Trigger /\ claims' = claims
    BY <1>3, EngineBegins
  <2>2. work'[o].read = head[PullOf[Key_(o)]]
    <3>1. Checkout(o) /\ work' = [work EXCEPT ![o] = [@ EXCEPT !.pc = "engine",
                                                          !.read = head[PullOf[Key_(o)]]]]
      <4>1. ~\E pc : pc # "engine" /\ Go(o, pc)
        BY <1>3, Going
      <4>2. \A finish : ~Close(o, finish)
        BY <1>3, Closing
      <4>3. \A finish, notice : ~End(o, finish, notice)
        BY <1>3, Quitting
      <4>4. ~Leave(o)
        BY <1>0, <1>3, Leaving DEF Work
      <4>5. ~Facts(o)
        <5>1. ASSUME work' = [work EXCEPT ![o] = [@ EXCEPT !.pc = "checkout",
                                               !.head = head[PullOf[Key_(o)]]]] PROVE FALSE
          <6>1. work'[o].pc = "checkout"
            BY <1>0, <5>1 DEF Work
          <6> QED
            BY <1>3, <6>1
        <5>2. ASSUME work' = [work EXCEPT ![o] = [Idle EXCEPT !.pc = "refuse"]] PROVE FALSE
          <6>1. work'[o].pc = "refuse"
            BY <1>0, <5>2 DEF Idle
          <6> QED
            BY <1>3, <6>1
        <5> QED
          BY <4>3, <5>1, <5>2 DEF Facts, Fails
      <4>6. ~Item(o)
        <5>1. ASSUME work' = [work EXCEPT ![o] = [@ EXCEPT !.pc = "holds",
                                               !.head = runs[Subject(o)].head]] PROVE FALSE
          <6>1. work'[o].pc = "holds"
            BY <1>0, <5>1 DEF Work
          <6> QED
            BY <1>3, <6>1
        <5> QED
          BY <4>2, <5>1 DEF Item
      <4>7. ~Failed(o) /\ ~Reviewed(o) /\ ~Rest(o)
        <5>1. ~Failed(o)
          <6>1. Failed(o) => work'[o].pc \in {"verb", "enqueue"}
            BY <1>0 DEF Failed, Work
          <6> QED
            BY <1>3, <6>1
        <5>2. Reviewed(o) => work'[o].pc = "settle"
          BY <1>0 DEF Reviewed, Idle
        <5>3. Rest(o) => work'[o].pc = "idle"
          BY <1>0 DEF Rest, Idle
        <5> QED
          BY <1>3, <5>1, <5>2, <5>3
      <4>8. Checkout(o)
        BY <4>1, <4>2, <4>3, <4>4, <4>5, <4>6, <4>7
           DEF Step, Start, Refuse, AbandonRefused, EngineFailed, UsageLimited, Fails, Settle,
               StillHolds, ReadHead, Post, Stamp, EnqueuePublication, CloseRow, Announce, Fold
      <4>9. ASSUME work' = [work EXCEPT ![o] = [Idle EXCEPT !.pc = "refuse", !.notice = TRUE]] PROVE FALSE
        <5>1. work'[o].pc = "refuse"
          BY <1>0, <4>9 DEF Idle
        <5> QED
          BY <1>3, <5>1
      <4> QED
        BY <4>3, <4>8, <4>9 DEF Checkout, Fails
    <3> QED
      BY <1>0, <3>1 DEF Work
  <2>3. PICK sha : sha = work'[o].read
    OBVIOUS
  <2>4. Covers(o, sha)
    <3> SUFFICES ASSUME head[PullOf[Key_(o)]] = FirstHead, NEW t \in Trigger, Waited(o, t)
                 PROVE  asked[t] = FirstHead
      BY <2>2, <2>3 DEF Covers
    <3> QED
      BY DEF Waited, Readings
  <2>5. Covers(o, sha)'
    BY <1>2, <2>1, <2>4
  <2> QED
    BY <2>3, <2>5 DEF Covers
<1>4. ASSUME work'[o].reviewed \/ work'[o].pc = "fold"
      PROVE  (runs[Key_(o)].head = work[o].head /\ Covers(o, runs[Key_(o)].read))'
  <2>1. CASE Reviewed(o)
    <3>1. /\ Key_(o) \in Trigger /\ Key_(o)' = Key_(o) /\ claims' = claims
          /\ work[o].pc = "engine"
      BY <2>1, Recording DEF Key_, Reviewed, At
    <3>2. work'[o].head = work[o].head
      BY <1>0, <2>1 DEF Reviewed, Idle
    <3>3. runs'[Key_(o)].head = work[o].head /\ runs'[Key_(o)].read = work[o].read
      BY <2>1, <3>1 DEF Reviewed, Shape, DataOK, Run
    <3>4. PICK sha : sha = work[o].read
      OBVIOUS
    <3>5. Covers(o, sha)
      BY <1>0, <3>1, <3>4 DEF Reading
    <3>6. Covers(o, sha)'
      BY <1>2, <3>1, <3>5
    <3> QED
      BY <3>1, <3>2, <3>3, <3>4, <3>6 DEF Covers
  <2>2. CASE ~Reviewed(o)
    <3>1. work[o].reviewed /\ work'[o].head = work[o].head /\ claims' = claims
      BY <1>4, <2>2, ReviewCarried
    <3>2. Key_(o) \in Trigger /\ Key_(o)' = Key_(o)
      BY <3>1 DEF Shape, WorkOK, Fits, Key_
    <3>3. ASSUME NEW p \in Owner, Reviewed(p), Step(p), p # o PROVE FALSE
      <4>1. work'[o] = work[o] /\ work'[p] # work[p]
        <5>1. work[p].pc = "engine" /\ work'[p].pc = "settle"
          BY <3>3 DEF Reviewed, At, Idle, Shape, WorkOK
        <5> QED
          BY <3>3, <5>1, OthersStand
      <4>2. work'[p] = work[p]
        BY <3>3, OthersStand
      <4> QED
        BY <4>1, <4>2
    <3>4. runs'[Key_(o)].head = runs[Key_(o)].head /\ runs'[Key_(o)].read = runs[Key_(o)].read
      BY <2>2, <3>2, <3>3, RunKept
    <3>5. PICK sha : sha = runs[Key_(o)].read
      OBVIOUS
    <3>6. Covers(o, sha) /\ runs[Key_(o)].head = work[o].head
      BY <1>0, <3>1, <3>5 DEF Reading
    <3>7. Covers(o, sha)'
      BY <1>2, <3>1, <3>6
    <3> QED
      BY <3>1, <3>2, <3>4, <3>5, <3>6, <3>7 DEF Covers
  <2> QED
    BY <2>1, <2>2
<1> QED
  BY <1>1, <1>3, <1>4 DEF Reading

\* What the others have read stands.
LEMMA OthersReading ==
  ASSUME Shape, Holding, Writings, Readings, Next, NEW p \in Owner,
         work'[p] = work[p], claims'[p] = claims[p]
  PROVE  Reading(p)'
<1>0. /\ Reading(p) /\ Writing(p) /\ Fits(claims[p], work[p])
      /\ Key_(p)' = Key_(p)
      /\ claims[p].started \in Nat /\ lastRow \in Nat /\ lastRow' \in Nat
      /\ lastRow' >= lastRow
  <2>1. claims[p].started \in Nat /\ lastRow \in Nat
    BY DEF Shape, QueueOK, Q!Claim, Q!NoClaim
  <2>2. lastRow' \in {lastRow, lastRow + 1}
    <3>1. ASSUME NEW o \in Owner, Step(o) PROVE lastRow' \in {lastRow, lastRow + 1}
      <4>1. work[o].finish \in Verb
        BY DEF Shape, WorkOK, Work
      <4> QED
        BY <3>1, <4>1 DEF Step, Start, Facts, Checkout, Refuse, AbandonRefused, Q!Abandon,
         Q!Finish, Reviewed, EngineFailed, UsageLimited, Settle, Item, StillHolds, ReadHead,
         Post, Stamp, Failed, EnqueuePublication, Q!Enqueue, Announce, Fold, Q!Fold, queueVars,
         CloseRow, Q!Complete, Q!Release, Q!ReleaseUnattempted, Rest, Q!Forget, Verb
    <3> QED
      BY <3>1 DEF Next, Enqueue, Q!Enqueue, Push, queueVars, Tick, Q!Tick, Claim, Q!ClaimRow,
        ClaimNothing, Q!ClaimNothing, Crash, Q!Forget
  <2> QED
    BY <2>1, <2>2 DEF Readings, Writings, Shape, WorkOK, Key_
<1>1. ASSUME NEW sha, Covers(p, sha) PROVE Covers(p, sha)'
  BY <1>0, <1>1, CoversStays DEF Reading
<1>2. ASSUME work[p].pc = "engine" PROVE Covers(p, work[p].read)'
  <2>1. PICK sha : sha = work[p].read
    OBVIOUS
  <2>2. Covers(p, sha)'
    BY <1>0, <1>1, <1>2, <2>1 DEF Reading
  <2> QED
    BY <2>1, <2>2 DEF Covers
<1>3. ASSUME work[p].reviewed \/ work[p].pc = "fold"
      PROVE  (runs[Key_(p)].head = work[p].head /\ Covers(p, runs[Key_(p)].read))'
  <2>1. Key_(p) \in Trigger
    BY <1>0, <1>3 DEF Fits, OnTrigger, Key_
  <2>2. ASSUME NEW o \in Owner, Step(o), Reviewed(o), Key_(o) = Key_(p) PROVE FALSE
    <3>1. OnRow(o) /\ rows[Key_(o)].status = "claimed"
      BY <2>2, Recording
    <3>2. o # p
      <4>1. work[o].pc = "engine" /\ work'[o].pc = "settle"
        BY <2>2 DEF Reviewed, At, Idle, Shape, WorkOK
      <4> QED
        BY <4>1
    <3>3. CASE work[p].pc = "fold"
      BY <1>0, <2>2, <3>1, <3>3 DEF Writing
    <3>4. CASE work[p].reviewed
      <4>1. OnRow(p)
        BY <1>0, <3>4 DEF Writing, Posting, OnRow, Active, Phase, BeforeSettle
      <4> QED
        BY <2>2, <3>1, <3>2, <4>1, Alone
    <3> QED
      BY <1>3, <3>3, <3>4
  <2>3. runs'[Key_(p)].head = runs[Key_(p)].head /\ runs'[Key_(p)].read = runs[Key_(p)].read
    BY <2>1, <2>2, RunKept
  <2>4. PICK sha : sha = runs[Key_(p)].read
    OBVIOUS
  <2>5. Covers(p, sha) /\ runs[Key_(p)].head = work[p].head
    BY <1>0, <1>3, <2>4 DEF Reading
  <2>6. Covers(p, sha)'
    BY <1>1, <2>5
  <2> QED
    BY <1>0, <2>3, <2>4, <2>5, <2>6 DEF Covers
<1>4. claims'[p].started <= lastRow'
  BY <1>0 DEF Reading
<1> QED
  BY <1>2, <1>3, <1>4 DEF Reading

\* What was folded was answered, and stays so.
LEMMA FoldedStep ==
  ASSUME Shape, Shape', Holding, Writings, Readings, Next, NEW t \in Trigger,
         foldedBy'[t] # NoKey
  PROVE  FoldedOK(t)'
<1>f. PICK f \in Trigger : f = foldedBy'[t]
  BY DEF Shape, DataOK
<1>0. /\ RowsOK /\ t \in Key /\ f \in Key /\ f # NoKey
      /\ foldedBy[t] = f => FoldedOK(t)
  BY <1>f DEF Shape, QueueOK, DataOK, Readings
<1>1. ASSUME rows[f].status = "done"
      PROVE  /\ rows'[f].status = "done"
             /\ runs'[f].head = runs[f].head /\ runs'[f].read = runs[f].read
  <2>1. \A o \in Owner : Step(o) /\ Reviewed(o) => Key_(o) # f
    BY <1>1, Recording
  <2> QED
    BY <1>0, <1>1, <2>1, ClosedStays, RunKept
<1>2. CASE foldedBy'[t] = foldedBy[t]
  <2>1. /\ rows[t].status = "done" /\ rows[f].status = "done" /\ Served(f)
        /\ runs[f].read = FirstHead => asked[t] = FirstHead
    BY <1>f, <1>0, <1>2 DEF FoldedOK
  <2>2. rows'[t].status = "done" /\ asked'[t] = asked[t]
    BY <1>0, <2>1, ClosedStays, AskedStays
  <2>3. Served(f)'
    BY <1>0, <2>1, ServedStays DEF Served, Final, GaveUp
  <2> QED
    BY <1>f, <1>1, <2>1, <2>2, <2>3 DEF FoldedOK, Served, Final, GaveUp
<1>3. CASE foldedBy'[t] # foldedBy[t]
  <2>1. PICK o \in Owner :
          /\ Fold(o) /\ f = Key_(o)
          /\ t \in Q!Answered(claims[o].key, claims[o].started, work[o].head)
    BY <1>f, <1>3, FoldedRecords
  <2>2. /\ work[o].pc = "fold" /\ runs' = runs /\ asked' = asked
        /\ rows' = Q!Folded(Q!Answered(claims[o].key, claims[o].started, work[o].head))
    BY <2>1 DEF Fold, At, Q!Fold
  <2>3. /\ Served(f) /\ rows[f].status = "done"
        /\ runs[f].head = work[o].head /\ Covers(o, runs[f].read)
    BY <2>1, <2>2 DEF Writings, Writing, Readings, Reading
  <2>4. Waited(o, t)
    BY <2>1 DEF Q!Answered, Waited, Key_
  <2>5. rows'[t].status = "done"
    BY <1>0, <2>1, <2>2 DEF Q!Folded, Q!GivenUp
  <2>6. runs[f].read = FirstHead => asked[t] = FirstHead
    BY <2>3, <2>4 DEF Covers
  <2>7. Served(f)'
    BY <1>0, <2>3, ServedStays DEF Served, Final, GaveUp
  <2> QED
    BY <1>f, <1>1, <2>2, <2>3, <2>4, <2>5, <2>6, <2>7 DEF FoldedOK, Served, Final, GaveUp
<1> QED
  BY <1>2, <1>3

\* Every step keeps what was read.
LEMMA ReadingsStep ==
  ASSUME Shape, Shape', Holding, Entitlements, Writings, Readings, Next
  PROVE  Readings'
<1>0. /\ work \in [Owner -> Work] /\ claims \in [Owner -> Q!Claim \cup {Q!NoClaim}]
      /\ lastRow' \in Nat
      /\ \A o \in Owner : work[o] \in Work /\ Reading(o) /\ Writing(o)
  BY DEF Shape, WorkOK, QueueOK, Writings, Readings
<1>1. ASSUME NEW o \in Owner, Step(o), NEW p \in Owner PROVE Reading(p)'
  BY <1>1, OwnReading, OthersReading, OthersStand
<1>2. ASSUME NEW o \in Owner, Crash(o), NEW p \in Owner PROVE Reading(p)'
  <2>1. CASE p = o
    <3>1. /\ work'[o].pc = "idle" /\ ~work'[o].reviewed /\ claims'[o].started = 0
      BY <1>0, <1>2 DEF Crash, Idle, Q!Forget, Q!NoClaim
    <3>2. claims'[o].started <= lastRow'
      BY <1>0, <3>1
    <3> QED
      BY <2>1, <3>1, <3>2 DEF Reading
  <2>2. CASE p # o
    BY <1>2, <2>2, OthersStand, OthersReading
  <2> QED
    BY <2>1, <2>2
<1>3. ASSUME NEW o \in Owner, NEW k \in Q!Claimable, NEW refused, Claim(o, k, refused),
             NEW p \in Owner
      PROVE  Reading(p)'
  <2> DEFINE w == [work[o] EXCEPT !.pc = IF k \in Trigger THEN "start" ELSE "item",
                           !.last = k \in Trigger /\ rows'[k].attempts = MaxAttempts]
             c == [key |-> k, started |-> lastRow]
  <2>1. work' = [work EXCEPT ![o] = w] /\ ~work[o].reviewed
        /\ claims' = [claims EXCEPT ![o] = c] /\ lastRow' = lastRow
    BY <1>0, <1>3 DEF Claim, Q!ClaimRow, Writing, At, Posting
  <2>2. w.pc \in {"start", "item"} /\ w.reviewed = work[o].reviewed /\ c.started = lastRow
    BY <1>0 DEF Work
  <2> HIDE DEF w, c
  <2>3. CASE p = o
    <3>1. /\ work'[o].pc \in {"start", "item"} /\ ~work'[o].reviewed
          /\ claims'[o].started = lastRow'
      BY <1>0, <2>1, <2>2
    <3>2. claims'[o].started <= lastRow'
      BY <1>0, <3>1
    <3> QED
      BY <2>3, <3>1, <3>2 DEF Reading
  <2>4. CASE p # o
    <3>1. work'[p] = work[p] /\ claims'[p] = claims[p]
      BY <1>0, <2>1, <2>4
    <3> QED
      BY <3>1, OthersReading
  <2> QED
    BY <2>3, <2>4
<1>4. ASSUME UNCHANGED <<claims, work>>, NEW p \in Owner PROVE Reading(p)'
  BY <1>4, OthersReading
<1>5. \A p \in Owner : Reading(p)'
  BY <1>1, <1>2, <1>3, <1>4
     DEF Next, Enqueue, Q!Enqueue, Push, queueVars, Tick, Q!Tick, ClaimNothing, Q!ClaimNothing
<1>6. ASSUME NEW t \in Trigger, rows'[t].status # "absent"
      PROVE  asked'[t] = FirstHead \/ head'[PullOf[t]] # FirstHead
  <2>1. CASE rows[t].status = "absent"
    BY <1>6, <2>1, AskedStays
  <2>2. CASE rows[t].status # "absent"
    BY <2>2, AskedStays, HeadStays DEF Readings
  <2> QED
    BY <2>1, <2>2
<1>7. \A t \in Trigger : foldedBy'[t] # NoKey => FoldedOK(t)'
  BY FoldedStep
<1> QED
  BY <1>5, <1>6, <1>7 DEF Readings

\* While no lease lapses under a live worker, what is read covers what waited.
LEMMA Read ==
  ASSUME ~LiveLapse
  PROVE  Spec => []Readings
<1>1. Init => Readings
  <2> SUFFICES ASSUME Init PROVE Readings
    OBVIOUS
  <2>1. \A o \in Owner : Reading(o)
    BY DEF Init, Q!Init, Q!NoClaim, Idle, Reading
  <2>2. \A t \in Trigger : rows[t].status = "absent" /\ foldedBy[t] = NoKey
    BY DEF Init, Q!Init, Q!NoRow
  <2> QED
    BY <2>1, <2>2 DEF Readings
<1>2. ASSUME Readings, UNCHANGED vars PROVE Readings'
  <2>1. UNCHANGED <<rows, lastRow, claims, runs, work, head, asked, foldedBy>>
    BY <1>2 DEF vars, world
  <2>2. \A o \in Owner : Reading(o)' = Reading(o)
    BY <2>1 DEF Reading, Covers, Waited, Key_
  <2>3. \A t \in Trigger : FoldedOK(t)' = FoldedOK(t)
    BY <2>1 DEF FoldedOK, Final, Served, GaveUp
  <2> QED
    BY <1>2, <2>1, <2>2, <2>3 DEF Readings
<1>3. Shape /\ Shape' /\ Holding /\ Entitlements /\ Writings /\ Readings /\ [Next]_vars
        => Readings'
  BY <1>2, ReadingsStep
<1> QED
  BY <1>1, <1>3, Shaped, Held, Entitlement, Written, PTL DEF Spec

\* A trigger that was folded has its answer in the review that folded it: its
\* comment stands, unless the settings withhold it, or it was given up on, or an
\* item owes it or was used up by deaths.  And what that review recorded has read
\* the code no earlier than the trigger was accepted (queue.py's fold, whose
\* `before' says which rows a review answers for; that it read the very commit a
\* trigger names is not so, as worker.py records another head than it reads).
THEOREM AnswersFolded ==
  ASSUME ~LiveLapse
  PROVE  Spec => []FoldedIsAnswered
<1>1. ASSUME Shape, Writings, Standing, Readings PROVE FoldedIsAnswered
  <2> SUFFICES ASSUME NEW t \in Trigger, foldedBy[t] # NoKey
               PROVE  /\ Answers(foldedBy[t])
                      /\ runs[foldedBy[t]].read = FirstHead => asked[t] = FirstHead
    BY DEF FoldedIsAnswered
  <2>1. FoldedOK(t) /\ foldedBy[t] \in Trigger
    BY <1>1 DEF Readings, Shape, DataOK
  <2>2. Answers(foldedBy[t])
    BY <1>1, <2>1, ServedIsAnswered DEF FoldedOK
  <2> QED
    BY <2>1, <2>2 DEF FoldedOK
<1> QED
  BY <1>1, Shaped, Written, Stood, Read, PTL

\* Nobody else is on a row of the same run: neither its trigger's nor its
\* publication item's.
LEMMA AloneOn ==
  ASSUME Shape, Holding, NEW o \in Owner, NEW p \in Owner, OnRow(o), OnRow(p),
         Subject(o) = Subject(p)
  PROVE  o = p
<1>1. ASSUME NEW q \in Owner, OnRow(q)
      PROVE  Subject(q) \in Trigger /\ PullOf[Key_(q)] = PullOf[Subject(q)]
  <2>1. Key_(q) \in Key
    BY <1>1, Busy DEF OnRow, Active, At
  <2> QED
    BY <2>1, ItemSubject
<1> QED
  BY <1>1, Alone

\* Only a worker on a row of the run has a hand in its ledger.
LEMMA Hands ==
  ASSUME Shape, NEW p \in Owner, NEW t \in Trigger,
         At(p, "stamp") \/ At(p, "verb"), Key_(p) \in {t, PubOf[t]}
  PROVE  Subject(p) = t
<1>1. Key_(p) \in Key
  BY Busy DEF At
<1> QED
  BY <1>1, ItemSubject

\* A ledger stands while nobody posts, and nobody who put its comment up leaves
\* the stamp or the verb.
LEMMA LedgerStands ==
  ASSUME Shape, Next, NEW t \in Trigger, Ledger(t), NEW o \in Owner,
         \A p \in Owner \ {o} : work'[p] = work[p] /\ claims'[p] = claims[p],
         comments'[t] = comments[t], cut'[t] = cut[t],
         Subject(o) = t => ~(At(o, "stamp") \/ (At(o, "verb") /\ work[o].reviewed)),
         rows'[PubOf[t]].status # "absent" => rows[PubOf[t]].status # "absent"
  PROVE  Ledger(t)'
<1>0. /\ comments[t] \in Nat /\ cut[t] \in Nat
      /\ runs[t].stamped => runs'[t].stamped
      /\ rows'[t].status \notin {"done", "abandoned"} =>
           rows[t].status \notin {"done", "abandoned"}
  BY FinalStays, ClosedStays DEF Shape, DataOK
<1>1. Up(t) => Up(t)'
  <2>1. ASSUME NEW p \in Owner, At(p, "stamp"), Subject(p) = t
        PROVE  At(p, "stamp")' /\ Subject(p)' = t
    <3>1. p # o
      BY <2>1
    <3> QED
      BY <2>1, <3>1 DEF At, Subject, Key_
  <2> QED
    BY <1>0, <2>1 DEF Up
<1>2. ItemUp(t) => ItemUp(t)'
  <2>1. ASSUME NEW p \in Owner, At(p, "stamp"), Key_(p) = PubOf[t]
        PROVE  At(p, "stamp")' /\ Key_(p)' = PubOf[t]
    <3>1. p # o
      BY <2>1, Hands
    <3> QED
      BY <2>1, <3>1 DEF At, Key_
  <2> QED
    BY <2>1 DEF ItemUp
<1>3. Late(t) => Late(t)'
  <2>1. ASSUME NEW p \in Owner, Key_(p) = t,
               At(p, "stamp") \/ (At(p, "verb") /\ work[p].reviewed)
        PROVE  Key_(p)' = t /\ (At(p, "stamp") \/ (At(p, "verb") /\ work[p].reviewed))'
    <3>1. p # o
      BY <2>1, Hands
    <3> QED
      BY <2>1, <3>1 DEF At, Key_
  <2> QED
    BY <2>1 DEF Late
<1>4. One(Up(t)) <= One(Up(t))' /\ One(Late(t)) <= One(Late(t))'
      /\ {One(Up(t)), One(Up(t))', One(Late(t)), One(Late(t))'} \subseteq {0, 1}
  BY <1>1, <1>3 DEF One
<1>5. comments[t] <= cut[t] + One(Up(t)) => comments'[t] <= cut'[t] + One(Up(t))'
  BY <1>0, <1>4
<1>6. comments[t] <= cut[t] + One(Late(t)) => comments'[t] <= cut'[t] + One(Late(t))'
  BY <1>0, <1>4
<1>7. comments[t] + 1 <= cut[t] + One(Late(t)) =>
        comments'[t] + 1 <= cut'[t] + One(Late(t))'
  BY <1>0, <1>4
<1> QED
  BY <1>0, <1>2, <1>5, <1>6, <1>7 DEF Ledger

\* A worker on a row of the run keeps everyone else out of its ledger.
LEMMA OnlyHand ==
  ASSUME Shape, Holding, NEW o \in Owner, OnRow(o), NEW t \in Trigger, Subject(o) = t
  PROVE  /\ Up(t) <=> runs[t].stamped \/ At(o, "stamp")
         /\ ItemUp(t) <=> At(o, "stamp") /\ Key_(o) = PubOf[t]
         /\ Late(t) <=> Key_(o) = t /\ (At(o, "stamp") \/ (At(o, "verb") /\ work[o].reviewed))
<1>1. ASSUME NEW p \in Owner, At(p, "stamp") \/ At(p, "verb"), Subject(p) = t PROVE p = o
  <2>1. OnRow(p)
    BY <1>1 DEF OnRow, Active, Phase, BeforeSettle, At
  <2> QED
    BY <1>1, <2>1, AloneOn
<1>2. \A p \in Owner : (At(p, "stamp") \/ At(p, "verb")) /\ Key_(p) \in {t, PubOf[t]} =>
        Subject(p) = t
  BY Hands
<1>3. Up(t) <=> runs[t].stamped \/ At(o, "stamp")
  BY <1>1 DEF Up
<1>4. ItemUp(t) <=> At(o, "stamp") /\ Key_(o) = PubOf[t]
  BY <1>1, <1>2 DEF ItemUp
<1>5. Late(t) <=> Key_(o) = t /\ (At(o, "stamp") \/ (At(o, "verb") /\ work[o].reviewed))
  BY <1>1, <1>2 DEF Late
<1> QED
  BY <1>3, <1>4, <1>5

\* What a worker's step does to comments and to posts that were cut short.
LEMMA Posts ==
  ASSUME Shape, NEW o \in Owner, Step(o), NEW t \in Trigger
  PROVE  \/ comments'[t] = comments[t] /\ cut'[t] = cut[t]
         \/ /\ Post(o) /\ Subject(o) = t /\ comments'[t] = comments[t] + 1
            /\ rows' = rows /\ runs' = runs /\ claims' = claims
            /\ \/ cut'[t] = cut[t] /\ work'[o].pc = "stamp"
                  /\ work'[o].reviewed = work[o].reviewed
               \/ cut'[t] = cut[t] + 1 /\ work'[o].pc = "failed"
<1>0. comments \in [Trigger -> Nat] /\ cut \in [Trigger -> Nat]
  BY DEF Shape, DataOK
<1>1. CASE Post(o)
  <2>1. PICK w \in C!Writes :
          /\ Go(o, IF w.heard THEN "stamp" ELSE "failed")
          /\ comments' = [comments EXCEPT ![Subject(o)] = @ + w.times]
          /\ cut' = IF w.times > 0 /\ ~w.heard THEN [cut EXCEPT ![Subject(o)] = @ + 1] ELSE cut
    BY <1>1 DEF Post
  <2>2. /\ w.times \in {0, 1} /\ w.heard \in BOOLEAN /\ (w.heard => w.times = 1)
        /\ w.times = 1 => w.times > 0
    BY WritesOnce
  <2>3. /\ work'[o].pc = IF w.heard THEN "stamp" ELSE "failed"
        /\ work'[o].reviewed = work[o].reviewed
    BY <2>1, Going
  <2>4. rows' = rows /\ runs' = runs /\ claims' = claims
    BY <1>1 DEF Post, queueVars
  <2>5. CASE Subject(o) # t
    BY <1>0, <2>1, <2>5
  <2>6. CASE Subject(o) = t /\ w.times = 0
    BY <1>0, <2>1, <2>2, <2>6
  <2>7. CASE Subject(o) = t /\ w.times = 1
    BY <1>0, <1>1, <2>1, <2>2, <2>3, <2>4, <2>7
  <2> QED
    BY <2>2, <2>5, <2>6, <2>7
<1>2. CASE ~Post(o)
  <2>1. comments' = comments /\ cut' = cut
    BY <1>2 DEF Step, Start, Facts, Checkout, Refuse, AbandonRefused, Reviewed, EngineFailed,
       UsageLimited, Settle, Item, StillHolds, ReadHead, Stamp, Failed, EnqueuePublication,
       CloseRow, Announce, Fold, Rest, world
  <2> QED
    BY <2>1
<1> QED
  BY <1>1, <1>2

\* The ledger of the run that is posted.
LEMMA PostLedger ==
  ASSUME Shape, Holding, Writings, Ledgers, Next, NEW o \in Owner, Step(o), Post(o),
         NEW t \in Trigger, Subject(o) = t, comments'[t] = comments[t] + 1
  PROVE  Ledger(t)'
<1>0. /\ OnRow(o) /\ Key_(o) \in Key /\ Ledger(t) /\ comments[t] \in Nat /\ cut[t] \in Nat
      /\ At(o, "post") /\ rows[Key_(o)].status = "claimed"
      /\ Key_(o) \in Trigger => work[o].reviewed
  <2>1. OnRow(o) /\ At(o, "post")
    BY DEF Post, At, OnRow, Active, Phase
  <2>2. Key_(o) \in Key
    BY <2>1, Busy DEF At
  <2> QED
    BY <2>1, <2>2 DEF Holding, Q!Holds, Q!Live, Ledgers, Shape, DataOK, Writings, Writing,
       Posting, At
<1>1. /\ rows' = rows /\ runs' = runs /\ claims' = claims
      /\ \/ cut'[t] = cut[t] /\ work'[o].pc = "stamp" /\ work'[o].reviewed = work[o].reviewed
         \/ cut'[t] = cut[t] + 1 /\ work'[o].pc = "failed"
  <2>1. comments'[t] # comments[t]
    BY <1>0
  <2> QED
    BY <2>1, Posts
<1>2. ~ItemUp(t) /\ ~Late(t) /\ (Up(t) <=> runs[t].stamped)
  BY <1>0, OnlyHand DEF At
<1>3. comments[t] <= cut[t]
  <2>1. CASE Key_(o) \in Trigger
    <3>1. comments[t] <= cut[t] + One(Late(t))
      BY <1>0, <2>1, ItemSubject DEF Ledger
    <3>2. One(Late(t)) = 0
      BY <1>2 DEF One
    <3> QED
      BY <1>0, <3>1, <3>2
  <2>2. CASE Key_(o) \notin Trigger
    <3>1. ~runs[t].stamped
      BY <1>0, <2>2 DEF Ledgers, IsItem, At
    <3>2. One(Up(t)) = 0
      BY <1>2, <3>1 DEF One
    <3> QED
      BY <1>0, <3>2 DEF Ledger
  <2> QED
    BY <2>1, <2>2
<1>4. ASSUME rows[t].status \notin {"done", "abandoned"}, rows[PubOf[t]].status # "absent",
             ~runs[t].stamped
      PROVE  comments[t] + 1 <= cut[t]
  <2>1. One(Late(t)) = 0
    BY <1>2 DEF One
  <2> QED
    BY <1>0, <1>2, <1>4, <2>1 DEF Ledger
<1>5. CASE cut'[t] = cut[t] + 1
  <2>1. One(Up(t)') \in {0, 1} /\ One(Late(t)') \in {0, 1}
    BY DEF One
  <2>2. comments'[t] <= cut'[t] + One(Up(t)') /\ comments'[t] <= cut'[t] + One(Late(t)')
    BY <1>0, <1>3, <1>5, <2>1
  <2>3. comments[t] + 1 <= cut[t] => comments'[t] + 1 <= cut'[t] + One(Late(t)')
    BY <1>0, <1>5, <2>1
  <2> QED
    BY <1>1, <1>4, <2>2, <2>3 DEF Ledger, One
<1>6. CASE cut'[t] = cut[t] /\ work'[o].pc = "stamp" /\ work'[o].reviewed = work[o].reviewed
  <2>0. At(o, "stamp")' /\ Subject(o)' = t /\ Key_(o)' = Key_(o)
    BY <1>1, <1>6 DEF At, Subject, Key_
  <2>1. One(Up(t)') = 1 /\ One(Late(t)') \in {0, 1}
    BY <2>0 DEF One, Up
  <2>2. comments'[t] <= cut'[t] + One(Up(t)')
    BY <1>0, <1>3, <1>6, <2>1
  <2>3. CASE Key_(o) \in Trigger
    <3>1. One(Late(t)') = 1
      BY <1>0, <2>0, <2>3, ItemSubject DEF One, Late
    <3>2. comments'[t] <= cut'[t] + One(Late(t)')
      BY <1>0, <1>3, <1>6, <3>1
    <3>3. comments[t] + 1 <= cut[t] => comments'[t] + 1 <= cut'[t] + One(Late(t)')
      BY <1>0, <1>6, <3>1
    <3> QED
      BY <1>1, <1>4, <2>2, <3>2, <3>3 DEF Ledger, One
  <2>4. CASE Key_(o) \notin Trigger
    <3>1. Key_(o) = PubOf[t] /\ ItemUp(t)'
      BY <1>0, <2>0, <2>4, ItemSubject DEF ItemUp
    <3>2. rows[PubOf[t]].status # "absent" /\ ~runs[t].stamped
      BY <1>0, <2>4, <3>1 DEF Ledgers, IsItem, At
    <3>3. rows[t].status \notin {"done", "abandoned"} => comments'[t] <= cut'[t] + One(Late(t)')
      BY <1>0, <1>4, <1>6, <2>1, <3>2
    <3> QED
      BY <1>1, <2>2, <3>1, <3>3 DEF Ledger, One
  <2> QED
    BY <2>3, <2>4
<1> QED
  BY <1>1, <1>5, <1>6

\* The ledger of the run that is stamped, after its post or without one.
LEMMA StampLedger ==
  ASSUME Shape, Holding, Writings, Ledgers, Next, NEW o \in Owner, Step(o), Stamp(o),
         NEW t \in Trigger, Subject(o) = t
  PROVE  Ledger(t)'
<1>0. /\ OnRow(o) /\ Key_(o) \in Key /\ Ledger(t) /\ comments[t] \in Nat /\ cut[t] \in Nat
      /\ At(o, "stamp") /\ (Key_(o) \in Trigger => work[o].reviewed)
      /\ runs \in [Trigger -> Run]
  <2>1. OnRow(o) /\ At(o, "stamp")
    BY DEF Stamp, At, OnRow, Active, Phase
  <2>2. Key_(o) \in Key
    BY <2>1, Busy DEF At
  <2> QED
    BY <2>1, <2>2 DEF Ledgers, Shape, DataOK, Writings, Writing, Posting, At
<1>1. /\ rows' = rows /\ claims' = claims /\ comments' = comments /\ cut' = cut
      /\ work'[o].pc = "verb" /\ work'[o].reviewed = work[o].reviewed
      /\ runs' = Stamped(t)
  BY Closing DEF Stamp, queueVars, world
<1>2. runs'[t].stamped
  <2>1. Stamped(t)[t].stamped
    BY <1>0 DEF Stamped, Run
  <2> QED
    BY <1>1, <2>1
<1>3. comments'[t] <= cut'[t] + One(Up(t)')
  <2>1. One(Up(t)') = 1 /\ One(Up(t)) \in {0, 1} /\ comments[t] <= cut[t] + One(Up(t))
    BY <1>0, <1>2 DEF One, Up, Ledger
  <2> QED
    BY <1>0, <1>1, <2>1
<1>4. ASSUME rows[t].status \notin {"done", "abandoned"}
      PROVE  comments'[t] <= cut'[t] + One(Late(t)')
  <2>1. comments[t] <= cut[t] + One(Late(t)) /\ One(Late(t)) \in {0, 1}
    BY <1>0, <1>4 DEF Ledger, One
  <2>2. CASE Key_(o) \in Trigger
    <3>1. Key_(o)' = t /\ At(o, "verb")' /\ work'[o].reviewed
      BY <1>0, <1>1, <2>2, ItemSubject DEF Key_, At
    <3>2. One(Late(t)') = 1
      BY <3>1 DEF One, Late
    <3> QED
      BY <1>0, <1>1, <2>1, <3>2
  <2>3. CASE Key_(o) \notin Trigger
    <3>1. One(Late(t)) = 0 /\ One(Late(t)') \in {0, 1}
      BY <1>0, <2>3, OnlyHand DEF One
    <3> QED
      BY <1>0, <1>1, <2>1, <3>1
  <2> QED
    BY <2>2, <2>3
<1> QED
  BY <1>1, <1>2, <1>3, <1>4 DEF Ledger

\* The ledger of the run whose post failed and is left to an item.
LEMMA EnqueueLedger ==
  ASSUME Shape, Holding, Writings, Ledgers, Next, NEW o \in Owner, Step(o),
         EnqueuePublication(o), NEW t \in Trigger, Subject(o) = t
  PROVE  Ledger(t)'
<1>0. /\ OnRow(o) /\ Key_(o) = t /\ Ledger(t) /\ comments[t] \in Nat /\ cut[t] \in Nat
      /\ At(o, "enqueue") /\ work[o].reviewed /\ rows[t].status = "claimed"
  <2>1. OnRow(o) /\ At(o, "enqueue")
    BY DEF EnqueuePublication, At, OnRow, Active, Phase
  <2>2. Key_(o) \in Trigger
    BY <2>1 DEF Shape, WorkOK, Fits, OnTrigger, At, Key_
  <2>3. Key_(o) = t
    BY <2>2 DEF Subject
  <2> QED
    BY <2>1, <2>2, <2>3 DEF Ledgers, Shape, DataOK, Writings, Writing, Posting, At, Holding,
       Q!Holds, Q!Live
<1>1. /\ claims' = claims /\ comments' = comments /\ cut' = cut
      /\ work'[o].pc = "verb" /\ work'[o].reviewed = work[o].reviewed
  BY Going DEF EnqueuePublication, Q!Enqueue, queueVars, world
<1>2. One(Late(t)) = 0 /\ One(Up(t)') \in {0, 1}
  BY <1>0, OnlyHand DEF One, At
<1>3. comments[t] <= cut[t]
  BY <1>0, <1>2 DEF Ledger
<1>4. One(Late(t)') = 1
  <2>1. Key_(o)' = t /\ At(o, "verb")' /\ work'[o].reviewed
    BY <1>0, <1>1 DEF Key_, At
  <2> QED
    BY <2>1 DEF One, Late
<1>5. /\ comments'[t] <= cut'[t] + One(Up(t)')
      /\ comments'[t] <= cut'[t] + One(Late(t)')
      /\ comments'[t] + 1 <= cut'[t] + One(Late(t)')
  BY <1>0, <1>1, <1>2, <1>3, <1>4
<1> QED
  BY <1>5 DEF Ledger

\* The ledger of the run whose row is completed.
LEMMA CloseLedger ==
  ASSUME Shape, Holding, Writings, Ledgers, Next, NEW o \in Owner, Step(o), CloseRow(o),
         work[o].reviewed, NEW t \in Trigger, Subject(o) = t
  PROVE  Ledger(t)'
<1>0. /\ OnRow(o) /\ Key_(o) = t /\ Ledger(t) /\ comments[t] \in Nat /\ cut[t] \in Nat
      /\ At(o, "verb") /\ work[o].finish = "complete" /\ Q!Owns(t, o) /\ RowsOK
  <2>1. OnRow(o) /\ At(o, "verb")
    BY DEF CloseRow, At, OnRow, Active, Phase
  <2>2. Key_(o) \in Trigger
    BY <2>1 DEF Shape, WorkOK, Fits, Key_
  <2>3. Key_(o) = t
    BY <2>2 DEF Subject
  <2> QED
    BY <2>1, <2>2, <2>3 DEF Ledgers, Shape, QueueOK, DataOK, Writings, Writing, At, Holding,
       Q!Holds
<1>1. comments' = comments /\ cut' = cut /\ runs' = runs
  BY DEF CloseRow, world
<1>2. rows'[t].status = "done"
  <2>1. rows' = Q!Finished(t, o, "done")
    BY <1>0 DEF CloseRow, Q!Complete, Q!Finish, Key_
  <2> QED
    BY <1>0, <2>1, FinishedRows
<1>3. One(Up(t)) <= One(Up(t)') /\ One(Up(t)) \in {0, 1} /\ One(Up(t)') \in {0, 1}
  <2>1. Up(t) => Up(t)'
    BY <1>0, <1>1, OnlyHand DEF Up, At
  <2> QED
    BY <2>1 DEF One
<1>4. comments'[t] <= cut'[t] + One(Up(t)')
  <2>1. comments[t] <= cut[t] + One(Up(t))
    BY <1>0 DEF Ledger
  <2> QED
    BY <1>0, <1>1, <1>3, <2>1
<1> QED
  BY <1>2, <1>4 DEF Ledger

\* The ledger of a run whose worker dies between its post and what comes after.
LEMMA CrashLedger ==
  ASSUME Shape, Holding, Writings, Ledgers, Next, NEW o \in Owner, Crash(o),
         At(o, "stamp") \/ (At(o, "verb") /\ work[o].reviewed),
         NEW t \in Trigger, Subject(o) = t
  PROVE  Ledger(t)'
<1>0. /\ OnRow(o) /\ Key_(o) \in Key /\ Ledger(t) /\ comments[t] \in Nat
      /\ cut \in [Trigger -> Nat]
  <2>1. OnRow(o)
    BY DEF At, OnRow, Active, Phase
  <2>2. Key_(o) \in Key
    BY Busy DEF At
  <2> QED
    BY <2>1, <2>2 DEF Ledgers, Shape, DataOK
<1>1. comments' = comments /\ cut'[t] = cut[t] + 1 /\ runs' = runs /\ rows' = rows
  BY <1>0 DEF Crash, Q!Forget
<1>2. /\ {One(Up(t)), One(Up(t)'), One(Late(t)), One(Late(t)')} \subseteq {0, 1}
      /\ cut[t] \in Nat
  BY <1>0 DEF One
<1>3. comments'[t] <= cut'[t] + One(Up(t)')
  <2>1. comments[t] <= cut[t] + One(Up(t))
    BY <1>0 DEF Ledger
  <2> QED
    BY <1>0, <1>1, <1>2, <2>1
<1>4. ASSUME rows[t].status \notin {"done", "abandoned"}
      PROVE  comments'[t] <= cut'[t] + One(Late(t)')
  <2>1. comments[t] <= cut[t] + One(Late(t))
    BY <1>0, <1>4 DEF Ledger
  <2> QED
    BY <1>0, <1>1, <1>2, <2>1
<1>5. ASSUME rows[t].status \notin {"done", "abandoned"}, rows[PubOf[t]].status # "absent",
             ~runs[t].stamped
      PROVE  comments'[t] + 1 <= cut'[t] + One(Late(t)')
  <2>1. CASE Key_(o) \in Trigger
    <3>1. ~ItemUp(t)
      BY <1>0, <2>1, OnlyHand
    <3>2. comments[t] + 1 <= cut[t] + One(Late(t))
      BY <1>0, <1>5, <3>1 DEF Ledger
    <3> QED
      BY <1>0, <1>1, <1>2, <3>2
  <2>2. CASE Key_(o) \notin Trigger
    <3>1. One(Late(t)) = 0
      BY <1>0, <2>2, OnlyHand DEF One
    <3>2. comments[t] <= cut[t] + One(Late(t))
      BY <1>0, <1>5 DEF Ledger
    <3> QED
      BY <1>0, <1>1, <1>2, <3>1, <3>2
  <2> QED
    BY <2>1, <2>2
<1> QED
  BY <1>1, <1>3, <1>4, <1>5 DEF Ledger

\* An item's worker that is about to post has a run that was not stamped.
LEMMA ItemUnstamped ==
  ASSUME Shape, Holding, Writings, Ledgers, Next, NEW o \in Owner, Step(o), NEW p \in Owner,
         work'[p].pc \in {"holds", "publish", "post"}, IsItem(p)'
  PROVE  ~runs'[Subject(p)'].stamped
<1>0. /\ work[p] \in Work /\ work \in [Owner -> Work] /\ Fits(claims[p], work[p])
      /\ Writing(p) /\ runs \in [Trigger -> Run]
  BY DEF Shape, WorkOK, Writings, DataOK
<1>1. /\ OnRow(p) /\ claims'[p] = claims[p] /\ Key_(p)' = Key_(p) /\ Subject(p)' = Subject(p)
      /\ IsItem(p) /\ Key_(p) \in Key /\ Subject(p) \in Trigger
  <2>1. OnRow(p) /\ claims'[p] = claims[p]
    <3>1. CASE p = o
      BY <3>1, StaysOnRow DEF Active, Phase
    <3>2. CASE p # o
      BY <3>2, OthersStand DEF OnRow, Active, Phase
    <3> QED
      BY <3>1, <3>2
  <2>2. Key_(p) \in Key
    BY <2>1, Busy DEF OnRow, Active, At
  <2> QED
    BY <2>1, <2>2, ItemSubject DEF Key_, Subject, IsItem
<1>2. ASSUME p = o
      PROVE  runs' = runs /\ ~runs[Subject(o)].stamped
  <2>1. ASSUME Item(o) PROVE runs' = runs /\ ~runs[Subject(o)].stamped
    <3>1. Unpublished(Subject(o))
      <4>1. ASSUME Close(o, "complete") PROVE FALSE
        BY <1>2, <4>1, Closing
      <4> QED
        BY <2>1, <4>1 DEF Item
    <3> QED
      BY <2>1, <3>1 DEF Item, Unpublished
  <2>2. ASSUME StillHolds(o) PROVE runs' = runs /\ ~runs[Subject(o)].stamped
    BY <1>1, <1>2, <2>2 DEF StillHolds, Ledgers, At
  <2>3. ASSUME ReadHead(o) PROVE runs' = runs /\ ~runs[Subject(o)].stamped
    <3>1. ASSUME Close(o, "complete") PROVE FALSE
      BY <1>2, <3>1, Closing
    <3> QED
      BY <1>1, <1>2, <2>3, <3>1 DEF ReadHead, Ledgers, At
  <2>4. ~Settle(o) /\ ~Facts(o) /\ ~Checkout(o) /\ ~Reviewed(o) /\ ~EngineFailed(o)
        /\ ~UsageLimited(o) /\ ~Refuse(o) /\ ~Start(o) /\ ~AbandonRefused(o)
        /\ ~EnqueuePublication(o)
    BY <1>0, <1>1, <1>2
       DEF Settle, Facts, Checkout, Reviewed, EngineFailed, UsageLimited, Refuse, Start,
           AbandonRefused, EnqueuePublication, Fits, OnTrigger, BeforeSettle, At, IsItem, Key_
  <2>5. ~Post(o) /\ ~Stamp(o)
    <3>1. ASSUME Post(o) PROVE FALSE
      BY <1>2, <3>1, Going DEF Post
    <3>2. ASSUME Stamp(o) PROVE FALSE
      BY <1>2, <3>2, Closing DEF Stamp
    <3> QED
      BY <3>1, <3>2
  <2>6. ~Failed(o)
    <3>1. Failed(o) => work'[o].pc \in {"verb", "enqueue"}
      BY <1>0, <1>2 DEF Failed, Work
    <3> QED
      BY <1>2, <3>1
  <2>7. ~CloseRow(o) /\ ~Announce(o) /\ ~Fold(o) /\ ~Rest(o)
    <3>1. work'[o].pc \in Active
      BY <1>2 DEF Active, Phase
    <3>2. ~CloseRow(o) /\ ~Fold(o) /\ OnRow(o)
      BY <3>1, StaysOnRow
    <3> QED
      BY <3>2 DEF Announce, Rest, OnRow, Active, At
  <2> QED
    BY <2>1, <2>2, <2>3, <2>4, <2>5, <2>6, <2>7 DEF Step
<1>3. ASSUME p # o, runs'[Subject(p)].stamped PROVE FALSE
  <2>1. work'[p] = work[p]
    BY <1>3, OthersStand
  <2>2. ~runs[Subject(p)].stamped
    BY <1>1, <2>1 DEF Ledgers
  <2>3. (ReadHead(o) \/ Stamp(o)) /\ Subject(p) = Subject(o)
    BY <1>1, <1>3, <2>2, RunsMove
  <2>4. OnRow(o)
    BY <2>3 DEF ReadHead, Stamp, At, OnRow, Active, Phase
  <2> QED
    BY <1>1, <1>3, <2>3, <2>4, AloneOn
<1> QED
  BY <1>1, <1>2, <1>3

\* Every step keeps posts against stamps.
LEMMA LedgersStep ==
  ASSUME Shape, Shape', Holding, Entitlements, Writings, Ledgers, Next
  PROVE  Ledgers'
<1>0. /\ work \in [Owner -> Work] /\ claims \in [Owner -> Q!Claim \cup {Q!NoClaim}]
      /\ cut \in [Trigger -> Nat]
      /\ \A t \in Trigger : Ledger(t)
      /\ \A o \in Owner : work[o] \in Work
  BY DEF Shape, WorkOK, QueueOK, DataOK, Ledgers
<1>1. ASSUME NEW t \in Trigger,
             \A o \in Owner : ~(EnqueuePublication(o) /\ Key_(o) = t)
      PROVE  rows'[PubOf[t]].status # "absent" => rows[PubOf[t]].status # "absent"
  <2> SUFFICES ASSUME rows'[PubOf[t]].status # "absent", rows[PubOf[t]].status = "absent"
               PROVE  FALSE
    OBVIOUS
  <2>1. \A o \in Owner : ~Q!Owns(PubOf[t], o)
    BY DEF Shape, QueueOK, RowsOK, Q!Owns
  <2>2. PICK o \in Owner : EnqueuePublication(o) /\ PubOf[t] = PubOf[Key_(o)]
    <3>1. \A a, b, c : PubOf[t] \notin Q!Answered(a, b, c)
      BY AnsweredRows
    <3> QED
      BY <2>1, <3>1, RowFates DEF Q!Exhausted, Q!Offered, Q!Lapsed
  <2>3. Key_(o) \in Trigger
    BY <2>2 DEF Shape, WorkOK, Fits, OnTrigger, EnqueuePublication, At, Key_
  <2> QED
    BY <1>1, <2>2, <2>3
<1>2. ASSUME NEW o \in Owner, Step(o), NEW t \in Trigger PROVE Ledger(t)'
  <2>0. \A p \in Owner \ {o} : work'[p] = work[p] /\ claims'[p] = claims[p]
    BY <1>2, OthersStand
  <2>1. CASE Post(o) /\ Subject(o) = t /\ comments'[t] = comments[t] + 1
    BY <1>2, <2>1, PostLedger
  <2>2. CASE Stamp(o) /\ Subject(o) = t
    BY <1>2, <2>2, StampLedger
  <2>3. CASE EnqueuePublication(o) /\ Subject(o) = t
    BY <1>2, <2>3, EnqueueLedger
  <2>4. CASE CloseRow(o) /\ work[o].reviewed /\ Subject(o) = t
    BY <1>2, <2>4, CloseLedger
  <2>5. CASE /\ ~(Post(o) /\ Subject(o) = t /\ comments'[t] = comments[t] + 1)
             /\ ~(Stamp(o) /\ Subject(o) = t)
             /\ ~(EnqueuePublication(o) /\ Subject(o) = t)
             /\ ~(CloseRow(o) /\ work[o].reviewed /\ Subject(o) = t)
    <3>1. comments'[t] = comments[t] /\ cut'[t] = cut[t]
      BY <1>2, <2>5, Posts
    <3>2. ASSUME Subject(o) = t, At(o, "stamp") PROVE FALSE
      BY <1>2, <2>5, <3>2
         DEF Step, Start, Facts, Checkout, Refuse, AbandonRefused, Reviewed, EngineFailed,
             UsageLimited, Settle, Item, StillHolds, ReadHead, Post, Failed,
             EnqueuePublication, CloseRow, Announce, Fold, Rest, At
    <3>3. ASSUME Subject(o) = t, At(o, "verb"), work[o].reviewed PROVE FALSE
      BY <1>2, <2>5, <3>3
         DEF Step, Start, Facts, Checkout, Refuse, AbandonRefused, Reviewed, EngineFailed,
             UsageLimited, Settle, Item, StillHolds, ReadHead, Post, Stamp, Failed,
             EnqueuePublication, Announce, Fold, Rest, At
    <3>4. \A p \in Owner : ~(EnqueuePublication(p) /\ Key_(p) = t)
      <4>1. ASSUME NEW p \in Owner, EnqueuePublication(p), Key_(p) = t PROVE FALSE
        <5>1. At(p, "enqueue") /\ Go(p, "verb")
          BY <4>1 DEF EnqueuePublication
        <5>2. work'[p].pc # work[p].pc
          BY <5>1, Going DEF At
        <5>3. p = o
          BY <2>0, <5>2
        <5> QED
          BY <2>5, <4>1, <5>3 DEF Subject
      <4> QED
        BY <4>1
    <3>5. rows'[PubOf[t]].status # "absent" => rows[PubOf[t]].status # "absent"
      BY <1>1, <3>4
    <3> QED
      BY <1>0, <2>0, <3>1, <3>2, <3>3, <3>5, LedgerStands
  <2> QED
    BY <2>1, <2>2, <2>3, <2>4, <2>5
<1>3. ASSUME \A o \in Owner : ~Step(o), NEW t \in Trigger, NEW o \in Owner,
             \A p \in Owner \ {o} : work'[p] = work[p] /\ claims'[p] = claims[p],
             comments'[t] = comments[t], cut'[t] = cut[t],
             Subject(o) = t => ~(At(o, "stamp") \/ (At(o, "verb") /\ work[o].reviewed))
      PROVE  Ledger(t)'
  <2>1. \A p \in Owner : ~EnqueuePublication(p)
    BY <1>3 DEF Step
  <2> QED
    BY <1>0, <1>1, <1>3, <2>1, LedgerStands
<1>4. ASSUME NEW o \in Owner, Crash(o), \A p \in Owner : ~Step(p), NEW t \in Trigger
      PROVE  Ledger(t)'
  <2>0. \A p \in Owner \ {o} : work'[p] = work[p] /\ claims'[p] = claims[p]
    BY <1>4, OthersStand
  <2>1. CASE Subject(o) = t /\ (At(o, "stamp") \/ (At(o, "verb") /\ work[o].reviewed))
    BY <1>4, <2>1, CrashLedger
  <2>2. CASE ~(Subject(o) = t /\ (At(o, "stamp") \/ (At(o, "verb") /\ work[o].reviewed)))
    <3>1. comments'[t] = comments[t] /\ cut'[t] = cut[t]
      BY <1>0, <1>4, <2>2 DEF Crash
    <3> QED
      BY <1>3, <1>4, <2>0, <2>2, <3>1
  <2> QED
    BY <2>1, <2>2
<1>5. ASSUME NEW o \in Owner, NEW k \in Q!Claimable, NEW refused, Claim(o, k, refused),
             \A p \in Owner : ~Step(p), NEW t \in Trigger
      PROVE  Ledger(t)'
  <2>1. /\ \A p \in Owner \ {o} : work'[p] = work[p] /\ claims'[p] = claims[p]
        /\ comments' = comments /\ cut' = cut /\ At(o, "idle")
    BY <1>0, <1>5 DEF Claim, Q!ClaimRow, world
  <2> QED
    BY <1>3, <1>5, <2>1 DEF At
<1>6. ASSUME UNCHANGED <<claims, work, comments, cut>>, \A p \in Owner : ~Step(p), NEW t \in Trigger
      PROVE  Ledger(t)'
  <2>1. \A p \in Owner : ~EnqueuePublication(p)
    BY <1>6 DEF Step
  <2>2. /\ UNCHANGED <<claims, work>> /\ comments'[t] = comments[t] /\ cut'[t] = cut[t]
        /\ rows'[PubOf[t]].status # "absent" => rows[PubOf[t]].status # "absent"
        /\ rows'[t].status \notin {"done", "abandoned"} =>
             rows[t].status \notin {"done", "abandoned"}
        /\ runs[t].stamped => runs'[t].stamped
    BY <1>1, <1>6, <2>1, ClosedStays, FinalStays
  <2>3. Late(t)' = Late(t) /\ ItemUp(t)' = ItemUp(t) /\ (Up(t) => Up(t)')
    BY <2>2 DEF Late, ItemUp, Up, At, Subject, Key_
  <2>4. One(Late(t)') = One(Late(t))
    BY <2>3 DEF One
  <2>5. comments'[t] <= cut'[t] + One(Up(t)')
    <3>1. One(Up(t)) <= One(Up(t)') /\ One(Up(t)) \in {0, 1} /\ One(Up(t)') \in {0, 1}
      BY <2>3 DEF One
    <3>2. comments[t] <= cut[t] + One(Up(t)) /\ comments[t] \in Nat /\ cut[t] \in Nat
      BY <1>0 DEF Ledger, Shape, DataOK
    <3> QED
      BY <2>2, <3>1, <3>2
  <2> QED
    BY <1>0, <2>2, <2>3, <2>4, <2>5 DEF Ledger, One
<1>7. ASSUME NEW t \in Trigger PROVE Ledger(t)'
  <2>1. CASE \E o \in Owner : Step(o)
    BY <1>2, <2>1
  <2>2. CASE \A o \in Owner : ~Step(o)
    BY <1>4, <1>5, <1>6, <2>2
       DEF Next, Enqueue, Q!Enqueue, Push, queueVars, world, Tick, Q!Tick, ClaimNothing,
           Q!ClaimNothing
  <2> QED
    BY <2>1, <2>2
<1>8. ASSUME NEW p \in Owner, work'[p].pc \in {"holds", "publish", "post"}, IsItem(p)'
      PROVE  ~runs'[Subject(p)'].stamped
  <2>1. CASE \E o \in Owner : Step(o)
    BY <1>8, <2>1, ItemUnstamped
  <2>2. CASE \A o \in Owner : ~Step(o)
    <3>1. work'[p] = work[p] /\ claims'[p] = claims[p]
      <4>1. ASSUME NEW o \in Owner, Crash(o) PROVE work'[p] = work[p] /\ claims'[p] = claims[p]
        <5>1. work'[o].pc = "idle"
          BY <1>0, <4>1 DEF Crash, Idle
        <5>2. p # o
          BY <1>8, <5>1
        <5> QED
          BY <4>1, <5>2, OthersStand
      <4>2. ASSUME NEW o \in Owner, NEW k \in Q!Claimable, NEW refused, Claim(o, k, refused)
            PROVE  work'[p] = work[p] /\ claims'[p] = claims[p]
        <5>1. work'[o].pc \in {"start", "item"}
          BY <1>0, <4>2 DEF Claim, Work
        <5>2. p # o
          BY <1>8, <5>1
        <5> QED
          BY <1>0, <4>2, <5>2 DEF Claim, Q!ClaimRow
      <4> QED
        BY <2>2, <4>1, <4>2
           DEF Next, Enqueue, Q!Enqueue, Push, queueVars, Tick, Q!Tick, ClaimNothing,
               Q!ClaimNothing
    <3>2. runs' = runs
      BY <2>2 DEF Next, Enqueue, Push, Tick, Claim, ClaimNothing, Crash
    <3>3. IsItem(p) /\ Subject(p)' = Subject(p)
      BY <1>8, <3>1 DEF IsItem, Subject, Key_
    <3> QED
      BY <1>8, <3>1, <3>2, <3>3 DEF Ledgers
  <2> QED
    BY <2>1, <2>2
<1> QED
  BY <1>7, <1>8 DEF Ledgers

\* While no lease lapses under a live worker, posts and stamps balance.
LEMMA Balanced ==
  ASSUME ~LiveLapse
  PROVE  Spec => []Ledgers
<1>1. Init => Ledgers
  <2> SUFFICES ASSUME Init PROVE Ledgers
    OBVIOUS
  <2>1. /\ \A t \in Trigger : comments[t] = 0 /\ cut[t] = 0 /\ rows[PubOf[t]].status = "absent"
        /\ \A o \in Owner : work[o].pc = "idle"
    BY DEF Init, Q!Init, Q!NoRow, Idle
  <2>2. ASSUME NEW t \in Trigger PROVE Ledger(t)
    <3>1. \A n \in {0, 1} : 0 <= 0 + n
      OBVIOUS
    <3>2. One(Up(t)) \in {0, 1} /\ One(Late(t)) \in {0, 1}
      BY DEF One
    <3> QED
      BY <2>1, <3>1, <3>2 DEF Ledger
  <2> QED
    BY <2>1, <2>2 DEF Ledgers
<1>2. ASSUME Ledgers, UNCHANGED vars PROVE Ledgers'
  <2>1. UNCHANGED <<rows, claims, runs, work, comments, cut>>
    BY <1>2 DEF vars, world
  <2>2. \A t \in Trigger : Ledger(t)' = Ledger(t)
    BY <2>1 DEF Ledger, One, Up, ItemUp, Late, At, Subject, Key_
  <2>3. \A o \in Owner : Subject(o)' = Subject(o) /\ IsItem(o)' = IsItem(o)
    BY <2>1 DEF Subject, Key_, IsItem
  <2> QED
    BY <1>2, <2>1, <2>2, <2>3 DEF Ledgers
<1>3. Shape /\ Shape' /\ Holding /\ Entitlements /\ Writings /\ Ledgers /\ [Next]_vars
        => Ledgers'
  BY <1>2, LedgersStep
<1> QED
  BY <1>1, <1>3, Shaped, Held, Entitlement, Written, PTL DEF Spec

\* A review stands on its pull request once, and once more for each of its posts
\* that GitHub carried out and whose worker died, or never heard, before that
\* was written down; a refusal or failure is announced once at most (worker.py's
\* _publish and _finish_publish; _run's closing announcement).
THEOREM PostsOnce ==
  ASSUME ~LiveLapse
  PROVE  Spec => []PostedOnce
<1>1. ASSUME Shape, Telling, Ledgers PROVE PostedOnce
  <2> SUFFICES ASSUME NEW t \in Trigger PROVE comments[t] <= 1 + cut[t] /\ notices[t] <= 1
    BY DEF PostedOnce
  <2>1. comments[t] <= cut[t] + One(Up(t)) /\ One(Up(t)) \in {0, 1}
    BY <1>1 DEF Ledgers, Ledger, One
  <2>2. comments[t] \in Nat /\ cut[t] \in Nat /\ notices[t] <= 1
    BY <1>1 DEF Shape, DataOK, Telling
  <2> QED
    BY <2>1, <2>2
<1> QED
  BY <1>1, Shaped, Told, Balanced, PTL
=============================================================================
