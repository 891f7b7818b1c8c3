----------------------- MODULE ReviewPipeline_proofs -----------------------
(***************************************************************************)
(* Proofs about the review pipeline, for any triggers, workers and pull    *)
(* requests, whatever fails and however leases lapse: the two tables agree *)
(* on who is entitled to what, no allowance is left reserved by a row that *)
(* waits or is done, every engine run is counted as an attempt, and the    *)
(* queue underneath is driven as ReviewQueue has it.                       *)
(***************************************************************************)
EXTENDS ReviewPipeline, FiniteSetTheorems, Sequences, TLAPS

USE QueueAssumption, PublicationAssumption, FaultsAssumption
    DEF QueueAssumption, PublicationAssumption, FaultsAssumption,
        Q!ColumnsAssumption, Q!NullAssumption, Q!BoundsAssumption

\* The rows of the queue, of which a row has an owner exactly while claimed.
RowsOK ==
  /\ rows \in [Key -> Q!Row]
  /\ \A k \in Key : rows[k].status = "claimed" <=> rows[k].owner \in Owner

QueueOK ==
  /\ RowsOK
  /\ lastRow \in Nat
  /\ claims \in [Owner -> Q!Claim \cup {Q!NoClaim}]

\* Where a worker's key belongs: only reviews settle and leave items behind.
OnTrigger == BeforeSettle \cup {"abandon", "enqueue", "announce", "fold"}

Fits(claim, w) ==
  /\ w.pc = "idle" <=> claim = Q!NoClaim
  /\ w.pc \in OnTrigger => claim.key \in Trigger
  /\ w.pc \in {"item", "holds"} => claim.key \notin Trigger
  /\ w.reviewed \/ w.notice => claim.key \in Trigger
  /\ w.pc = "enqueue" => w.finish = "complete"
  /\ w.reviewed \/ w.pc \in {"checkout", "engine", "fold"} => w.head \in Sha

WorkOK ==
  /\ work \in [Owner -> Work]
  /\ \A o \in Owner : Fits(claims[o], work[o])

\* One of the counters is also decremented, and may be any integer here.
DataOK ==
  /\ open \in [Trigger -> Owner \cup {NoOwner}]
  /\ runs \in [Trigger -> Run]
  /\ head \in [Pull -> Sha]
  /\ asked \in [Trigger -> Sha \cup {NoSha}]
  /\ foldedBy \in [Trigger -> Trigger \cup {NoKey}]
  /\ comments \in [Trigger -> Nat] /\ notices \in [Trigger -> Nat]
  /\ cut \in [Trigger -> Nat]
  /\ drains \in [Trigger -> Int]
  /\ upsets \in 0 .. MaxUpsets

Shape == QueueOK /\ WorkOK /\ DataOK

-----------------------------------------------------------------------------
(* What a run, a write and a statement of the queue may come to.           *)

\* The verbs of a failed, limited or completed run: only the limit hands a row
\* back without its attempt.
LEMMA Finishes ==
  /\ \A kind : E!Finish(kind) \in Verb
  /\ \A kind \in E!Failures : E!Finish(kind) # "unattempted"
  /\ E!Finish("usage_limited") = "unattempted"
  /\ \A kind \in {"github", "payload", "workspace", "too_large", "completed"} :
       E!Finish(kind) # "unattempted"
<1>1. \A kind : E!Finish(kind) \in Verb
  BY DEF E!Finish, Verb
<1>2. \A kind \in E!Failures : kind # "usage_limited"
  BY DEF E!Failures, E!LimitEnds
<1> QED
  BY <1>1, <1>2 DEF E!Finish

\* A write to GitHub is carried out a number of times.
LEMMA WritesCounted == \A w \in C!Writes : w.times \in Nat /\ w.heard \in BOOLEAN
<1>1. SUFFICES ASSUME NEW s \in C!Requests
               PROVE  C!Written(s).times \in Nat /\ C!Written(s).heard \in BOOLEAN
  BY DEF C!Writes
<1>2. PICK n \in 1 .. (C!MaxRetries + 1) : s \in [1 .. n -> C!Response]
  <2>1. s \in UNION {[1 .. n -> C!Response] : n \in 1 .. (C!MaxRetries + 1)}
    BY DEF C!Requests
  <2> QED
    BY <2>1
<1>3. IsFiniteSet(1 .. n)
  BY <1>2, FS_Interval DEF C!MaxRetries
<1>4. IsFiniteSet({i \in DOMAIN s : s[i] \in C!CarriedOut})
  <2>1. {i \in DOMAIN s : s[i] \in C!CarriedOut} \in SUBSET (1 .. n)
    BY <1>2
  <2> QED
    BY <1>3, <2>1, FS_Subset
<1>5. \A S : C!Cardinality(S) = Cardinality(S)
  BY DEF C!Cardinality, Cardinality
<1> QED
  BY <1>4, <1>5, FS_CardinalityType DEF C!Written

\* Every row stands for a trigger: its own, or the one whose run it publishes.
LEMMA SubjectIsTrigger ==
  ASSUME NEW o \in Owner, Key_(o) \in Key
  PROVE  Subject(o) \in Trigger
<1>1. CASE Key_(o) \in Trigger
  BY <1>1 DEF Subject
<1>2. CASE Key_(o) \notin Trigger
  <2>1. \E t \in Trigger : PubOf[t] = Key_(o)
    BY <1>2
  <2> QED
    BY <1>2, <2>1 DEF Subject
<1> QED
  BY <1>1, <1>2

\* A worker that is not idle has a Claim.
LEMMA Busy ==
  ASSUME Shape, NEW o \in Owner, ~At(o, "idle")
  PROVE  claims[o] \in Q!Claim /\ Key_(o) \in Key /\ claims[o] # Q!NoClaim
BY DEF Shape, QueueOK, WorkOK, Fits, At, Key_, Q!Claim, Q!NoClaim

\* The sweep changes rows that are offered, and gives them up.
LEMMA SweptRows ==
  ASSUME RowsOK, NEW k \in Key
  PROVE  /\ Q!Swept[k] \in Q!Row
         /\ \/ Q!Swept[k] = rows[k]
            \/ /\ rows[k].status \in {"pending", "claimed"}
               /\ Q!Swept[k].status = "abandoned"
               /\ Q!Swept[k].owner = NoOwner
               /\ Q!Swept[k].attempts = rows[k].attempts
BY DEF RowsOK, Q!Swept, Q!GivenUp, Q!Exhausted, Q!Offered, Q!Lapsed, Q!Row, Q!Status

\* The sweep keeps the rows well formed.
LEMMA SweptOK ==
  ASSUME RowsOK, rows' = Q!Swept
  PROVE  RowsOK'
<1>1. rows' \in [Key -> Q!Row]
  BY SweptRows DEF Q!Swept
<1> QED
  BY <1>1, SweptRows DEF RowsOK

\* A claim leases one row, counts its attempt and sweeps the others.
LEMMA LeasedRows ==
  ASSUME RowsOK, NEW o \in Owner, NEW k \in Q!Claimable, rows' = Q!Leased(k, o)
  PROVE  /\ RowsOK'
         /\ rows'[k].owner = o /\ rows'[k].status = "claimed"
         /\ rows'[k].attempts = rows[k].attempts + 1
         /\ \A j \in Key : j # k => rows'[j] = Q!Swept[j]
<1>1. k \in Key /\ Q!Swept[k].attempts < MaxAttempts /\ Q!Offered(Q!Swept, k)
  BY DEF Q!Claimable
<1>2. Q!Swept[k] \in Q!Row /\ Q!Swept[k] = rows[k]
  BY <1>1, SweptRows DEF Q!Offered, Q!Lapsed
<1>3. rows' = [Q!Swept EXCEPT ![k] = [status |-> "claimed", attempts |-> @.attempts + 1,
                                      id |-> @.id, lease |-> Lease, owner |-> o]]
  BY DEF Q!Leased
<1>4. DOMAIN Q!Swept = Key
  BY DEF Q!Swept
<1>5. rows'[k] = [status |-> "claimed", attempts |-> rows[k].attempts + 1,
                  id |-> rows[k].id, lease |-> Lease, owner |-> o]
  BY <1>1, <1>2, <1>3, <1>4
<1>6. \A j \in Key : j # k => rows'[j] = Q!Swept[j]
  BY <1>3, <1>4
<1>7. rows'[k] \in Q!Row
  BY <1>1, <1>2, <1>5 DEF Q!Row, Q!Status
<1>8. rows' \in [Key -> Q!Row]
  <2>1. DOMAIN rows' = Key /\ \A j \in Key : rows'[j] \in Q!Row
    BY <1>3, <1>4, <1>6, <1>7, SweptRows
  <2> QED
    BY <1>3, <1>4, <2>1
<1>9. \A j \in Key : rows'[j].status = "claimed" <=> rows'[j].owner \in Owner
  BY <1>5, <1>6, SweptRows DEF RowsOK
<1> QED
  BY <1>5, <1>6, <1>8, <1>9 DEF RowsOK

\* A verb that closes or hands back the row of worker o, or changes nothing.
ByOwner(o, k) ==
  /\ \A j \in Key : j # k => rows'[j] = rows[j]
  /\ \/ rows' = rows /\ ~Q!Owns(k, o)
     \/ /\ Q!Owns(k, o)
        /\ rows'[k].owner = NoOwner /\ rows'[k].status # "claimed"

\* A verb but release_unattempted keeps the attempts.
LEMMA FinishedRows ==
  ASSUME RowsOK, NEW o \in Owner, NEW k \in Key,
         NEW status \in {"pending", "done", "abandoned"},
         rows' = Q!Finished(k, o, status)
  PROVE  /\ RowsOK' /\ ByOwner(o, k)
         /\ rows'[k].attempts = rows[k].attempts
         /\ Q!Owns(k, o) => rows'[k].status = status
BY DEF RowsOK, ByOwner, Q!Finished, Q!Owns, Q!GivenUp, Q!Row, Q!Status

\* release_unattempted hands the row back with at most one attempt less.
LEMMA UnattemptedRows ==
  ASSUME RowsOK, NEW o \in Owner, NEW k \in Key, rows' = Q!Unattempted(k, o)
  PROVE  /\ RowsOK' /\ ByOwner(o, k)
         /\ rows'[k].attempts \in {rows[k].attempts, rows[k].attempts - 1}
         /\ ~Q!Owns(k, o) => rows'[k].attempts = rows[k].attempts
         /\ rows'[k].attempts <= rows[k].attempts
         /\ Q!Owns(k, o) => rows'[k].status = "pending"
<1>1. CASE ~Q!Owns(k, o)
  BY <1>1 DEF RowsOK, ByOwner, Q!Unattempted, Q!Row
<1>2. CASE Q!Owns(k, o)
  <2>1. rows[k] \in Q!Row /\ rows' = [rows EXCEPT ![k] = Q!Uncounted(rows[k])]
    BY <1>2 DEF RowsOK, Q!Unattempted
  <2>2. Q!Uncounted(rows[k]) =
          [status |-> "pending",
           attempts |-> IF rows[k].attempts = 0 THEN 0 ELSE rows[k].attempts - 1,
           id |-> rows[k].id, lease |-> 0, owner |-> NoOwner]
    BY DEF Q!Uncounted, Q!GivenUp
  <2>3. Q!Uncounted(rows[k]) \in Q!Row
    BY <2>1, <2>2 DEF Q!Row, Q!Status
  <2> QED
    BY <1>2, <2>1, <2>2, <2>3 DEF RowsOK, ByOwner, Q!Owns, Q!Row
<1> QED
  BY <1>1, <1>2

\* A fold closes rows that wait.
LEMMA FoldedRows ==
  ASSUME RowsOK, NEW k \in Key, NEW before, NEW sha,
         rows' = Q!Folded(Q!Answered(k, before, sha))
  PROVE  /\ RowsOK'
         /\ \A j \in Key : \/ rows'[j] = rows[j]
                           \/ /\ rows[j].status = "pending" /\ KindOf[j] # "publish"
                              /\ rows'[j].status = "done" /\ rows'[j].owner = NoOwner
                              /\ rows'[j].attempts = rows[j].attempts
BY DEF RowsOK, Q!Folded, Q!Answered, Q!GivenUp, Q!Row, Q!Status

\* An insertion makes a row that waits, with no attempt yet.
LEMMA InsertedRows ==
  ASSUME RowsOK, lastRow \in Nat, NEW k \in Key, rows' = Q!Inserted(k)
  PROVE  /\ RowsOK'
         /\ rows'[k].status = "pending" /\ rows'[k].owner = NoOwner
         /\ rows'[k].attempts = 0
         /\ \A j \in Key : j # k => rows'[j] = rows[j]
BY DEF RowsOK, Q!Inserted, Q!Row, Q!Status

\* Time changes leases only.
LEMMA AgedRows ==
  ASSUME RowsOK, rows' = Q!Aged
  PROVE  /\ RowsOK'
         /\ \A j \in Key : /\ rows'[j].status = rows[j].status
                           /\ rows'[j].owner = rows[j].owner
                           /\ rows'[j].attempts = rows[j].attempts
<1>1. ASSUME NEW j \in Key
      PROVE  rows'[j] = [rows[j] EXCEPT !.lease = IF @ = 0 THEN 0 ELSE @ - 1]
  BY DEF Q!Aged
<1>2. \A j \in Key : /\ rows'[j].status = rows[j].status
                     /\ rows'[j].owner = rows[j].owner
                     /\ rows'[j].attempts = rows[j].attempts
                     /\ rows'[j] \in Q!Row
  <2> SUFFICES ASSUME NEW j \in Key
               PROVE  /\ rows'[j].status = rows[j].status
                      /\ rows'[j].owner = rows[j].owner
                      /\ rows'[j].attempts = rows[j].attempts
                      /\ rows'[j] \in Q!Row
    OBVIOUS
  <2>1. rows[j] \in Q!Row
    BY DEF RowsOK
  <2>2. rows'[j] = [rows[j] EXCEPT !.lease = IF rows[j].lease = 0 THEN 0 ELSE rows[j].lease - 1]
    BY <1>1
  <2>3. (IF rows[j].lease = 0 THEN 0 ELSE rows[j].lease - 1) \in 0 .. Lease
    BY <2>1 DEF Q!Row
  <2> QED
    BY <2>1, <2>2, <2>3 DEF Q!Row
<1>3. rows' \in [Key -> Q!Row]
  BY <1>2 DEF Q!Aged
<1> QED
  BY <1>2, <1>3 DEF RowsOK

-----------------------------------------------------------------------------
(* The shape of the state.                                                 *)

\* Each step keeps the shape of the queue.
LEMMA QueueStep ==
  ASSUME Shape, Next
  PROVE  QueueOK'
<1> USE DEF Shape, QueueOK
<1>1. ASSUME UNCHANGED queueVars PROVE QueueOK'
  BY <1>1 DEF queueVars, RowsOK
<1>2. ASSUME NEW k \in Key, Q!Enqueue(k) PROVE QueueOK'
  BY <1>2, InsertedRows DEF Q!Enqueue
<1>3. CASE Tick
  BY <1>3, AgedRows DEF Tick, Q!Tick
<1>4. ASSUME NEW o \in Owner, NEW k \in Q!Claimable, NEW refused, Claim(o, k, refused)
      PROVE  QueueOK'
  <2>1. RowsOK'
    BY <1>4, LeasedRows DEF Claim, Q!ClaimRow
  <2>2. k \in Key
    BY DEF Q!Claimable
  <2> QED
    BY <1>4, <2>1, <2>2 DEF Claim, Q!ClaimRow, Q!Claim
<1>5. ASSUME NEW o \in Owner, ClaimNothing(o) PROVE QueueOK'
  BY <1>5, SweptOK DEF ClaimNothing, Q!ClaimNothing
<1>6. ASSUME NEW o \in Owner, NEW status \in {"pending", "done", "abandoned"},
             Q!Finish(o, status), ~At(o, "idle")
      PROVE  QueueOK'
  <2>1. Key_(o) \in Key
    BY <1>6, Busy
  <2>2. RowsOK'
    BY <1>6, <2>1, FinishedRows DEF Q!Finish, Key_
  <2> QED
    BY <1>6, <2>2 DEF Q!Finish
<1>7. ASSUME NEW o \in Owner, Q!ReleaseUnattempted(o), ~At(o, "idle") PROVE QueueOK'
  <2>1. Key_(o) \in Key
    BY <1>7, Busy
  <2>2. RowsOK'
    BY <1>7, <2>1, UnattemptedRows DEF Q!ReleaseUnattempted, Key_
  <2> QED
    BY <1>7, <2>2 DEF Q!ReleaseUnattempted
<1>8. ASSUME NEW o \in Owner, Fold(o) PROVE QueueOK'
  <2>1. Key_(o) \in Key
    BY <1>8, Busy DEF Fold, At
  <2>2. RowsOK'
    BY <1>8, <2>1, FoldedRows DEF Fold, Q!Fold, Key_
  <2> QED
    BY <1>8, <2>2 DEF Fold, Q!Fold
<1>9. ASSUME NEW o \in Owner, Q!Forget(o) PROVE QueueOK'
  BY <1>9 DEF Q!Forget, RowsOK
<1>10. ASSUME NEW o \in Owner, EnqueuePublication(o) PROVE QueueOK'
  <2>1. Key_(o) \in Trigger
    BY <1>10 DEF EnqueuePublication, WorkOK, Fits, OnTrigger, At, Key_
  <2> QED
    BY <1>1, <1>2, <1>10, <2>1 DEF EnqueuePublication
<1>11. ASSUME NEW o \in Owner, CloseRow(o) PROVE QueueOK'
  <2>1. ~At(o, "idle")
    BY <1>11 DEF CloseRow, At
  <2>2. work[o].finish \in Verb
    BY DEF WorkOK, Work
  <2> QED
    BY <1>6, <1>7, <1>11, <2>1, <2>2 DEF CloseRow, Verb, Q!Complete, Q!Release, Q!Abandon
<1>12. ASSUME NEW o \in Owner, AbandonRefused(o) PROVE QueueOK'
  BY <1>6, <1>12 DEF AbandonRefused, At, Q!Abandon
<1>13. ASSUME NEW o \in Owner, Step(o) PROVE QueueOK'
  BY <1>1, <1>8, <1>9, <1>10, <1>11, <1>12, <1>13
     DEF Step, Start, Facts, Checkout, Refuse, Reviewed, EngineFailed, UsageLimited, Settle,
         Item, StillHolds, ReadHead, Post, Stamp, Failed, Announce, Rest
<1> QED
  BY <1>1, <1>2, <1>3, <1>4, <1>5, <1>9, <1>13
     DEF Next, Enqueue, Push, Crash

\* A worker of whom nothing but its place in its run changes.
LEMMA Moves ==
  ASSUME WorkOK, claims' = claims, NEW o \in Owner, NEW w \in Work,
         work' = [work EXCEPT ![o] = w], Fits(claims[o], w)
  PROVE  WorkOK'
BY DEF WorkOK

\* What a worker does after its row is closed or lost.
LEMMA LeaveMoves ==
  ASSUME Shape, claims' = claims, NEW o \in Owner, ~At(o, "idle"), Leave(o)
  PROVE  WorkOK'
<1>1. claims[o] # Q!NoClaim /\ Fits(claims[o], work[o]) /\ work[o] \in Work
  BY Busy DEF Shape, WorkOK
<1>2. CASE work[o].notice
  <2> DEFINE w == [Idle EXCEPT !.pc = "announce"]
  <2>1. w \in Work
    BY DEF Idle, Work, Phase, Verb
  <2>2. Fits(claims[o], w)
    BY <1>1, <1>2 DEF Fits, Idle
  <2>3. work' = [work EXCEPT ![o] = w]
    BY <1>2 DEF Leave
  <2> QED
    BY <2>1, <2>2, <2>3, Moves DEF Shape
<1>3. CASE ~work[o].notice /\ work[o].reviewed
  <2> DEFINE w == [Idle EXCEPT !.pc = "fold", !.head = work[o].head]
  <2>1. w \in Work
    BY <1>1 DEF Idle, Work, Phase, Verb
  <2>2. Fits(claims[o], w)
    BY <1>1, <1>3 DEF Fits, Idle
  <2>3. work' = [work EXCEPT ![o] = w]
    BY <1>3 DEF Leave
  <2> QED
    BY <2>1, <2>2, <2>3, Moves DEF Shape
<1>4. CASE ~work[o].notice /\ ~work[o].reviewed
  <2> DEFINE w == [Idle EXCEPT !.pc = "done"]
  <2>1. w \in Work
    BY DEF Idle, Work, Phase, Verb
  <2>2. Fits(claims[o], w)
    BY <1>1 DEF Fits, Idle, OnTrigger, BeforeSettle
  <2>3. work' = [work EXCEPT ![o] = w]
    BY <1>4 DEF Leave
  <2> QED
    BY <2>1, <2>2, <2>3, Moves DEF Shape
<1> QED
  BY <1>2, <1>3, <1>4

\* A run that ends with nothing recorded, on its way to the settle.
LEMMA EndMoves ==
  ASSUME Shape, claims' = claims, NEW o \in Owner, work[o].pc \in BeforeSettle,
         NEW finish \in Verb, NEW notice \in BOOLEAN, End(o, finish, notice)
  PROVE  WorkOK'
<1> DEFINE w == [Idle EXCEPT !.pc = "settle", !.finish = finish, !.notice = notice]
<1>1. claims[o] # Q!NoClaim /\ Key_(o) \in Trigger
  BY Busy DEF Shape, WorkOK, Fits, OnTrigger, Key_, BeforeSettle, At
<1>2. w \in Work
  BY DEF Idle, Work, Phase, Verb, BeforeSettle
<1>3. Fits(claims[o], w)
  BY <1>1 DEF Fits, Idle, Key_
<1> QED
  BY <1>2, <1>3, Moves DEF End, Shape

\* A run that fails.
LEMMA FailsMoves ==
  ASSUME Shape, claims' = claims, NEW o \in Owner, work[o].pc \in BeforeSettle,
         NEW kind, Fails(o, kind)
  PROVE  WorkOK'
<1>1. (work[o].last /\ E!Announced(kind)) \in BOOLEAN
  OBVIOUS
<1> QED
  BY <1>1, Finishes, EndMoves DEF Fails

\* A worker that goes on with what it has in hand.
LEMMA GoMoves ==
  ASSUME Shape, claims' = claims, NEW o \in Owner, ~At(o, "idle"),
         NEW pc \in Phase \ ({"idle", "item", "enqueue"} \cup OnTrigger), Go(o, pc),
         pc = "holds" => Key_(o) \notin Trigger
  PROVE  WorkOK'
<1> DEFINE w == [work[o] EXCEPT !.pc = pc]
<1>1. claims[o] # Q!NoClaim /\ Fits(claims[o], work[o]) /\ work[o] \in Work
  BY Busy DEF Shape, WorkOK
<1>2. w \in Work
  BY <1>1 DEF Work
<1>3. Fits(claims[o], w)
  BY <1>1, <1>2 DEF Fits, Key_, Work, OnTrigger, BeforeSettle
<1>4. work' = [work EXCEPT ![o] = w]
  BY DEF Go
<1> QED
  BY <1>2, <1>3, <1>4, Moves DEF Shape

\* A worker on its way to the verb that closes its row.
LEMMA CloseMoves ==
  ASSUME Shape, claims' = claims, NEW o \in Owner, ~At(o, "idle"), NEW finish \in Verb,
         Close(o, finish)
  PROVE  WorkOK'
<1> DEFINE w == [work[o] EXCEPT !.pc = "verb", !.finish = finish]
<1>1. claims[o] # Q!NoClaim /\ Fits(claims[o], work[o]) /\ work[o] \in Work
  BY Busy DEF Shape, WorkOK
<1>2. w \in Work
  BY <1>1 DEF Work, Phase
<1>3. Fits(claims[o], w)
  BY <1>1, <1>2 DEF Fits, Work, OnTrigger, BeforeSettle
<1>4. work' = [work EXCEPT ![o] = w]
  BY DEF Close
<1> QED
  BY <1>2, <1>3, <1>4, Moves DEF Shape

\* A worker that claims a row.
LEMMA ClaimMoves ==
  ASSUME Shape, NEW o \in Owner, NEW k \in Q!Claimable, NEW refused, Claim(o, k, refused)
  PROVE  WorkOK'
<1> DEFINE w == [work[o] EXCEPT !.pc = IF k \in Trigger THEN "start" ELSE "item",
                                !.last = k \in Trigger /\ rows'[k].attempts = MaxAttempts]
           c == [key |-> k, started |-> lastRow]
<1>1. k \in Key /\ claims[o] = Q!NoClaim /\ At(o, "idle")
  BY DEF Q!Claimable, Claim, Q!ClaimRow
<1>3. Fits(claims[o], work[o]) /\ work[o] \in Work /\ work \in [Owner -> Work]
  BY DEF Shape, WorkOK
<1>2. claims' = [claims EXCEPT ![o] = c] /\ work' = [work EXCEPT ![o] = w]
  BY <1>3 DEF Claim, Q!ClaimRow
<1>4. w \in Work
  BY <1>3 DEF Work, Phase, BeforeSettle
<1>5. ~work[o].reviewed /\ ~work[o].notice
  BY <1>1, <1>3 DEF Fits, Q!NoClaim, Shape
<1>6. c # Q!NoClaim
  BY <1>1 DEF Q!NoClaim
<1>7. w.pc = (IF k \in Trigger THEN "start" ELSE "item") /\ w.reviewed = FALSE /\ w.notice = FALSE
  BY <1>3, <1>5 DEF Work
<1>8. Fits(c, w)
  BY <1>6, <1>7 DEF Fits, OnTrigger, BeforeSettle
<1> QED
  BY <1>2, <1>4, <1>8 DEF Shape, WorkOK, QueueOK

\* A worker that rests or dies.
LEMMA ForgetMoves ==
  ASSUME Shape, NEW o \in Owner, Q!Forget(o), work' = [work EXCEPT ![o] = Idle]
  PROVE  WorkOK'
<1>1. Idle \in Work /\ Fits(Q!NoClaim, Idle)
  BY DEF Idle, Work, Phase, Verb, Fits, OnTrigger, BeforeSettle
<1> QED
  BY <1>1 DEF Shape, WorkOK, QueueOK, Q!Forget

\* Each step keeps the shape of the workers.
LEMMA WorkStep ==
  ASSUME Shape, Next
  PROVE  WorkOK'
<1>1. ASSUME UNCHANGED <<claims, work>> PROVE WorkOK'
  BY <1>1 DEF Shape, WorkOK
<1>2. ASSUME NEW o \in Owner, Step(o) PROVE WorkOK'
  <2>0. work[o] \in Work /\ Fits(claims[o], work[o]) /\ work \in [Owner -> Work]
    BY DEF Shape, WorkOK
  <2> USE DEF At
  <2>1. CASE Start(o)
    <3>1. CASE Settles(o)
      <4> DEFINE w == [work[o] EXCEPT !.pc = "facts"]
      <4>1. w \in Work
        BY <2>0 DEF Work, Phase, BeforeSettle
      <4>2. Fits(claims[o], w)
        BY <2>0, <2>1, <4>1 DEF Fits, Work, OnTrigger, BeforeSettle, Start
      <4>8. work' = [work EXCEPT ![o] = w] /\ claims' = claims
        BY <2>0, <2>1, <3>1 DEF Start, Go, queueVars
      <4> QED
        BY <4>8, <4>1, <4>2, Moves DEF Shape
    <3>2. CASE ~Settles(o)
      BY <2>1, <3>2, GoMoves DEF Start, queueVars, Phase, OnTrigger, BeforeSettle
    <3> QED
      BY <3>1, <3>2
  <2>2. CASE Facts(o)
    <3>1. CASE work' = [work EXCEPT ![o] = [@ EXCEPT !.pc = "checkout",
                                                 !.head = head[PullOf[Key_(o)]]]]
      <4> DEFINE w == [work[o] EXCEPT !.pc = "checkout", !.head = head[PullOf[Key_(o)]]]
      <4>1. head[PullOf[Key_(o)]] \in Sha
        BY <2>2, Busy DEF Facts, Shape, DataOK
      <4>2. w \in Work
        BY <2>0, <4>1 DEF Work, Phase, BeforeSettle
      <4>3. Fits(claims[o], w)
        BY <2>0, <2>2, <4>1, <4>2 DEF Fits, Work, OnTrigger, BeforeSettle, Facts
      <4>8. work' = [work EXCEPT ![o] = w] /\ claims' = claims
        BY <2>0, <2>2, <3>1 DEF Facts, queueVars
      <4> QED
        BY <4>8, <4>2, <4>3, Moves DEF Shape
    <3>2. CASE work' = [work EXCEPT ![o] = [Idle EXCEPT !.pc = "refuse"]]
      <4> DEFINE w == [Idle EXCEPT !.pc = "refuse"]
      <4>1. w \in Work
        BY DEF Idle, Work, Phase, Verb, BeforeSettle
      <4>2. Fits(claims[o], w)
        BY <2>0, <2>2 DEF Fits, Idle, OnTrigger, BeforeSettle, Facts
      <4>8. work' = [work EXCEPT ![o] = w] /\ claims' = claims
        BY <2>0, <2>2, <3>2 DEF Facts, queueVars
      <4> QED
        BY <4>8, <4>1, <4>2, Moves DEF Shape
    <3> QED
      BY <2>2, <3>1, <3>2, FailsMoves DEF Facts, queueVars, BeforeSettle
  <2>3. CASE Checkout(o)
    <3>1. CASE work' = [work EXCEPT ![o] = [@ EXCEPT !.pc = "engine",
                                                 !.read = head[PullOf[Key_(o)]]]]
      <4> DEFINE w == [work[o] EXCEPT !.pc = "engine", !.read = head[PullOf[Key_(o)]]]
      <4>1. head[PullOf[Key_(o)]] \in Sha
        BY <2>3, Busy DEF Checkout, Shape, DataOK
      <4>2. w \in Work
        BY <2>0, <4>1 DEF Work, Phase, BeforeSettle
      <4>3. Fits(claims[o], w)
        BY <2>0, <2>3, <4>2 DEF Fits, Work, OnTrigger, BeforeSettle, Checkout
      <4>8. work' = [work EXCEPT ![o] = w] /\ claims' = claims
        BY <2>0, <2>3, <3>1 DEF Checkout, queueVars
      <4> QED
        BY <4>8, <4>2, <4>3, Moves DEF Shape
    <3>2. CASE work' = [work EXCEPT ![o] = [Idle EXCEPT !.pc = "refuse", !.notice = TRUE]]
      <4> DEFINE w == [Idle EXCEPT !.pc = "refuse", !.notice = TRUE]
      <4>1. w \in Work
        BY DEF Idle, Work, Phase, Verb, BeforeSettle
      <4>2. Fits(claims[o], w)
        BY <2>0, <2>3 DEF Fits, Idle, OnTrigger, BeforeSettle, Checkout
      <4>8. work' = [work EXCEPT ![o] = w] /\ claims' = claims
        BY <2>0, <2>3, <3>2 DEF Checkout, queueVars
      <4> QED
        BY <4>8, <4>1, <4>2, Moves DEF Shape
    <3> QED
      BY <2>3, <3>1, <3>2, FailsMoves, EndMoves, Finishes DEF Checkout, queueVars, BeforeSettle
  <2>4. CASE Refuse(o)
    <3> DEFINE w == [work[o] EXCEPT !.pc = "abandon"]
    <3>1. w \in Work
      BY <2>0 DEF Work, Phase, BeforeSettle
    <3>2. Fits(claims[o], w)
      BY <2>0, <2>4, <3>1 DEF Fits, Work, OnTrigger, BeforeSettle, Refuse
    <3>8. work' = [work EXCEPT ![o] = w] /\ claims' = claims
      BY <2>0, <2>4 DEF Refuse, Go, queueVars
    <3> QED
      BY <3>8, <3>1, <3>2, Moves DEF Shape
  <2>5. CASE AbandonRefused(o)
    BY <2>5, LeaveMoves DEF AbandonRefused, Q!Abandon, Q!Finish
  <2>6. CASE Reviewed(o)
    <3> DEFINE w == [Idle EXCEPT !.pc = "settle", !.head = work[o].head,
                                 !.finish = E!Finish("completed"), !.reviewed = TRUE]
    <3>1. w \in Work
      BY <2>0, Finishes DEF Idle, Work, Phase, BeforeSettle
    <3>2. Fits(claims[o], w)
      BY <2>0, <2>6 DEF Fits, Idle, OnTrigger, BeforeSettle, Reviewed
    <3>8. work' = [work EXCEPT ![o] = w] /\ claims' = claims
      BY <2>0, <2>6 DEF Reviewed, queueVars
    <3> QED
      BY <3>8, <3>1, <3>2, Moves DEF Shape
  <2>7. CASE EngineFailed(o) \/ UsageLimited(o)
    BY <2>7, FailsMoves DEF EngineFailed, UsageLimited, queueVars, BeforeSettle
  <2>8. CASE Settle(o)
    <3>1. CASE Settles(o)
      BY <2>8, <3>1, GoMoves DEF Settle, queueVars, Phase, OnTrigger, BeforeSettle
    <3>2. CASE ~Settles(o)
      BY <2>8, <3>2, LeaveMoves DEF Settle, queueVars
    <3> QED
      BY <3>1, <3>2
  <2>9. CASE Item(o)
    <3>1. CASE Unpublished(Subject(o))
      <4> DEFINE w == [work[o] EXCEPT !.pc = "holds", !.head = runs[Subject(o)].head]
      <4>1. runs[Subject(o)].head \in Sha \cup {NoSha}
        BY <2>9, Busy, SubjectIsTrigger DEF Item, Shape, DataOK, Run
      <4>2. w \in Work
        BY <2>0, <4>1 DEF Work, Phase
      <4>3. Fits(claims[o], w)
        BY <2>0, <2>9, <4>2 DEF Fits, Work, OnTrigger, BeforeSettle, Item
      <4>8. work' = [work EXCEPT ![o] = w] /\ claims' = claims
        BY <2>0, <2>9, <3>1 DEF Item, queueVars
      <4> QED
        BY <4>8, <4>2, <4>3, Moves DEF Shape
    <3>2. CASE ~Unpublished(Subject(o))
      BY <2>9, <3>2, CloseMoves DEF Item, queueVars, Verb
    <3> QED
      BY <3>1, <3>2
  <2>10. CASE StillHolds(o)
    BY <2>0, <2>10, GoMoves DEF StillHolds, queueVars, Phase, OnTrigger, BeforeSettle
  <2>11. CASE ReadHead(o)
    BY <2>11, GoMoves, CloseMoves DEF ReadHead, queueVars, Phase, OnTrigger, BeforeSettle, Verb
  <2>12. CASE Post(o)
    <3>1. \E pc \in {"stamp", "failed"} : Go(o, pc)
      BY <2>12 DEF Post
    <3> QED
      BY <2>12, <3>1, GoMoves DEF Post, queueVars, Phase, OnTrigger, BeforeSettle
  <2>13. CASE Stamp(o)
    BY <2>13, CloseMoves DEF Stamp, queueVars, Verb
  <2>14. CASE Failed(o)
    <3> DEFINE gaveUp == runs'[Subject(o)].failures = MaxPublishAttempts
               w == [work[o] EXCEPT !.pc = IF gaveUp \/ IsItem(o) THEN "verb" ELSE "enqueue",
                                    !.finish = IF gaveUp \/ ~IsItem(o) THEN "complete"
                                               ELSE "unattempted"]
    <3>1. w \in Work
      BY <2>0 DEF Work, Phase, Verb
    <3>2. Fits(claims[o], w)
      BY <2>0, <2>14, <3>1 DEF Fits, Work, OnTrigger, BeforeSettle, Failed, IsItem, Key_
    <3>8. work' = [work EXCEPT ![o] = w] /\ claims' = claims
      BY <2>0, <2>14 DEF Failed, queueVars
    <3> HIDE DEF w
    <3> QED
      BY <3>8, <3>1, <3>2, Moves DEF Shape
  <2>15. CASE EnqueuePublication(o)
    BY <2>15, GoMoves
       DEF EnqueuePublication, Q!Enqueue, queueVars, Phase, OnTrigger, BeforeSettle
  <2>16. CASE CloseRow(o)
    <3>1. claims' = claims
      BY <2>0, <2>16 DEF CloseRow, Q!Complete, Q!Release, Q!Abandon, Q!Finish,
                         Q!ReleaseUnattempted, Work, Verb
    <3> QED
      BY <2>16, <3>1, LeaveMoves DEF CloseRow
  <2>17. CASE Announce(o)
    BY <2>17, GoMoves DEF Announce, queueVars, Phase, OnTrigger, BeforeSettle
  <2>18. CASE Fold(o)
    BY <2>18, GoMoves DEF Fold, Q!Fold, Phase, OnTrigger, BeforeSettle
  <2>19. CASE Rest(o)
    BY <2>19, ForgetMoves DEF Rest
  <2> QED
    BY <1>2, <2>1, <2>2, <2>3, <2>4, <2>5, <2>6, <2>7, <2>8, <2>9, <2>10, <2>11, <2>12,
       <2>13, <2>14, <2>15, <2>16, <2>17, <2>18, <2>19 DEF Step
<1> QED
  BY <1>1, <1>2, ClaimMoves, ForgetMoves
     DEF Next, Enqueue, Q!Enqueue, Push, Tick, Q!Tick, queueVars, ClaimNothing,
         Q!ClaimNothing, Crash

\* A stamp, and a failure that is counted, leave rows of the runs table.
LEMMA RunsUpdated ==
  ASSUME runs \in [Trigger -> Run], NEW t \in Trigger
  PROVE  Stamped(t) \in [Trigger -> Run] /\ PublishFailed(t) \in [Trigger -> Run]
<1>0. runs[t] \in Run
  OBVIOUS
<1>1. Stamped(t) \in [Trigger -> Run]
  <2> DEFINE r == [runs[t] EXCEPT !.stamped = TRUE]
  <2>1. r \in Run
    BY <1>0 DEF Run
  <2>2. Stamped(t) = [runs EXCEPT ![t] = r]
    BY DEF Stamped
  <2> HIDE DEF r
  <2> QED
    BY <2>1, <2>2
<1>2. ASSUME ~GaveUp(t) PROVE PublishFailed(t) \in [Trigger -> Run]
  <2> DEFINE n == runs[t].failures + 1
             r == [runs[t] EXCEPT !.failures = n]
  <2>1. n \in 0 .. MaxPublishAttempts
    <3>1. runs[t].failures \in 0 .. MaxPublishAttempts
      BY <1>0 DEF Run
    <3>2. runs[t].failures # MaxPublishAttempts
      BY <1>2 DEF GaveUp
    <3>3. MaxPublishAttempts \in Nat
      OBVIOUS
    <3> HIDE PublicationAssumption, QueueAssumption, FaultsAssumption
    <3> QED
      BY <3>1, <3>2, <3>3
  <2>2. PublishFailed(t) = runs \/ PublishFailed(t) = [runs EXCEPT ![t] = r]
    <3>1. [runs EXCEPT ![t].failures = @ + 1] = [runs EXCEPT ![t] = r]
      OBVIOUS
    <3> QED
      BY <3>1 DEF PublishFailed
  <2> HIDE DEF n
  <2>3. r \in Run
    BY <1>0, <2>1 DEF Run
  <2> HIDE DEF r
  <2> QED
    BY <2>2, <2>3
<1>3. GaveUp(t) => PublishFailed(t) \in [Trigger -> Run]
  BY DEF PublishFailed
<1> QED
  BY <1>1, <1>2, <1>3

\* Each step keeps the shape of the rest.
LEMMA DataStep ==
  ASSUME Shape, Next
  PROVE  DataOK'
<1>0. DataOK /\ WorkOK /\ QueueOK
  BY DEF Shape
<1>1. ASSUME UNCHANGED <<open, runs, head, world, upsets>> PROVE DataOK'
  BY <1>0, <1>1 DEF DataOK, world
<1>2. ASSUME NEW t \in Trigger, Enqueue(t) PROVE DataOK'
  <2>1. head[PullOf[t]] \in Sha
    BY <1>0 DEF DataOK
  <2> QED
    BY <1>0, <1>2, <2>1 DEF DataOK, Enqueue
<1>3. ASSUME NEW p \in Pull, NEW sha \in Sha, Push(p, sha) PROVE DataOK'
  BY <1>0, <1>3 DEF DataOK, Push, world
<1>4. ASSUME NEW o \in Owner, NEW k \in Key, NEW refused, Claim(o, k, refused)
      PROVE  DataOK'
  BY <1>0, <1>4 DEF DataOK, Claim, world
<1>5. ASSUME NEW o \in Owner, Crash(o) PROVE DataOK'
  <2>1. Subject(o) \in Trigger
    BY <1>0, <1>5, Busy, SubjectIsTrigger DEF Crash, Shape
  <2> QED
    BY <1>0, <1>5, <2>1 DEF DataOK, Crash
<1>6. ASSUME NEW o \in Owner, Step(o) PROVE DataOK'
  <2>0. work[o] \in Work /\ (work[o].pc \in OnTrigger => Key_(o) \in Trigger)
    BY <1>0 DEF WorkOK, Fits, Key_
  <2>1. ~At(o, "idle") => Subject(o) \in Trigger
    BY Busy, SubjectIsTrigger
  <2>2. CASE Refuse(o) \/ Settle(o)
    <3>1. Settled(o) \in [Trigger -> Owner \cup {NoOwner}]
      BY <1>0 DEF DataOK, Settled
    <3> QED
      BY <1>0, <2>2, <3>1 DEF DataOK, Refuse, Settle, world
  <2>3. CASE Checkout(o)
    <3>1. drains' = [drains EXCEPT ![Key_(o)] = @ + 1] \/ drains' = drains
      BY <2>3 DEF Checkout
    <3>2. drains' \in [Trigger -> Int]
      BY <1>0, <3>1 DEF DataOK
    <3> QED
      BY <1>0, <2>3, <3>2 DEF DataOK, Checkout
  <2>4. CASE Reviewed(o)
    <3> DEFINE r == [runs[Key_(o)] EXCEPT !.head = work[o].head, !.read = work[o].read]
    <3>1. Key_(o) \in Trigger /\ runs[Key_(o)] \in Run
      BY <1>0, <2>0, <2>4 DEF DataOK, Reviewed, At, OnTrigger, BeforeSettle
    <3>2. r \in Run
      BY <2>0, <3>1 DEF Run, Work
    <3>3. runs' = [runs EXCEPT ![Key_(o)] = r]
      BY <2>4 DEF Reviewed
    <3> HIDE DEF r
    <3> QED
      BY <1>0, <2>4, <3>1, <3>2, <3>3 DEF DataOK, Reviewed, world
  <2>5. CASE UsageLimited(o)
    BY <1>0, <2>0, <2>5 DEF DataOK, UsageLimited, At, OnTrigger, BeforeSettle
  <2>6. CASE ReadHead(o) \/ Stamp(o)
    <3>1. Subject(o) \in Trigger
      BY <2>1, <2>6 DEF ReadHead, Stamp, At
    <3>2. Stamped(Subject(o)) \in [Trigger -> Run]
      BY <1>0, <3>1, RunsUpdated DEF DataOK
    <3> QED
      BY <1>0, <2>6, <3>2 DEF DataOK, ReadHead, Stamp, world
  <2>7. CASE Post(o)
    <3>1. Subject(o) \in Trigger
      BY <2>1, <2>7 DEF Post, At
    <3> QED
      BY <1>0, <2>7, <3>1, WritesCounted DEF DataOK, Post
  <2>8. CASE Failed(o)
    <3>1. Subject(o) \in Trigger
      BY <2>1, <2>8 DEF Failed, At
    <3>2. PublishFailed(Subject(o)) \in [Trigger -> Run]
      BY <1>0, <3>1, RunsUpdated DEF DataOK
    <3> QED
      BY <1>0, <2>8, <3>2 DEF DataOK, Failed, world
  <2>9. CASE Announce(o)
    <3>1. Key_(o) \in Trigger
      BY <2>0, <2>9 DEF Announce, At, OnTrigger
    <3>2. notices' \in [Trigger -> Nat]
      BY <1>0, <2>9, <3>1, WritesCounted DEF DataOK, Announce, Notified
    <3> QED
      BY <1>0, <2>9, <3>2 DEF DataOK, Announce
  <2>10. CASE Fold(o)
    <3>1. Key_(o) \in Trigger
      BY <2>0, <2>10 DEF Fold, At, OnTrigger
    <3> QED
      BY <1>0, <2>10, <3>1 DEF DataOK, Fold
  <2> QED
    BY <1>1, <1>6, <2>2, <2>3, <2>4, <2>5, <2>6, <2>7, <2>8, <2>9, <2>10
       DEF Step, Start, Facts, AbandonRefused, EngineFailed, Item, StillHolds,
           EnqueuePublication, CloseRow, Rest
<1> QED
  BY <1>1, <1>2, <1>3, <1>4, <1>5, <1>6
     DEF Next, Tick, ClaimNothing, Q!Claimable

\* The shape of the first state.
LEMMA InitShape == Init => Shape
<1> SUFFICES ASSUME Init PROVE Shape
  OBVIOUS
<1>1. Q!NoRow \in Q!Row /\ Q!NoRow.status # "claimed" /\ Q!NoRow.owner \notin Owner
  BY DEF Q!NoRow, Q!Row, Q!Status
<1>2. QueueOK
  BY <1>1 DEF Init, Q!Init, QueueOK, RowsOK
<1>3. Idle \in Work /\ Fits(Q!NoClaim, Idle)
  BY DEF Idle, Work, Phase, Verb, Fits, OnTrigger, BeforeSettle
<1>4. WorkOK
  BY <1>3 DEF Init, Q!Init, WorkOK
<1>5. NoRun \in Run
  BY DEF NoRun, Run
<1>6. DataOK
  BY <1>5 DEF Init, DataOK
<1> QED
  BY <1>2, <1>4, <1>6 DEF Shape

\* The shape is invariant.
LEMMA Shaped == Spec => []Shape
<1>1. Shape /\ UNCHANGED vars => Shape'
  BY DEF Shape, QueueOK, WorkOK, DataOK, vars, world, RowsOK
<1>2. Shape /\ [Next]_vars => Shape'
  BY <1>1, QueueStep, WorkStep, DataStep DEF Shape
<1> QED
  BY <1>2, InitShape, PTL DEF Spec

-----------------------------------------------------------------------------
(* Who is entitled to what.                                                *)

\* After the settle there is nothing left to settle for a row still owned.
AfterSettle == {"publish", "post", "stamp", "failed", "enqueue", "verb"}

Entitled(o) ==
  LET k == Key_(o) IN
  /\ work[o].pc \in BeforeSettle =>
       /\ Q!Owns(k, o) => open[k] = o
       /\ open[k] = o => Q!Owns(k, o) \/ rows[k].status = "abandoned"
  /\ work[o].pc \in AfterSettle /\ k \in Trigger =>
       (Q!Owns(k, o) => open[k] = NoOwner)

Entitlements == UnclaimedIsSettled /\ \A o \in Owner : Entitled(o)

\* What a step may do to the two tables at a trigger: nothing to who is
\* entitled; give up a row that is settled, or give it up for good; or, by
\* worker o, claim the row with its reservation, or settle.
Quiet(k) ==
  /\ open'[k] = open[k]
  /\ \/ rows'[k].owner = rows[k].owner /\ rows'[k].status = rows[k].status
     \/ /\ rows'[k].owner = NoOwner
        /\ rows'[k].status = "abandoned" \/ open[k] = NoOwner

Change(k, o) ==
  \/ Quiet(k)
  \/ rows'[k].owner = o /\ rows'[k].status = "claimed" /\ open'[k] = o
  \/ rows'[k] = rows[k] /\ open[k] = o /\ open'[k] = NoOwner

\* No step leaves an allowance with a row that waits or is done.
LEMMA ChangeKeepsSettled ==
  ASSUME UnclaimedIsSettled, NEW k \in Trigger, NEW o \in Owner, Change(k, o)
  PROVE  rows'[k].status \in {"absent", "pending", "done"} => open'[k] = NoOwner
BY DEF UnclaimedIsSettled, Change, Quiet

\* A worker whose own state stays as it is, while another, or none, acts.
LEMMA Bystander ==
  ASSUME Shape, NEW p \in Owner, Entitled(p),
         Key_(p)' = Key_(p), work'[p].pc = work[p].pc,
         Key_(p) \in Trigger =>
           Quiet(Key_(p)) \/ \E o \in Owner \ {p} : Change(Key_(p), o)
  PROVE  Entitled(p)'
<1>1. CASE Key_(p) \in Trigger
  BY <1>1 DEF Entitled, Change, Quiet, Q!Owns, Shape, DataOK
<1>2. CASE Key_(p) \notin Trigger
  BY <1>2 DEF Entitled, Shape, WorkOK, Fits, OnTrigger, Key_
<1> QED
  BY <1>1, <1>2

\* Nobody is entitled to anything yet.
LEMMA InitEntitlements == Init => Entitlements
BY DEF Init, Q!Init, Idle, Entitlements, UnclaimedIsSettled, Entitled, AfterSettle,
       BeforeSettle

\* The sweep gives rows up for good.
LEMMA SweptQuietly ==
  ASSUME Shape, NEW k \in Trigger, rows'[k] = Q!Swept[k], open'[k] = open[k]
  PROVE  Quiet(k)
BY SweptRows DEF Shape, QueueOK, Quiet

\* A row of worker o that a verb closes is settled, or given up for good.
LEMMA ClosedQuietly ==
  ASSUME Shape, NEW o \in Owner, NEW k \in Trigger, Entitled(o), open' = open,
         Key_(o) \in Key, ByOwner(o, Key_(o)),
         \/ At(o, "verb")
         \/ Q!Owns(Key_(o), o) => rows'[Key_(o)].status = "abandoned"
  PROVE  Quiet(k)
<1>1. CASE k # Key_(o)
  BY <1>1 DEF ByOwner, Quiet
<1>2. CASE k = Key_(o) /\ ~Q!Owns(k, o)
  BY <1>2 DEF ByOwner, Quiet
<1>3. CASE k = Key_(o) /\ Q!Owns(k, o)
  BY <1>3 DEF ByOwner, Quiet, Entitled, At, AfterSettle
<1> QED
  BY <1>1, <1>2, <1>3

\* A row that is inserted has no allowance.
LEMMA InsertedQuietly ==
  ASSUME Shape, UnclaimedIsSettled, NEW j \in Key, rows' = Q!Inserted(j), open' = open,
         ~Q!Known(j), NEW k \in Trigger
  PROVE  Quiet(k)
<1>1. CASE k = j
  <2>1. rows[k].status = "absent"
    BY <1>1 DEF Q!Known
  <2>2. open[k] = NoOwner
    BY <2>1 DEF UnclaimedIsSettled
  <2>3. rows'[k].owner = NoOwner
    BY <1>1, InsertedRows DEF Shape, QueueOK
  <2> QED
    BY <2>2, <2>3 DEF Quiet
<1>2. CASE k # j
  BY <1>2, InsertedRows DEF Shape, QueueOK, Quiet
<1> QED
  BY <1>1, <1>2

\* A worker changes the tables in one of these ways.
LEMMA StepChanges ==
  ASSUME Shape, Entitlements, NEW o \in Owner, Step(o), NEW k \in Trigger
  PROVE  Change(k, o)
<1>0. Entitled(o) /\ UnclaimedIsSettled /\ RowsOK
  BY DEF Entitlements, Shape, QueueOK
<1>1. CASE UNCHANGED <<rows, open>>
  BY <1>1 DEF Change, Quiet
<1>2. CASE Refuse(o) \/ Settle(o)
  <2>1. rows' = rows /\ open' = Settled(o)
    BY <1>2 DEF Refuse, Settle, queueVars
  <2>2. Key_(o) \in Trigger
    BY <1>2 DEF Shape, WorkOK, Fits, OnTrigger, BeforeSettle, Refuse, Settle, At, Key_
  <2>3. open \in [Trigger -> Owner \cup {NoOwner}]
    BY DEF Shape, DataOK
  <2> QED
    BY <2>1, <2>2, <2>3 DEF Settled, Settles, Change, Quiet
<1>3. CASE AbandonRefused(o)
  <2>1. Key_(o) \in Key
    BY <1>3, Busy DEF AbandonRefused, At
  <2>2. rows' = Q!Finished(Key_(o), o, "abandoned") /\ open' = open
    BY <1>3 DEF AbandonRefused, Q!Abandon, Q!Finish, Key_
  <2>3. /\ ByOwner(o, Key_(o))
        /\ Q!Owns(Key_(o), o) => rows'[Key_(o)].status = "abandoned"
    BY <1>0, <2>1, <2>2, FinishedRows
  <2> QED
    BY <1>0, <2>1, <2>2, <2>3, ClosedQuietly DEF Change
<1>4. CASE CloseRow(o)
  <2>1. Key_(o) \in Key /\ open' = open /\ At(o, "verb")
    BY <1>4, Busy DEF CloseRow, At
  <2>2. work[o].finish \in Verb
    BY DEF Shape, WorkOK, Work
  <2>3. \/ \E status \in {"pending", "done", "abandoned"} :
             rows' = Q!Finished(Key_(o), o, status)
        \/ rows' = Q!Unattempted(Key_(o), o)
    BY <1>4, <2>2 DEF CloseRow, Verb, Q!Complete, Q!Release, Q!Abandon, Q!Finish,
                      Q!ReleaseUnattempted, Key_
  <2>4. ByOwner(o, Key_(o))
    BY <1>0, <2>1, <2>3, FinishedRows, UnattemptedRows
  <2> QED
    BY <1>0, <2>1, <2>4, ClosedQuietly DEF Change
<1>5. CASE EnqueuePublication(o)
  <2>1. Key_(o) \in Trigger
    BY <1>5 DEF Shape, WorkOK, Fits, OnTrigger, EnqueuePublication, At, Key_
  <2> QED
    BY <1>0, <1>1, <1>5, <2>1, InsertedQuietly
       DEF EnqueuePublication, Q!Enqueue, queueVars, Change
<1>6. CASE Fold(o)
  <2>1. Key_(o) \in Key
    BY <1>6, Busy DEF Fold, At
  <2>2. \/ rows'[k] = rows[k]
        \/ rows[k].status = "pending" /\ rows'[k].owner = NoOwner
    BY <1>0, <1>6, <2>1, FoldedRows DEF Fold, Q!Fold, Key_
  <2>3. rows[k].status = "pending" => open[k] = NoOwner
    BY <1>0 DEF UnclaimedIsSettled
  <2>4. open' = open
    BY <1>6 DEF Fold
  <2> QED
    BY <2>2, <2>3, <2>4 DEF Change, Quiet
<1> QED
  BY <1>1, <1>2, <1>3, <1>4, <1>5, <1>6
     DEF Step, Start, Facts, Checkout, Reviewed, EngineFailed, UsageLimited, Item,
         StillHolds, ReadHead, Post, Stamp, Failed, Announce, Rest, Q!Forget, queueVars

\* The worker that acts: its own entitlement, step by step.
LEMMA OwnStep ==
  ASSUME Shape, Entitlements, NEW o \in Owner, Step(o)
  PROVE  Entitled(o)'
<1>0. Entitled(o) /\ work[o] \in Work /\ work \in [Owner -> Work]
      /\ Fits(claims[o], work[o])
  BY DEF Entitlements, Shape, WorkOK
<1>1. ASSUME work'[o].pc \notin BeforeSettle \cup AfterSettle PROVE Entitled(o)'
  BY <1>1 DEF Entitled
<1>2. ASSUME UNCHANGED <<rows, open, claims>>, work[o].pc \in BeforeSettle,
             work'[o].pc \in BeforeSettle
      PROVE  Entitled(o)'
  BY <1>0, <1>2 DEF Entitled, AfterSettle, BeforeSettle, Key_, Q!Owns
<1>3. ASSUME UNCHANGED <<rows, open, claims>>, work[o].pc \in AfterSettle,
             work'[o].pc \in AfterSettle
      PROVE  Entitled(o)'
  BY <1>0, <1>3 DEF Entitled, AfterSettle, BeforeSettle, Key_, Q!Owns
<1>4. ASSUME UNCHANGED claims, Key_(o) \notin Trigger, work'[o].pc \notin BeforeSettle
      PROVE  Entitled(o)'
  BY <1>4 DEF Entitled, Key_
<1>5. ASSUME Leave(o) PROVE Entitled(o)'
  <2>1. work'[o].pc \in {"announce", "fold", "done"}
    BY <1>0, <1>5 DEF Leave, Idle
  <2> QED
    BY <1>1, <2>1 DEF BeforeSettle, AfterSettle
<1>6. ASSUME NEW pc, Go(o, pc) PROVE work'[o].pc = pc
  BY <1>0, <1>6 DEF Go, Work
<1>7. ASSUME NEW kind, Fails(o, kind) PROVE work'[o].pc = "settle"
  BY <1>0, <1>7 DEF Fails, End, Idle
<1>8. ASSUME NEW finish, Close(o, finish) PROVE work'[o].pc = "verb"
  BY <1>0, <1>8 DEF Close, Work
<1> USE DEF At
<1>9. CASE Start(o) \/ Facts(o) \/ Checkout(o) \/ Reviewed(o) \/ EngineFailed(o)
           \/ UsageLimited(o)
  <2>1. UNCHANGED <<rows, open, claims>> /\ work[o].pc \in BeforeSettle
    BY <1>9 DEF Start, Facts, Checkout, Reviewed, EngineFailed, UsageLimited, queueVars,
                BeforeSettle
  <2>2. work'[o].pc \in BeforeSettle \cup {"done"}
    <3>1. CASE Start(o)
      BY <1>6, <3>1 DEF Start, BeforeSettle
    <3>2. CASE Facts(o)
      <4>1. CASE work' = [work EXCEPT ![o] = [@ EXCEPT !.pc = "checkout",
                                                  !.head = head[PullOf[Key_(o)]]]]
        BY <1>0, <4>1 DEF BeforeSettle, Work
      <4>2. CASE work' = [work EXCEPT ![o] = [Idle EXCEPT !.pc = "refuse"]]
        BY <1>0, <4>2 DEF BeforeSettle, Idle
      <4> QED
        BY <1>7, <3>2, <4>1, <4>2 DEF Facts, BeforeSettle
    <3>3. CASE Checkout(o)
      <4>1. CASE work' = [work EXCEPT ![o] = [@ EXCEPT !.pc = "engine",
                                                  !.read = head[PullOf[Key_(o)]]]]
        BY <1>0, <4>1 DEF BeforeSettle, Work
      <4>2. CASE work' = [work EXCEPT ![o] = [Idle EXCEPT !.pc = "refuse", !.notice = TRUE]]
        BY <1>0, <4>2 DEF BeforeSettle, Idle
      <4>3. CASE End(o, E!Finish("too_large"), TRUE)
        BY <1>0, <4>3 DEF BeforeSettle, Idle, End
      <4> QED
        BY <1>7, <3>3, <4>1, <4>2, <4>3 DEF Checkout, BeforeSettle
    <3>4. CASE Reviewed(o)
      BY <1>0, <3>4 DEF Reviewed, BeforeSettle, Idle
    <3>5. CASE EngineFailed(o) \/ UsageLimited(o)
      BY <1>7, <3>5 DEF EngineFailed, UsageLimited, BeforeSettle
    <3> QED
      BY <1>9, <3>1, <3>2, <3>3, <3>4, <3>5
  <2> QED
    BY <1>1, <1>2, <2>1, <2>2 DEF BeforeSettle, AfterSettle
<1>10. CASE Refuse(o)
  BY <1>1, <1>6, <1>10 DEF Refuse, BeforeSettle, AfterSettle
<1>11. CASE AbandonRefused(o) \/ CloseRow(o)
  BY <1>5, <1>11 DEF AbandonRefused, CloseRow
<1>12. CASE Settle(o)
  <2>1. CASE Settles(o)
    <3>1. work'[o].pc \in AfterSettle
      BY <1>6, <1>12, <2>1 DEF Settle, AfterSettle
    <3>2. Key_(o) \in Trigger /\ claims' = claims
      BY <1>0, <1>12 DEF Settle, Fits, OnTrigger, BeforeSettle, Key_, queueVars
    <3>3. open'[Key_(o)] = NoOwner
      BY <1>12, <2>1, <3>2 DEF Settle, Settled, Shape, DataOK
    <3> QED
      BY <3>1, <3>2, <3>3 DEF Entitled, AfterSettle, BeforeSettle, Key_
  <2>2. CASE ~Settles(o)
    BY <1>5, <1>12, <2>2 DEF Settle
  <2> QED
    BY <2>1, <2>2
<1>13. CASE Item(o) \/ StillHolds(o)
  <2>1. Key_(o) \notin Trigger /\ claims' = claims
    BY <1>0, <1>13 DEF Item, StillHolds, Fits, Key_, queueVars
  <2>2. work'[o].pc \notin BeforeSettle
    <3>1. CASE Item(o) /\ Unpublished(Subject(o))
      <4> DEFINE w == [work[o] EXCEPT !.pc = "holds", !.head = runs[Subject(o)].head]
      <4>1. work' = [work EXCEPT ![o] = w]
        BY <3>1 DEF Item
      <4>2. w.pc = "holds"
        BY <1>0 DEF Work
      <4> HIDE DEF w
      <4> QED
        BY <1>0, <4>1, <4>2 DEF BeforeSettle
    <3>2. CASE Item(o) /\ ~Unpublished(Subject(o))
      BY <1>8, <3>2 DEF Item, BeforeSettle
    <3>3. CASE StillHolds(o)
      BY <1>6, <3>3 DEF StillHolds, BeforeSettle
    <3> QED
      BY <1>13, <3>1, <3>2, <3>3
  <2> QED
    BY <1>4, <2>1, <2>2
<1>14. CASE ReadHead(o) \/ Post(o) \/ Stamp(o) \/ Failed(o)
  <2>1. UNCHANGED <<rows, open, claims>> /\ work[o].pc \in AfterSettle
    BY <1>14 DEF ReadHead, Post, Stamp, Failed, queueVars, AfterSettle
  <2>2. work'[o].pc \in AfterSettle
    <3>1. CASE ReadHead(o)
      BY <1>6, <1>8, <3>1 DEF ReadHead, AfterSettle
    <3>2. CASE Post(o)
      <4>1. \E pc \in {"stamp", "failed"} : Go(o, pc)
        BY <3>2 DEF Post
      <4> QED
        BY <1>6, <4>1 DEF AfterSettle
    <3>3. CASE Stamp(o)
      BY <1>8, <3>3 DEF Stamp, AfterSettle
    <3>4. CASE Failed(o)
      BY <1>0, <3>4 DEF Failed, AfterSettle, Work
    <3> QED
      BY <1>14, <3>1, <3>2, <3>3, <3>4
  <2> QED
    BY <1>3, <2>1, <2>2
<1>15. CASE EnqueuePublication(o)
  <2>1. Key_(o) \in Trigger /\ PubOf[Key_(o)] \in Key \ Trigger
    BY <1>0, <1>15 DEF EnqueuePublication, Fits, OnTrigger, Key_
  <2>2. rows'[Key_(o)] = rows[Key_(o)] /\ UNCHANGED <<open, claims>>
    BY <1>15, <2>1, InsertedRows
       DEF EnqueuePublication, Q!Enqueue, queueVars, Shape, QueueOK
  <2>3. work'[o].pc = "verb"
    BY <1>6, <1>15 DEF EnqueuePublication
  <2> QED
    BY <1>0, <1>15, <2>2, <2>3
       DEF EnqueuePublication, Entitled, AfterSettle, BeforeSettle, Key_, Q!Owns
<1>16. CASE Announce(o) \/ Fold(o) \/ Rest(o)
  BY <1>0, <1>1, <1>6, <1>16 DEF Announce, Fold, Rest, Idle, BeforeSettle, AfterSettle
<1> QED
  BY <1>9, <1>10, <1>11, <1>12, <1>13, <1>14, <1>15, <1>16 DEF Step

\* What a worker's step leaves alone: the others.
LEMMA OthersStand ==
  ASSUME Shape, NEW o \in Owner, Step(o) \/ Crash(o), NEW p \in Owner \ {o}
  PROVE  work'[p] = work[p] /\ claims'[p] = claims[p]
<1>0. work \in [Owner -> Work] /\ claims \in [Owner -> Q!Claim \cup {Q!NoClaim}]
      /\ work[o].finish \in Verb
  BY DEF Shape, WorkOK, QueueOK, Work
<1>1. ASSUME \E w : work' = [work EXCEPT ![o] = w] PROVE work'[p] = work[p]
  BY <1>0, <1>1
<1>2. ASSUME NEW pc, Go(o, pc) PROVE work'[p] = work[p]
  BY <1>0, <1>2 DEF Go
<1>3. ASSUME Leave(o) PROVE work'[p] = work[p]
  BY <1>1, <1>3 DEF Leave
<1>4. ASSUME NEW kind, Fails(o, kind) PROVE work'[p] = work[p]
  BY <1>1, <1>4 DEF Fails, End
<1>5. ASSUME NEW finish, Close(o, finish) PROVE work'[p] = work[p]
  BY <1>1, <1>5 DEF Close
<1>6. CASE Start(o) \/ Refuse(o) \/ Settle(o) \/ StillHolds(o) \/ ReadHead(o)
           \/ Announce(o) \/ Stamp(o)
  BY <1>2, <1>3, <1>5, <1>6 DEF Start, Refuse, Settle, StillHolds, ReadHead, Announce,
                                Stamp, queueVars
<1>7. CASE Facts(o)
  BY <1>1, <1>4, <1>7 DEF Facts, queueVars
<1>8. CASE Checkout(o)
  BY <1>1, <1>4, <1>8 DEF Checkout, End, queueVars
<1>9. CASE EngineFailed(o) \/ UsageLimited(o)
  BY <1>4, <1>9 DEF EngineFailed, UsageLimited, queueVars
<1>10. CASE Reviewed(o)
  BY <1>1, <1>10 DEF Reviewed, queueVars
<1>11. CASE Failed(o)
  BY <1>1, <1>11 DEF Failed, queueVars
<1>12. CASE Item(o)
  BY <1>1, <1>5, <1>12 DEF Item, queueVars
<1>13. CASE Post(o)
  <2>1. \E pc : Go(o, pc)
    BY <1>13 DEF Post
  <2> QED
    BY <1>2, <1>13, <2>1 DEF Post, queueVars
<1>14. CASE EnqueuePublication(o)
  BY <1>2, <1>14 DEF EnqueuePublication, Q!Enqueue, queueVars
<1>15. CASE AbandonRefused(o) \/ CloseRow(o)
  <2>1. claims' = claims
    BY <1>0, <1>15 DEF AbandonRefused, CloseRow, Verb, Q!Complete, Q!Release, Q!Abandon,
                       Q!Finish, Q!ReleaseUnattempted
  <2> QED
    BY <1>3, <1>15, <2>1 DEF AbandonRefused, CloseRow
<1>16. CASE Fold(o)
  BY <1>2, <1>16 DEF Fold, Q!Fold
<1>17. CASE Rest(o) \/ Crash(o)
  BY <1>0, <1>17 DEF Rest, Crash, Q!Forget
<1> QED
  BY <1>6, <1>7, <1>8, <1>9, <1>10, <1>11, <1>12, <1>13, <1>14, <1>15, <1>16, <1>17
     DEF Step

\* Each step keeps the entitlements in agreement.
LEMMA EntitlementsStep ==
  ASSUME Shape, Entitlements, Next
  PROVE  Entitlements'
<1>0. UnclaimedIsSettled /\ RowsOK /\ \A p \in Owner : Entitled(p)
  BY DEF Entitlements, Shape, QueueOK
<1>1. ASSUME UNCHANGED <<claims, work>>, \A k \in Trigger : Quiet(k)
      PROVE  Entitlements'
  <2>1. \A p \in Owner : Entitled(p)'
    BY <1>0, <1>1, Bystander DEF Key_
  <2>2. UnclaimedIsSettled'
    BY <1>0, <1>1 DEF UnclaimedIsSettled, Quiet
  <2> QED
    BY <2>1, <2>2 DEF Entitlements
<1>2. ASSUME NEW o \in Owner, \A k \in Trigger : Change(k, o), Entitled(o)',
             \A p \in Owner \ {o} : work'[p] = work[p] /\ claims'[p] = claims[p]
      PROVE  Entitlements'
  <2>1. ASSUME NEW p \in Owner \ {o} PROVE Entitled(p)'
    BY <1>0, <1>2, Bystander DEF Key_
  <2>2. UnclaimedIsSettled'
    BY <1>0, <1>2, ChangeKeepsSettled DEF UnclaimedIsSettled
  <2> QED
    BY <1>2, <2>1, <2>2 DEF Entitlements
<1>3. ASSUME NEW t \in Trigger, Enqueue(t) PROVE Entitlements'
  BY <1>0, <1>1, <1>3, InsertedQuietly DEF Enqueue, Q!Enqueue
<1>4. ASSUME NEW p \in Pull, NEW sha \in Sha, Push(p, sha) PROVE Entitlements'
  BY <1>1, <1>4 DEF Push, queueVars, Quiet
<1>5. CASE Tick
  BY <1>0, <1>1, <1>5, AgedRows DEF Tick, Q!Tick, Quiet
<1>6. ASSUME NEW o \in Owner, NEW k \in Q!Claimable, NEW refused, Claim(o, k, refused)
      PROVE  Entitlements'
  <2>0. k \in Key
    BY DEF Q!Claimable
  <2>1. /\ rows'[k].owner = o /\ rows'[k].status = "claimed"
        /\ \A j \in Key : j # k => rows'[j] = Q!Swept[j]
    BY <1>0, <1>6, LeasedRows DEF Claim, Q!ClaimRow
  <2>2. ASSUME NEW j \in Trigger PROVE Change(j, o)
    <3>1. CASE j = k
      BY <1>6, <2>1, <3>1 DEF Change, Claim, Shape, DataOK
    <3>2. CASE j # k
      BY <1>6, <2>1, <3>2, SweptQuietly DEF Change, Claim, Shape, DataOK
    <3> QED
      BY <3>1, <3>2
  <2>3. Entitled(o)'
    <3>1. claims'[o].key = k
      BY <1>6 DEF Claim, Q!ClaimRow, Shape, QueueOK
    <3>2. work'[o].pc = IF k \in Trigger THEN "start" ELSE "item"
      BY <1>6 DEF Claim, Shape, WorkOK, Work
    <3>3. k \in Trigger => open'[k] = o
      BY <1>6 DEF Claim, Shape, DataOK
    <3> QED
      BY <2>1, <3>1, <3>2, <3>3 DEF Entitled, Key_, BeforeSettle, AfterSettle, Q!Owns
  <2>4. \A p \in Owner \ {o} : work'[p] = work[p] /\ claims'[p] = claims[p]
    BY <1>6 DEF Claim, Q!ClaimRow, Shape, QueueOK, WorkOK
  <2> QED
    BY <1>2, <2>2, <2>3, <2>4
<1>7. ASSUME NEW o \in Owner, ClaimNothing(o) PROVE Entitlements'
  BY <1>1, <1>7, SweptQuietly DEF ClaimNothing, Q!ClaimNothing
<1>8. ASSUME NEW o \in Owner, Step(o) PROVE Entitlements'
  <2>1. \A k \in Trigger : Change(k, o)
    BY <1>8, StepChanges
  <2>2. Entitled(o)'
    BY <1>8, OwnStep
  <2>3. \A p \in Owner \ {o} : work'[p] = work[p] /\ claims'[p] = claims[p]
    BY <1>8, OthersStand
  <2> QED
    BY <1>2, <2>1, <2>2, <2>3
<1>9. ASSUME NEW o \in Owner, Crash(o) PROVE Entitlements'
  <2>1. \A k \in Trigger : Change(k, o)
    BY <1>9 DEF Crash, Q!Forget, Change, Quiet
  <2>2. work'[o].pc = "idle"
    BY <1>9 DEF Crash, Idle, Shape, WorkOK
  <2>3. Entitled(o)'
    BY <2>2 DEF Entitled, BeforeSettle, AfterSettle
  <2>4. \A p \in Owner \ {o} : work'[p] = work[p] /\ claims'[p] = claims[p]
    BY <1>9, OthersStand
  <2> QED
    BY <1>2, <2>1, <2>3, <2>4
<1> QED
  BY <1>3, <1>4, <1>5, <1>6, <1>7, <1>8, <1>9 DEF Next

\* The entitlements agree and what is closed is settled, at all times.
LEMMA Entitlement == Spec => []Entitlements
<1>1. Shape /\ Entitlements /\ UNCHANGED vars => Entitlements'
  BY DEF Entitlements, UnclaimedIsSettled, Entitled, Q!Owns, Key_, vars
<1>2. Shape /\ Entitlements /\ [Next]_vars => Entitlements'
  BY <1>1, EntitlementsStep
<1> QED
  BY <1>2, Shaped, InitEntitlements, PTL DEF Spec

\* A row that waits or is done holds no allowance, whichever of the paths of
\* worker.py handed it back.
THEOREM NothingHeld == Spec => []UnclaimedIsSettled
<1>1. Entitlements => UnclaimedIsSettled
  BY DEF Entitlements
<1> QED
  BY <1>1, Entitlement, PTL

\* The lease of the queue and the reservation of the ledger never disagree on
\* which worker may go on with a review, though each is checked by itself.
THEOREM Agreement == Spec => []EntitlementsAgree
<1>1. Entitlements => EntitlementsAgree
  BY DEF Entitlements, Entitled, EntitlementsAgree
<1> QED
  BY <1>1, Entitlement, PTL

-----------------------------------------------------------------------------
(* Engine runs against attempts.                                           *)

\* A worker whose attempt at t is counted already, and whose engine run is not
\* or will be taken off again.
Spare(o, t) ==
  /\ Key_(o) = t
  /\ \/ work[o].pc \in {"start", "facts", "checkout"}
     \/ work[o].pc \in {"settle", "verb"} /\ work[o].finish = "unattempted"

Spares(t) == {o \in Owner : Spare(o, t)}

\* The attempts of a row cover the runs there were and the runs to come.
Covered(t) ==
  /\ IsFiniteSet(Spares(t))
  /\ drains[t] + Cardinality(Spares(t)) <= rows[t].attempts
  /\ rows[t].status = "absent" => rows[t].attempts = 0

Coverage == \A t \in Trigger : Covered(t)

\* The ways in which a step of worker o may move a trigger's balance.
Balance(t, o) ==
  \/ /\ Spares(t)' \subseteq Spares(t)
     /\ drains'[t] = drains[t] /\ rows'[t].attempts >= rows[t].attempts
  \/ /\ Spares(t)' \subseteq Spares(t) \cup {o}
     /\ drains'[t] = drains[t] /\ rows'[t].attempts = rows[t].attempts + 1
  \/ /\ o \in Spares(t) /\ Spares(t)' \subseteq Spares(t) \ {o}
     /\ drains'[t] = drains[t] + 1 /\ rows'[t].attempts = rows[t].attempts
  \/ /\ Spares(t)' \subseteq Spares(t) \cup {o}
     /\ drains'[t] = drains[t] - 1 /\ rows'[t].attempts = rows[t].attempts
  \/ /\ o \in Spares(t) /\ Spares(t)' \subseteq Spares(t) \ {o}
     /\ drains'[t] = drains[t] /\ rows'[t].attempts >= rows[t].attempts - 1

\* None of the moves overdraws the attempts.
LEMMA BalanceCovers ==
  ASSUME Shape, Shape', NEW t \in Trigger, NEW o \in Owner, Covered(t), Balance(t, o),
         rows'[t].status = "absent" => rows'[t].attempts = 0
  PROVE  Covered(t)'
<1>1. /\ IsFiniteSet(Spares(t)) /\ Cardinality(Spares(t)) \in Nat
      /\ drains[t] + Cardinality(Spares(t)) <= rows[t].attempts
  BY FS_CardinalityType DEF Covered
<1>2. drains[t] \in Int /\ rows[t].attempts \in Nat /\ rows'[t].attempts \in Nat
  BY DEF Shape, DataOK, QueueOK, RowsOK, Q!Row
<1>3. ASSUME NEW S, IsFiniteSet(S), NEW R, R \subseteq S
      PROVE  IsFiniteSet(R) /\ Cardinality(R) \in Nat /\ Cardinality(R) <= Cardinality(S)
  BY <1>3, FS_Subset, FS_CardinalityType
<1>4. /\ IsFiniteSet(Spares(t) \cup {o})
      /\ Cardinality(Spares(t) \cup {o}) <= Cardinality(Spares(t)) + 1
      /\ Cardinality(Spares(t) \cup {o}) \in Nat
  <2>1. /\ IsFiniteSet(Spares(t) \cup {o})
        /\ \/ Cardinality(Spares(t) \cup {o}) = Cardinality(Spares(t))
           \/ Cardinality(Spares(t) \cup {o}) = Cardinality(Spares(t)) + 1
    BY <1>1, FS_AddElement
  <2> QED
    BY <1>1, <2>1
<1>5. o \in Spares(t) =>
        /\ IsFiniteSet(Spares(t) \ {o})
        /\ Cardinality(Spares(t) \ {o}) = Cardinality(Spares(t)) - 1
  BY <1>1, FS_RemoveElement
<1>6. IsFiniteSet(Spares(t)')
  BY <1>1, <1>3, <1>4, <1>5 DEF Balance
<1>7. drains'[t] + Cardinality(Spares(t)') <= rows'[t].attempts
  <2>1. CASE /\ Spares(t)' \subseteq Spares(t)
             /\ drains'[t] = drains[t] /\ rows'[t].attempts >= rows[t].attempts
    BY <1>1, <1>2, <1>3, <2>1
  <2>2. CASE /\ Spares(t)' \subseteq Spares(t) \cup {o}
             /\ \/ drains'[t] = drains[t] /\ rows'[t].attempts = rows[t].attempts + 1
                \/ drains'[t] = drains[t] - 1 /\ rows'[t].attempts = rows[t].attempts
    <3>1. Cardinality(Spares(t)') <= Cardinality(Spares(t)) + 1
          /\ Cardinality(Spares(t)') \in Nat
      BY <1>1, <1>3, <1>4, <2>2
    <3> QED
      BY <1>1, <1>2, <2>2, <3>1
  <2>3. CASE /\ o \in Spares(t) /\ Spares(t)' \subseteq Spares(t) \ {o}
             /\ \/ drains'[t] = drains[t] + 1 /\ rows'[t].attempts = rows[t].attempts
                \/ drains'[t] = drains[t] /\ rows'[t].attempts >= rows[t].attempts - 1
    <3>1. Cardinality(Spares(t)') <= Cardinality(Spares(t)) - 1
          /\ Cardinality(Spares(t)') \in Nat
      BY <1>1, <1>3, <1>5, <2>3
    <3> QED
      BY <1>1, <1>2, <2>3, <3>1
  <2> QED
    BY <2>1, <2>2, <2>3 DEF Balance
<1> QED
  BY <1>6, <1>7 DEF Covered

\* Nothing is spent yet.
LEMMA InitCoverage == Init => Coverage
<1> SUFFICES ASSUME Init, NEW t \in Trigger PROVE Covered(t)
  BY DEF Coverage
<1>1. \A o \in Owner : work[o].pc = "idle"
  BY DEF Init, Idle
<1>3. Spares(t) = {}
  BY <1>1 DEF Spares, Spare
<1>2. rows[t].attempts = 0 /\ drains[t] = 0
  BY DEF Init, Q!Init, Q!NoRow
<1> QED
  BY <1>2, <1>3, FS_EmptySet DEF Covered

\* The spare attempts of a trigger change by those of the worker that acts.
LEMMA SparesMove ==
  ASSUME NEW o \in Owner, NEW t \in Trigger,
         \A p \in Owner \ {o} : work'[p] = work[p] /\ claims'[p] = claims[p]
  PROVE  /\ Spares(t)' \subseteq Spares(t) \cup {o}
         /\ (Spare(o, t)' => Spare(o, t)) => Spares(t)' \subseteq Spares(t)
         /\ ~Spare(o, t)' => Spares(t)' \subseteq Spares(t) \ {o}
<1>1. \A p \in Owner \ {o} : Spare(p, t)' = Spare(p, t)
  BY DEF Spare, Key_
<1>2. Spares(t)' = {p \in Owner : Spare(p, t)'}
  BY DEF Spares
<1> QED
  BY <1>1, <1>2 DEF Spares

\* Only a claim and a run at the usage limit make a spare attempt.
LEMMA NoNewSpare ==
  ASSUME Shape, NEW o \in Owner, Step(o), ~UsageLimited(o), NEW t \in Trigger, Spare(o, t)'
  PROVE  Spare(o, t)
<1>0. work[o] \in Work /\ work \in [Owner -> Work] /\ Fits(claims[o], work[o])
  BY DEF Shape, WorkOK
<1>1. /\ claims'[o].key = t
      /\ \/ work'[o].pc \in {"start", "facts", "checkout"}
         \/ work'[o].pc \in {"settle", "verb"} /\ work'[o].finish = "unattempted"
  BY DEF Spare, Key_
<1>2. ASSUME NEW pc, Go(o, pc)
      PROVE  work'[o].pc = pc /\ work'[o].finish = work[o].finish
  BY <1>0, <1>2 DEF Go, Work
<1>3. ASSUME Leave(o) PROVE FALSE
  BY <1>0, <1>1, <1>3 DEF Leave, Idle
<1>4. ASSUME NEW kind, Fails(o, kind)
      PROVE  work'[o].pc = "settle" /\ work'[o].finish = E!Finish(kind)
  BY <1>0, <1>4 DEF Fails, End, Idle
<1>5. ASSUME Close(o, "complete") PROVE FALSE
  BY <1>0, <1>1, <1>5 DEF Close, Work
<1> USE DEF At
<1>6. CASE Start(o)
  BY <1>1, <1>2, <1>6 DEF Start, queueVars, Spare, Key_
<1>7. CASE Facts(o)
  <2>1. claims' = claims /\ work[o].pc = "facts"
    BY <1>7 DEF Facts, queueVars
  <2> QED
    BY <1>1, <2>1 DEF Spare, Key_
<1>8. CASE Checkout(o)
  <2>1. claims' = claims /\ work[o].pc = "checkout"
    BY <1>8 DEF Checkout, queueVars
  <2> QED
    BY <1>1, <2>1 DEF Spare, Key_
<1>9. CASE Refuse(o) \/ StillHolds(o) \/ Announce(o) \/ Fold(o)
  BY <1>1, <1>2, <1>9 DEF Refuse, StillHolds, Announce, Fold
<1>10. CASE AbandonRefused(o) \/ CloseRow(o)
  BY <1>3, <1>10 DEF AbandonRefused, CloseRow
<1>11. CASE Reviewed(o)
  BY <1>0, <1>1, <1>11, Finishes DEF Reviewed, Idle
<1>12. CASE EngineFailed(o)
  BY <1>1, <1>4, <1>12, Finishes DEF EngineFailed
<1>13. CASE Settle(o)
  <2>1. claims' = claims /\ work[o].pc = "settle" /\ \E pc \in {"publish", "verb"} : Go(o, pc)
    BY <1>3, <1>13 DEF Settle, queueVars
  <2> QED
    BY <1>1, <1>2, <2>1 DEF Spare, Key_
<1>14. CASE Item(o)
  <2>1. claims' = claims /\ work[o].pc = "item"
    BY <1>14 DEF Item, queueVars
  <2> QED
    BY <1>0, <1>1, <2>1 DEF Fits
<1>15. CASE ReadHead(o)
  BY <1>1, <1>2, <1>5, <1>15 DEF ReadHead
<1>16. CASE Post(o)
  <2>1. \E pc \in {"stamp", "failed"} : Go(o, pc)
    BY <1>16 DEF Post
  <2> QED
    BY <1>1, <1>2, <2>1
<1>17. CASE Stamp(o)
  BY <1>5, <1>17 DEF Stamp
<1>18. CASE Failed(o)
  <2>1. claims' = claims
    BY <1>18 DEF Failed, queueVars
  <2>2. ~IsItem(o)
    BY <1>1, <2>1 DEF IsItem, Key_
  <2>3. work'[o].finish = "complete" /\ work'[o].pc \in {"verb", "enqueue"}
    BY <1>0, <1>18, <2>2 DEF Failed, Work
  <2> QED
    BY <1>1, <2>3
<1>19. CASE EnqueuePublication(o)
  BY <1>0, <1>1, <1>2, <1>19 DEF EnqueuePublication, Fits
<1>20. CASE Rest(o)
  BY <1>0, <1>1, <1>20 DEF Rest, Idle
<1> QED
  BY <1>6, <1>7, <1>8, <1>9, <1>10, <1>11, <1>12, <1>13, <1>14, <1>15, <1>16, <1>17,
     <1>18, <1>19, <1>20 DEF Step

\* Only a claim and a hand back of a run that met the limit change attempts,
\* and no row becomes absent again.
LEMMA AttemptsMove ==
  ASSUME Shape, Coverage, NEW o \in Owner, Step(o), NEW t \in Trigger
  PROVE  /\ rows'[t].status = "absent" => rows'[t].attempts = 0
         /\ \/ rows'[t].attempts >= rows[t].attempts
            \/ /\ Spare(o, t) /\ ~Spare(o, t)' /\ drains' = drains
               /\ rows'[t].attempts >= rows[t].attempts - 1
<1>0. /\ RowsOK /\ rows[t].attempts \in Nat
      /\ rows[t].status = "absent" => rows[t].attempts = 0
      /\ work[o].finish \in Verb /\ work \in [Owner -> Work]
  BY DEF Shape, QueueOK, RowsOK, Q!Row, WorkOK, Work, Coverage, Covered
<1>1. CASE rows' = rows
  BY <1>0, <1>1
<1>2. ASSUME NEW status \in {"pending", "done", "abandoned"}, Q!Finish(o, status),
             ~At(o, "idle")
      PROVE  /\ rows'[t].status = "absent" => rows'[t].attempts = 0
             /\ rows'[t].attempts = rows[t].attempts
  <2>1. Key_(o) \in Key
    BY <1>2, Busy
  <2>2. /\ ByOwner(o, Key_(o)) /\ rows'[Key_(o)].attempts = rows[Key_(o)].attempts
        /\ Q!Owns(Key_(o), o) => rows'[Key_(o)].status = status
    BY <1>0, <1>2, <2>1, FinishedRows DEF Q!Finish, Key_
  <2> QED
    BY <1>0, <2>2 DEF ByOwner
<1>3. CASE AbandonRefused(o)
  BY <1>0, <1>2, <1>3 DEF AbandonRefused, At, Q!Abandon
<1>4. CASE CloseRow(o) /\ work[o].finish # "unattempted"
  <2>1. \E status \in {"pending", "done", "abandoned"} : Q!Finish(o, status)
    BY <1>0, <1>4 DEF CloseRow, Verb, Q!Complete, Q!Release, Q!Abandon
  <2>2. ~At(o, "idle")
    BY <1>4 DEF CloseRow, At
  <2> QED
    BY <1>0, <1>2, <2>1, <2>2
<1>5. CASE CloseRow(o) /\ work[o].finish = "unattempted"
  <2>1. /\ Key_(o) \in Key /\ drains' = drains /\ At(o, "verb")
        /\ rows' = Q!Unattempted(Key_(o), o)
    BY <1>5, Busy DEF CloseRow, At, Q!ReleaseUnattempted, Key_, world
  <2>2. /\ ByOwner(o, Key_(o))
        /\ rows'[Key_(o)].attempts >= rows[Key_(o)].attempts - 1
        /\ Q!Owns(Key_(o), o) => rows'[Key_(o)].status = "pending"
        /\ rows[Key_(o)].attempts \in Nat
    <3>1. rows[Key_(o)].attempts \in Nat
      BY <1>0, <2>1 DEF RowsOK, Q!Row
    <3> QED
      BY <1>0, <2>1, <3>1, UnattemptedRows
  <2>3. CASE t # Key_(o)
    BY <1>0, <2>2, <2>3 DEF ByOwner
  <2>4. CASE t = Key_(o)
    <3>1. Spare(o, t)
      BY <1>5, <2>1, <2>4 DEF Spare, At
    <3>2. work'[o].pc \in {"announce", "fold", "done"}
      BY <1>0, <1>5 DEF CloseRow, Leave, Idle
    <3>3. ~Spare(o, t)'
      BY <3>2 DEF Spare
    <3>4. rows'[t].status = "absent" => rows'[t].attempts = 0
      BY <1>0, <2>2, <2>4 DEF ByOwner
    <3> QED
      BY <2>1, <2>2, <2>4, <3>1, <3>3, <3>4
  <2> QED
    BY <2>3, <2>4
<1>6. CASE EnqueuePublication(o)
  <2>1. Key_(o) \in Trigger /\ PubOf[Key_(o)] \in Key \ Trigger
    BY <1>6 DEF Shape, WorkOK, Fits, OnTrigger, EnqueuePublication, At, Key_
  <2>2. rows'[t] = rows[t]
    BY <1>6, <2>1, InsertedRows
       DEF EnqueuePublication, Q!Enqueue, queueVars, Shape, QueueOK
  <2> QED
    BY <1>0, <2>2
<1>7. CASE Fold(o)
  <2>1. Key_(o) \in Key
    BY <1>7, Busy DEF Fold, At
  <2>2. \/ rows'[t] = rows[t]
        \/ rows'[t].status = "done" /\ rows'[t].attempts = rows[t].attempts
    BY <1>0, <1>7, <2>1, FoldedRows DEF Fold, Q!Fold, Key_
  <2> QED
    BY <1>0, <2>2
<1> QED
  BY <1>1, <1>3, <1>4, <1>5, <1>6, <1>7
     DEF Step, Start, Facts, Checkout, Refuse, Reviewed, EngineFailed, UsageLimited, Settle,
         Item, StillHolds, ReadHead, Post, Stamp, Failed, Announce, Rest, Q!Forget, queueVars

\* Only the engine's start and the usage limit change the count of its runs.
LEMMA DrainsMove ==
  ASSUME Shape, NEW o \in Owner, Step(o), NEW t \in Trigger
  PROVE  \/ drains'[t] = drains[t]
         \/ /\ Checkout(o) /\ drains'[t] = drains[t] + 1 /\ rows' = rows
            /\ Spare(o, t) /\ ~Spare(o, t)'
         \/ UsageLimited(o) /\ drains'[t] = drains[t] - 1 /\ rows' = rows
<1>0. drains \in [Trigger -> Int] /\ work \in [Owner -> Work]
  BY DEF Shape, DataOK, WorkOK
<1>1. CASE drains' = drains
  BY <1>1
<1>2. CASE UsageLimited(o)
  BY <1>0, <1>2 DEF UsageLimited, queueVars
<1>3. CASE Checkout(o) /\ drains' # drains
  <2> DEFINE w == [work[o] EXCEPT !.pc = "engine", !.read = head[PullOf[Key_(o)]]]
  <2>1. drains' = [drains EXCEPT ![Key_(o)] = @ + 1] /\ work' = [work EXCEPT ![o] = w]
        /\ rows' = rows /\ work[o].pc = "checkout"
    BY <1>3 DEF Checkout, queueVars, At
  <2>2. w.pc = "engine"
    BY <1>0 DEF Work
  <2> HIDE DEF w
  <2>3. work'[o].pc = "engine"
    BY <1>0, <2>1, <2>2
  <2>4. ~Spare(o, t)'
    BY <2>3 DEF Spare
  <2>5. Key_(o) = t => Spare(o, t)
    BY <2>1 DEF Spare
  <2> QED
    BY <1>0, <1>3, <2>1, <2>4, <2>5
<1> QED
  BY <1>1, <1>2, <1>3
     DEF Step, Start, Facts, Refuse, AbandonRefused, Reviewed, EngineFailed, Settle,
         Item, StillHolds, ReadHead, Post, Stamp, Failed, EnqueuePublication, CloseRow,
         Announce, Fold, Rest, world

\* A worker's step is one of the moves.
LEMMA StepBalance ==
  ASSUME Shape, Coverage, NEW o \in Owner, Step(o), NEW t \in Trigger
  PROVE  Balance(t, o)
<1>1. \A p \in Owner \ {o} : work'[p] = work[p] /\ claims'[p] = claims[p]
  BY OthersStand
<1>2. Spare(o, t) => o \in Spares(t)
  BY DEF Spares
<1>3. rows[t].attempts \in Nat
  BY DEF Shape, QueueOK, RowsOK, Q!Row
<1>4. CASE UsageLimited(o)
  <2>1. rows' = rows
    BY <1>4 DEF UsageLimited, queueVars
  <2>2. drains'[t] = drains[t] - 1 \/ (drains'[t] = drains[t] /\ Key_(o) # t)
    BY <1>4 DEF UsageLimited, Shape, DataOK
  <2>3. Key_(o) # t => ~Spare(o, t)'
    BY <1>4 DEF UsageLimited, queueVars, Spare, Key_
  <2> QED
    BY <1>1, <1>3, <2>1, <2>2, <2>3, SparesMove DEF Balance
<1>5. CASE ~UsageLimited(o)
  <2>1. Spare(o, t)' => Spare(o, t)
    BY <1>5, NoNewSpare
  <2>2. /\ Spares(t)' \subseteq Spares(t)
        /\ ~Spare(o, t)' => Spares(t)' \subseteq Spares(t) \ {o}
    BY <1>1, <2>1, SparesMove
  <2>3. CASE drains'[t] = drains[t]
    BY <1>2, <1>3, <2>2, <2>3, AttemptsMove DEF Balance
  <2>4. CASE drains'[t] # drains[t]
    <3>1. /\ drains'[t] = drains[t] + 1 /\ rows' = rows
          /\ Spare(o, t) /\ ~Spare(o, t)'
      BY <1>5, <2>4, DrainsMove
    <3> QED
      BY <1>2, <2>2, <3>1 DEF Balance
  <2> QED
    BY <2>3, <2>4
<1> QED
  BY <1>4, <1>5

\* Each step keeps the runs covered.
LEMMA CoverageStep ==
  ASSUME Shape, Shape', Coverage, Next
  PROVE  Coverage'
<1> SUFFICES ASSUME NEW t \in Trigger PROVE Covered(t)'
  BY DEF Coverage
<1>0. /\ RowsOK /\ rows[t].attempts \in Nat /\ Covered(t)
      /\ rows[t].status = "absent" => rows[t].attempts = 0
  BY DEF Shape, QueueOK, RowsOK, Q!Row, Coverage, Covered
<1>1. ASSUME UNCHANGED <<claims, work, drains>>, rows'[t].attempts = rows[t].attempts,
             rows'[t].status = "absent" => rows[t].status = "absent"
      PROVE  Covered(t)'
  BY <1>0, <1>1 DEF Covered, Spares, Spare, Key_
<1>2. ASSUME NEW j \in Trigger, Enqueue(j) PROVE Covered(t)'
  <2>1. CASE j = t
    BY <1>0, <1>1, <1>2, <2>1, InsertedRows
       DEF Enqueue, Q!Enqueue, Q!Known, Shape, QueueOK
  <2>2. CASE j # t
    BY <1>0, <1>1, <1>2, <2>2, InsertedRows DEF Enqueue, Q!Enqueue, Shape, QueueOK
  <2> QED
    BY <2>1, <2>2
<1>3. ASSUME NEW p \in Pull, NEW sha \in Sha, Push(p, sha) PROVE Covered(t)'
  BY <1>1, <1>3 DEF Push, queueVars, world
<1>4. CASE Tick
  BY <1>0, <1>1, <1>4, AgedRows DEF Tick, Q!Tick, world
<1>5. ASSUME NEW o \in Owner, NEW k \in Q!Claimable, NEW refused, Claim(o, k, refused)
      PROVE  Covered(t)'
  <2>1. /\ rows'[k].status = "claimed" /\ rows'[k].attempts = rows[k].attempts + 1
        /\ \A j \in Key : j # k => rows'[j] = Q!Swept[j]
    BY <1>0, <1>5, LeasedRows DEF Claim, Q!ClaimRow
  <2>2. \A p \in Owner \ {o} : work'[p] = work[p] /\ claims'[p] = claims[p]
    BY <1>5 DEF Claim, Q!ClaimRow, Shape, QueueOK, WorkOK
  <2>3. claims'[o].key = k /\ drains' = drains
    BY <1>5 DEF Claim, Q!ClaimRow, Shape, QueueOK, world
  <2>4. CASE t = k
    <3>1. Balance(t, o)
      BY <2>1, <2>2, <2>3, <2>4, SparesMove DEF Balance
    <3> QED
      BY <1>0, <2>1, <2>4, <3>1, BalanceCovers
  <2>5. CASE t # k
    <3>1. /\ rows'[t].attempts = rows[t].attempts
          /\ rows'[t].status = "absent" => rows[t].status = "absent"
      BY <1>0, <2>1, <2>5, SweptRows
    <3>2. ~Spare(o, t)'
      BY <2>3, <2>5 DEF Spare, Key_
    <3>3. Balance(t, o)
      BY <1>0, <2>2, <2>3, <3>1, <3>2, SparesMove DEF Balance
    <3> QED
      BY <1>0, <3>1, <3>3, BalanceCovers
  <2> QED
    BY <2>4, <2>5
<1>6. ASSUME NEW o \in Owner, ClaimNothing(o) PROVE Covered(t)'
  BY <1>0, <1>1, <1>6, SweptRows DEF ClaimNothing, Q!ClaimNothing, world
<1>7. ASSUME NEW o \in Owner, Step(o) PROVE Covered(t)'
  BY <1>0, <1>7, StepBalance, AttemptsMove, BalanceCovers
<1>8. ASSUME NEW o \in Owner, Crash(o) PROVE Covered(t)'
  <2>1. \A p \in Owner \ {o} : work'[p] = work[p] /\ claims'[p] = claims[p]
    BY <1>8, OthersStand
  <2>2. work'[o].pc = "idle"
    BY <1>8 DEF Crash, Idle, Shape, WorkOK
  <2>3. ~Spare(o, t)'
    BY <2>2 DEF Spare
  <2>4. rows' = rows /\ drains' = drains
    BY <1>8 DEF Crash, Q!Forget
  <2>5. Balance(t, o)
    BY <1>0, <2>1, <2>3, <2>4, SparesMove DEF Balance
  <2> QED
    BY <1>0, <2>4, <2>5, BalanceCovers
<1> QED
  BY <1>2, <1>3, <1>4, <1>5, <1>6, <1>7, <1>8 DEF Next

\* The attempts cover the runs at all times.
LEMMA AttemptsCover == Spec => []Coverage
<1>1. ASSUME Coverage, UNCHANGED vars PROVE Coverage'
  <2>1. UNCHANGED <<rows, claims, work, drains>>
    BY <1>1 DEF vars, world
  <2>2. \A t \in Trigger : Spares(t)' = Spares(t)
    BY <2>1 DEF Spares, Spare, Key_
  <2> QED
    BY <1>1, <2>1, <2>2 DEF Coverage, Covered
<1>2. Shape /\ Shape' /\ Coverage /\ [Next]_vars => Coverage'
  BY <1>1, CoverageStep
<1> QED
  BY <1>2, Shaped, InitCoverage, PTL DEF Spec

\* Every run of the engine is an attempt of its row, however workers die,
\* lapse or hand rows back; and a claim starts none past MaxAttempts.
THEOREM DrainsCounted == Spec => []DrainsAreCounted
<1>1. ASSUME Shape, Coverage, NEW t \in Trigger PROVE drains[t] <= rows[t].attempts
  <2>1. /\ Cardinality(Spares(t)) \in Nat
        /\ drains[t] + Cardinality(Spares(t)) <= rows[t].attempts
    BY <1>1, FS_CardinalityType DEF Coverage, Covered
  <2>2. drains[t] \in Int /\ rows[t].attempts \in Nat
    BY <1>1 DEF Shape, DataOK, QueueOK, RowsOK, Q!Row
  <2> QED
    BY <2>1, <2>2
<1>2. Shape /\ Coverage => DrainsAreCounted
  BY <1>1 DEF DrainsAreCounted
<1> QED
  BY <1>2, Shaped, AttemptsCover, PTL

-----------------------------------------------------------------------------
(* The count of engine runs stays a number: a run that met the limit was   *)
(* counted when it began.                                                  *)

Running(o, t) == Key_(o) = t /\ work[o].pc = "engine"

Engines(t) == {o \in Owner : Running(o, t)}

Underway ==
  \A t \in Trigger : IsFiniteSet(Engines(t)) /\ Cardinality(Engines(t)) <= drains[t]

\* A worker comes to the engine from the checkout, where the run is counted.
LEMMA EngineBegins ==
  ASSUME Shape, NEW o \in Owner, Step(o), work'[o].pc = "engine"
  PROVE  /\ Key_(o) \in Trigger /\ claims' = claims
         /\ drains' = [drains EXCEPT ![Key_(o)] = @ + 1]
<1>0. work[o] \in Work /\ work \in [Owner -> Work] /\ Fits(claims[o], work[o])
  BY DEF Shape, WorkOK
<1>1. ASSUME NEW pc, Go(o, pc) PROVE work'[o].pc = pc
  BY <1>0, <1>1 DEF Go, Work
<1>2. ASSUME Leave(o) PROVE FALSE
  BY <1>0, <1>2 DEF Leave, Idle
<1>3. ASSUME NEW kind, Fails(o, kind) PROVE FALSE
  BY <1>0, <1>3 DEF Fails, End, Idle
<1>4. ASSUME NEW finish, Close(o, finish) PROVE FALSE
  BY <1>0, <1>4 DEF Close, Work
<1>5. ASSUME NEW w, work' = [work EXCEPT ![o] = w] PROVE w.pc = "engine"
  BY <1>0, <1>5
<1>6. CASE Checkout(o)
  <2>1. ASSUME work' = [work EXCEPT ![o] = [Idle EXCEPT !.pc = "refuse", !.notice = TRUE]]
        PROVE  FALSE
    BY <1>0, <2>1 DEF Idle
  <2>2. ASSUME End(o, E!Finish("too_large"), TRUE) PROVE FALSE
    BY <1>0, <2>2 DEF End, Idle
  <2>3. Key_(o) \in Trigger /\ claims' = claims
    BY <1>0, <1>6 DEF Checkout, At, Fits, OnTrigger, BeforeSettle, Key_, queueVars
  <2> QED
    BY <1>3, <1>6, <2>1, <2>2, <2>3 DEF Checkout
<1>7. CASE Start(o) \/ Refuse(o) \/ StillHolds(o) \/ ReadHead(o) \/ Stamp(o) \/ Settle(o)
           \/ Announce(o) \/ EnqueuePublication(o) \/ Fold(o)
  BY <1>1, <1>2, <1>4, <1>7
     DEF Start, Refuse, StillHolds, ReadHead, Stamp, Settle, Announce,
         EnqueuePublication, Fold
<1>8. CASE AbandonRefused(o) \/ CloseRow(o) \/ EngineFailed(o) \/ UsageLimited(o)
  BY <1>2, <1>3, <1>8 DEF AbandonRefused, CloseRow, EngineFailed, UsageLimited
<1>9. CASE Reviewed(o) \/ Rest(o)
  <2>1. CASE Reviewed(o)
    BY <1>0, <2>1 DEF Reviewed, Idle
  <2>2. CASE Rest(o)
    BY <1>0, <2>2 DEF Rest, Idle
  <2> QED
    BY <1>9, <2>1, <2>2
<1>10. CASE Facts(o)
  <2>1. ASSUME work' = [work EXCEPT ![o] = [@ EXCEPT !.pc = "checkout",
                                                !.head = head[PullOf[Key_(o)]]]]
        PROVE  FALSE
    BY <1>0, <1>5, <2>1 DEF Work
  <2>2. ASSUME work' = [work EXCEPT ![o] = [Idle EXCEPT !.pc = "refuse"]] PROVE FALSE
    BY <1>0, <2>2 DEF Idle
  <2> QED
    BY <1>3, <1>10, <2>1, <2>2 DEF Facts
<1>11. CASE Item(o)
  <2>1. ASSUME work' = [work EXCEPT ![o] = [@ EXCEPT !.pc = "holds",
                                                !.head = runs[Subject(o)].head]]
        PROVE  FALSE
    BY <1>0, <1>5, <2>1 DEF Work
  <2> QED
    BY <1>4, <1>11, <2>1 DEF Item
<1>12. CASE Post(o)
  <2>1. \E pc \in {"stamp", "failed"} : Go(o, pc)
    BY <1>12 DEF Post
  <2> QED
    BY <1>1, <2>1
<1>13. CASE Failed(o)
  BY <1>0, <1>13 DEF Failed, Work
<1> QED
  BY <1>6, <1>7, <1>8, <1>9, <1>10, <1>11, <1>12, <1>13 DEF Step

\* Each step keeps every run underway among the counted ones.
LEMMA UnderwayStep ==
  ASSUME Shape, Underway, Next
  PROVE  Underway'
<1> SUFFICES ASSUME NEW t \in Trigger
             PROVE  IsFiniteSet(Engines(t)') /\ Cardinality(Engines(t)') <= drains'[t]
  BY DEF Underway
<1>0. /\ IsFiniteSet(Engines(t)) /\ Cardinality(Engines(t)) \in Nat
      /\ Cardinality(Engines(t)) <= drains[t]
      /\ drains \in [Trigger -> Int] /\ work \in [Owner -> Work]
  BY FS_CardinalityType DEF Underway, Shape, DataOK, WorkOK
<1>1. ASSUME Engines(t)' \subseteq Engines(t), drains'[t] >= drains[t], drains'[t] \in Int
      PROVE  IsFiniteSet(Engines(t)') /\ Cardinality(Engines(t)') <= drains'[t]
  <2>1. /\ IsFiniteSet(Engines(t)') /\ Cardinality(Engines(t)') \in Nat
        /\ Cardinality(Engines(t)') <= Cardinality(Engines(t))
    BY <1>0, <1>1, FS_Subset, FS_CardinalityType
  <2> QED
    BY <1>0, <1>1, <2>1
<1>2. ASSUME UNCHANGED <<claims, work, drains>>
      PROVE  IsFiniteSet(Engines(t)') /\ Cardinality(Engines(t)') <= drains'[t]
  <2>1. Engines(t)' = Engines(t)
    BY <1>2 DEF Engines, Running, Key_
  <2> QED
    BY <1>0, <1>2, <2>1
<1>3. ASSUME NEW o \in Owner,
             \A p \in Owner \ {o} : work'[p] = work[p] /\ claims'[p] = claims[p]
      PROVE  /\ Engines(t)' \subseteq Engines(t) \cup {o}
             /\ ~Running(o, t)' => Engines(t)' \subseteq Engines(t) \ {o}
  <2>1. \A p \in Owner \ {o} : Running(p, t)' = Running(p, t)
    BY <1>3 DEF Running, Key_
  <2>2. Engines(t)' = {p \in Owner : Running(p, t)'}
    BY DEF Engines
  <2> QED
    BY <2>1, <2>2 DEF Engines
<1>4. ASSUME NEW o \in Owner, NEW k, NEW refused, Claim(o, k, refused)
      PROVE  IsFiniteSet(Engines(t)') /\ Cardinality(Engines(t)') <= drains'[t]
  <2>1. \A p \in Owner \ {o} : work'[p] = work[p] /\ claims'[p] = claims[p]
    BY <1>4 DEF Claim, Q!ClaimRow, Shape, QueueOK, WorkOK
  <2>2. work'[o].pc # "engine" /\ drains' = drains
    BY <1>0, <1>4 DEF Claim, Work, world
  <2>3. ~Running(o, t)'
    BY <2>2 DEF Running
  <2> QED
    BY <1>0, <1>1, <1>3, <2>1, <2>2, <2>3
<1>5. ASSUME NEW o \in Owner, Crash(o)
      PROVE  IsFiniteSet(Engines(t)') /\ Cardinality(Engines(t)') <= drains'[t]
  <2>1. \A p \in Owner \ {o} : work'[p] = work[p] /\ claims'[p] = claims[p]
    BY <1>5, OthersStand
  <2>2. work'[o].pc # "engine" /\ drains' = drains
    BY <1>0, <1>5 DEF Crash, Idle
  <2>3. ~Running(o, t)'
    BY <2>2 DEF Running
  <2> QED
    BY <1>0, <1>1, <1>3, <2>1, <2>2, <2>3
<1>6. ASSUME NEW o \in Owner, Step(o)
      PROVE  IsFiniteSet(Engines(t)') /\ Cardinality(Engines(t)') <= drains'[t]
  <2>1. \A p \in Owner \ {o} : work'[p] = work[p] /\ claims'[p] = claims[p]
    BY <1>6, OthersStand
  <2>2. CASE Running(o, t)'
    <3>1. drains'[t] = drains[t] + 1
      BY <1>0, <1>6, <2>2, EngineBegins DEF Running, Key_
    <3>2. Engines(t)' \subseteq Engines(t) \cup {o}
      BY <1>3, <2>1
    <3>3. /\ IsFiniteSet(Engines(t) \cup {o})
          /\ \/ Cardinality(Engines(t) \cup {o}) = Cardinality(Engines(t))
             \/ Cardinality(Engines(t) \cup {o}) = Cardinality(Engines(t)) + 1
      BY <1>0, FS_AddElement
    <3>4. /\ IsFiniteSet(Engines(t)') /\ Cardinality(Engines(t)') \in Nat
          /\ Cardinality(Engines(t)') <= Cardinality(Engines(t) \cup {o})
      BY <3>2, <3>3, FS_Subset, FS_CardinalityType
    <3> QED
      BY <1>0, <3>1, <3>3, <3>4
  <2>3. CASE ~Running(o, t)'
    <3>1. Engines(t)' \subseteq Engines(t) \ {o}
      BY <1>3, <2>1, <2>3
    <3>2. CASE drains'[t] >= drains[t]
      <4>1. drains'[t] \in Int
        BY <1>0, <1>6, DrainsMove
      <4> QED
        BY <1>1, <3>1, <3>2, <4>1
    <3>3. CASE ~(drains'[t] >= drains[t])
      <4>1. UsageLimited(o) /\ drains'[t] = drains[t] - 1
        BY <1>0, <1>6, <3>3, DrainsMove
      <4>2. Key_(o) = t
        BY <1>0, <4>1 DEF UsageLimited
      <4>3. o \in Engines(t)
        BY <4>1, <4>2 DEF Engines, Running, UsageLimited, At
      <4>4. /\ IsFiniteSet(Engines(t) \ {o})
            /\ Cardinality(Engines(t) \ {o}) = Cardinality(Engines(t)) - 1
        BY <1>0, <4>3, FS_RemoveElement
      <4>5. /\ IsFiniteSet(Engines(t)') /\ Cardinality(Engines(t)') \in Nat
            /\ Cardinality(Engines(t)') <= Cardinality(Engines(t) \ {o})
        BY <3>1, <4>4, FS_Subset, FS_CardinalityType
      <4> QED
        BY <1>0, <4>1, <4>4, <4>5
    <3> QED
      BY <3>2, <3>3
  <2> QED
    BY <2>2, <2>3
<1> QED
  BY <1>2, <1>4, <1>5, <1>6
     DEF Next, Enqueue, Q!Enqueue, Push, Tick, Q!Tick, ClaimNothing, Q!ClaimNothing,
         queueVars, world

\* The state keeps its shape; in particular attempts never pass MaxAttempts or
\* zero, and a usage limit never takes off an engine run that was not counted.
THEOREM Typing == Spec => []TypeOK
<1>1. Init => Underway
  <2> SUFFICES ASSUME Init, NEW t \in Trigger
               PROVE  IsFiniteSet(Engines(t)) /\ Cardinality(Engines(t)) <= drains[t]
    BY DEF Underway
  <2>1. \A o \in Owner : work[o].pc = "idle"
    BY DEF Init, Idle
  <2>2. Engines(t) = {}
    BY <2>1 DEF Engines, Running
  <2>3. drains[t] = 0
    BY DEF Init
  <2> QED
    BY <2>2, <2>3, FS_EmptySet
<1>2. ASSUME Underway, UNCHANGED vars PROVE Underway'
  <2>1. UNCHANGED <<claims, work, drains>>
    BY <1>2 DEF vars, world, queueVars
  <2>2. \A t \in Trigger : Engines(t)' = Engines(t)
    BY <2>1 DEF Engines, Running, Key_
  <2> QED
    BY <1>2, <2>1, <2>2 DEF Underway
<1>3. Shape /\ Underway /\ [Next]_vars => Underway'
  BY <1>2, UnderwayStep
<1>4. ASSUME Shape, Underway PROVE TypeOK
  <2>1. drains \in [Trigger -> Nat]
    <3>1. \A t \in Trigger : drains[t] \in Nat
      BY <1>4, FS_CardinalityType DEF Underway, Shape, DataOK
    <3> QED
      BY <1>4, <3>1 DEF Shape, DataOK
  <2> QED
    BY <1>4, <2>1 DEF Shape, QueueOK, RowsOK, WorkOK, DataOK, TypeOK, Q!TypeOK
<1> QED
  BY <1>1, <1>3, <1>4, Shaped, PTL DEF Spec

-----------------------------------------------------------------------------
(* The queue underneath.                                                   *)

\* A worker's step is a step of the queue's, or none.
LEMMA StepDrives ==
  ASSUME Shape, NEW o \in Owner, Step(o)
  PROVE  Q!Next \/ UNCHANGED Q!vars
<1>0. Fits(claims[o], work[o]) /\ work[o].finish \in Verb
  BY DEF Shape, WorkOK, Work
<1>1. CASE UNCHANGED queueVars
  BY <1>1 DEF queueVars, Q!vars
<1>2. CASE AbandonRefused(o)
  BY <1>2 DEF AbandonRefused, Q!Next
<1>3. CASE CloseRow(o)
  BY <1>0, <1>3 DEF CloseRow, Verb, Q!Next
<1>4. CASE EnqueuePublication(o)
  <2>1. PubOf[Key_(o)] \in Key
    BY <1>0, <1>4 DEF EnqueuePublication, At, Fits, OnTrigger, Key_
  <2> QED
    BY <1>1, <1>4, <2>1 DEF EnqueuePublication, Q!Next
<1>5. CASE Fold(o)
  <2>1. work[o].head \in Sha
    BY <1>0, <1>5 DEF Fold, At, Fits
  <2> QED
    BY <1>5, <2>1 DEF Fold, Q!Next
<1>6. CASE Rest(o)
  BY <1>6 DEF Rest, Q!Next
<1> QED
  BY <1>1, <1>2, <1>3, <1>4, <1>5, <1>6
     DEF Step, Start, Facts, Checkout, Refuse, Reviewed, EngineFailed, UsageLimited,
         Settle, Item, StillHolds, ReadHead, Post, Stamp, Failed, Announce

\* The pipeline implements the queue: workers, crashes and the poll cycle touch
\* the table through the methods of queue.py only, each where it may be called,
\* so whatever is proved of ReviewQueue holds of the queue in the pipeline.
THEOREM DrivesQueue == Spec => DrivesTheQueue
<1>1. Init => Q!Init
  BY DEF Init
<1>2. ASSUME Shape, Next PROVE Q!Next \/ UNCHANGED Q!vars
  <2>1. ASSUME NEW t \in Trigger, Enqueue(t) PROVE Q!Next
    BY <2>1 DEF Enqueue, Q!Next
  <2>2. ASSUME NEW p \in Pull, NEW sha \in Sha, Push(p, sha) PROVE UNCHANGED Q!vars
    BY <2>2 DEF Push, queueVars, Q!vars
  <2>3. ASSUME Tick PROVE Q!Next
    BY <2>3 DEF Tick, Q!Next
  <2>4. ASSUME NEW o \in Owner, NEW k \in Q!Claimable,
               NEW refused \in SUBSET (Q!Claimable \cap Trigger), Claim(o, k, refused)
        PROVE  Q!Next
    BY <2>4 DEF Claim, Q!Next
  <2>5. ASSUME NEW o \in Owner, ClaimNothing(o) PROVE Q!Next
    BY <2>5 DEF ClaimNothing, Q!Next
  <2>6. ASSUME NEW o \in Owner, Crash(o) PROVE Q!Next
    BY <2>6 DEF Crash, Q!Next
  <2> QED
    BY <1>2, <2>1, <2>2, <2>3, <2>4, <2>5, <2>6, StepDrives DEF Next
<1>3. UNCHANGED vars => UNCHANGED Q!vars
  BY DEF vars, Q!vars
<1>4. Shape /\ [Next]_vars => [Q!Next]_(Q!vars)
  BY <1>2, <1>3
<1> QED
  BY <1>1, <1>4, Shaped, PTL DEF Spec, DrivesTheQueue, Q!Spec
=============================================================================
