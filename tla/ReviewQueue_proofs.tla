------------------------ MODULE ReviewQueue_proofs ------------------------
(***************************************************************************)
(* Proofs about the review queue, for any keys, workers, pull requests,    *)
(* lease and attempt bound.                                                *)
(*                                                                         *)
(* The invariants are proved together, as an invariant of the table: each  *)
(* statement of the queue is shown to preserve it by a lemma of its own,   *)
(* and every action of Next runs one statement.                            *)
(***************************************************************************)
EXTENDS ReviewQueue, TLAPS

\* A row is well formed, names an owner exactly while it is claimed, runs a
\* lease only then, and is claimed only on a counted attempt.
GoodRow ==
  {r \in Row : /\ r.status = "claimed" <=> r.owner # NoOwner
               /\ r.status # "claimed" => r.lease = 0
               /\ r.status = "claimed" => r.attempts > 0}

RowsOK(t) == t \in [Key -> GoodRow]

\* No two live leases on one pull request.
Exclusive(t) ==
  \A j, k \in Key : Live(t, j) /\ Live(t, k) /\ PullOf[j] = PullOf[k] => j = k

TableInv(t) == RowsOK(t) /\ Exclusive(t)

IInv == TableInv(rows) /\ TypeOK

USE ColumnsAssumption, NullAssumption, BoundsAssumption

-----------------------------------------------------------------------------
\* A table whose live rows were all live before is as exclusive as before.
LEMMA FewerLive ==
  ASSUME NEW t, NEW u, Exclusive(t), \A k \in Key : Live(u, k) => Live(t, k)
  PROVE  Exclusive(u)
BY DEF Exclusive

\* A row whose lease and owner are given up is good, whatever it was.
LEMMA GivenUpGood ==
  ASSUME NEW r \in GoodRow, NEW status \in {"pending", "done", "abandoned"}
  PROVE  GivenUp(r, status) \in GoodRow /\ GivenUp(r, status).status = status
BY DEF GivenUp, GoodRow, Row, Status

\* Inserting a row preserves the table's invariant.
LEMMA InsertedInv ==
  ASSUME TableInv(rows), lastRow \in Nat, NEW k \in Key
  PROVE  TableInv(Inserted(k))
<1> DEFINE t == Inserted(k)
<1> DEFINE r == [status |-> "pending", attempts |-> 0, id |-> lastRow + 1,
                 lease |-> 0, owner |-> NoOwner]
<1>0. r \in GoodRow
  BY DEF GoodRow, Row, Status
<1>1. RowsOK(t)
  BY <1>0 DEF Inserted, TableInv, RowsOK
<1>2. \A j \in Key : Live(t, j) => Live(rows, j)
  BY DEF Inserted, TableInv, RowsOK, Live
<1> QED
  BY <1>1, <1>2, FewerLive DEF TableInv

\* So does the sweep of exhausted rows, which only ever ends lapsed claims.
LEMMA SweptInv ==
  ASSUME TableInv(rows)
  PROVE  TableInv(Swept)
<1>1. RowsOK(Swept)
  BY GivenUpGood DEF TableInv, RowsOK, Swept
<1>2. \A j \in Key : Live(Swept, j) => Live(rows, j)
  BY GivenUpGood DEF TableInv, RowsOK, Live, Swept
<1> QED
  BY <1>1, <1>2, FewerLive DEF TableInv

\* Leasing a claimable row: its pull request had no live lease, and it had an
\* attempt left.
LEMMA LeasedInv ==
  ASSUME TableInv(rows), NEW o \in Owner, NEW k \in Claimable
  PROVE  TableInv(Leased(k, o))
<1> DEFINE t == Leased(k, o)
<1>1. /\ k \in Key
      /\ Swept[k].attempts < MaxAttempts
      /\ \A j \in Key : PullOf[j] = PullOf[k] => ~Live(Swept, j)
  BY DEF Claimable
<1>2. TableInv(Swept)
  BY SweptInv
<1> DEFINE n == [status |-> "claimed", attempts |-> Swept[k].attempts + 1,
                 id |-> Swept[k].id, lease |-> Lease, owner |-> o]
<1>3. t = [Swept EXCEPT ![k] = n]
  BY DEF Leased
<1>4. RowsOK(t)
  <2>1. n \in Row
    BY <1>1, <1>2 DEF TableInv, RowsOK, GoodRow, Row, Status
  <2>2. n \in GoodRow
    BY <2>1, <1>1, <1>2 DEF TableInv, RowsOK, GoodRow, Row
  <2> QED
    BY <1>2, <1>3, <2>2 DEF TableInv, RowsOK
<1>5. \A j \in Key : j # k /\ Live(t, j) => Live(Swept, j)
  BY <1>2, <1>3 DEF TableInv, RowsOK, Live
<1>6. Exclusive(t)
  BY <1>1, <1>2, <1>5 DEF TableInv, Exclusive
<1> QED
  BY <1>4, <1>6 DEF TableInv

\* The verbs, which update nothing unless the caller owns the row, give a row
\* up to any status but "claimed", which ends its lease.
LEMMA FinishedInv ==
  ASSUME TableInv(rows), NEW k \in Key, NEW o \in Owner,
         NEW status \in {"pending", "done", "abandoned"}
  PROVE  TableInv(Finished(k, o, status))
<1> DEFINE n == GivenUp(rows[k], status)
           t == [rows EXCEPT ![k] = n]
<1>1. n \in GoodRow /\ n.status = status
  BY GivenUpGood DEF TableInv, RowsOK
<1> HIDE DEF n
<1>2. RowsOK(t)
  BY <1>1 DEF TableInv, RowsOK
<1>3. \A j \in Key : Live(t, j) => Live(rows, j)
  BY <1>1 DEF TableInv, RowsOK, Live
<1>4. TableInv(t)
  BY <1>2, <1>3, FewerLive DEF TableInv
<1> QED
  BY <1>4 DEF Finished, n

\* Handing a row back without counting the attempt.
LEMMA UnattemptedInv ==
  ASSUME TableInv(rows), NEW k \in Key, NEW o \in Owner
  PROVE  TableInv(Unattempted(k, o))
<1> DEFINE g == GivenUp(rows[k], "pending")
           m == IF g.attempts = 0 THEN 0 ELSE g.attempts - 1
           r == Uncounted(rows[k])
           t == [rows EXCEPT ![k] = r]
<1>1. g \in GoodRow /\ g.status = "pending"
  BY GivenUpGood DEF TableInv, RowsOK
<1>2. r \in GoodRow /\ r.status = "pending"
  <2>1. g.attempts \in 0..MaxAttempts
    BY <1>1 DEF GoodRow, Row
  <2>2. m \in 0..MaxAttempts
    BY <2>1, SMT
  <2>3. r = [g EXCEPT !.attempts = m]
    BY DEF Uncounted
  <2> HIDE DEF g, m, r
  <2>4. r = [status |-> "pending", attempts |-> m, id |-> g.id,
             lease |-> g.lease, owner |-> g.owner]
    BY <1>1, <2>3 DEF GoodRow, Row
  <2> QED
    BY <1>1, <2>2, <2>4 DEF GoodRow, Row, Status
<1> HIDE DEF r
<1>3. RowsOK(t)
  BY <1>2 DEF TableInv, RowsOK
<1>4. \A j \in Key : Live(t, j) => Live(rows, j)
  BY <1>2 DEF TableInv, RowsOK, Live
<1>5. TableInv(t)
  BY <1>3, <1>4, FewerLive DEF TableInv
<1> QED
  BY <1>5 DEF Unattempted, r

\* Folding closes rows, and gives no lease out.
LEMMA FoldedInv ==
  ASSUME TableInv(rows), NEW S
  PROVE  TableInv(Folded(S))
<1>1. RowsOK(Folded(S))
  BY GivenUpGood DEF TableInv, RowsOK, Folded
<1>2. \A j \in Key : Live(Folded(S), j) => Live(rows, j)
  BY GivenUpGood DEF TableInv, RowsOK, Live, Folded
<1> QED
  BY <1>1, <1>2, FewerLive DEF TableInv

\* Time only makes leases run out.
LEMMA AgedInv ==
  ASSUME TableInv(rows)
  PROVE  TableInv(Aged)
<1>1. RowsOK(Aged)
  <2> SUFFICES ASSUME NEW k \in Key PROVE Aged[k] \in GoodRow
    BY DEF RowsOK, Aged
  <2> DEFINE r == rows[k]
             n == IF r.lease = 0 THEN 0 ELSE r.lease - 1
  <2>1. r \in GoodRow
    BY DEF TableInv, RowsOK
  <2>2. n \in 0..Lease
    BY <2>1 DEF GoodRow, Row
  <2>3. Aged[k] = [status |-> r.status, attempts |-> r.attempts, id |-> r.id,
                   lease |-> n, owner |-> r.owner]
    BY <2>1 DEF Aged, GoodRow, Row
  <2> QED
    BY <2>1, <2>2, <2>3 DEF GoodRow, Row
<1>2. \A j \in Key : Live(Aged, j) => Live(rows, j)
  BY DEF TableInv, RowsOK, Live, Aged, GoodRow, Row
<1> QED
  BY <1>1, <1>2, FewerLive DEF TableInv

-----------------------------------------------------------------------------
LEMMA InitInv == Init => IInv
<1> SUFFICES ASSUME Init PROVE IInv
  OBVIOUS
<1>1. RowsOK(rows)
  BY DEF Init, NoRow, RowsOK, GoodRow, Row, Status
<1>2. Exclusive(rows)
  BY DEF Init, NoRow, Exclusive, Live
<1>3. TypeOK
  BY <1>1 DEF Init, TypeOK, RowsOK, GoodRow
<1> QED
  BY <1>1, <1>2, <1>3 DEF IInv, TableInv

LEMMA StepInv == IInv /\ [Next]_vars => IInv'
<1> SUFFICES ASSUME IInv, [Next]_vars
             PROVE  IInv'
  OBVIOUS
<1> USE DEF IInv
<1>r. ASSUME TableInv(rows') PROVE (RowsOK(rows') /\ Exclusive(rows'))
  BY <1>r DEF TableInv
<1>t. ASSUME TableInv(rows'), lastRow' \in Nat,
             claims' \in [Owner -> Claim \cup {NoClaim}]
      PROVE  IInv'
  <2>1. TableInv(rows)'
    BY <1>t DEF TableInv, RowsOK, Exclusive, Live
  <2>2. TypeOK'
    BY <1>t, <1>r DEF TypeOK, RowsOK, GoodRow
  <2> QED
    BY <2>1, <2>2
<1>h. \A o \in Owner : claims[o] # NoClaim => claims[o].key \in Key
  BY DEF TypeOK, Claim
<1>1. ASSUME NEW k \in Key, Enqueue(k) PROVE IInv'
  BY <1>1, <1>t, InsertedInv DEF Enqueue, TypeOK
<1>2. ASSUME NEW o \in Owner, NEW k \in Claimable, NEW refused, ClaimRow(o, k, refused)
      PROVE  IInv'
  <2>1. [key |-> k, started |-> lastRow] \in Claim
    BY DEF Claim, Claimable, TypeOK
  <2> QED
    BY <1>2, <2>1, <1>t, LeasedInv DEF ClaimRow, TypeOK
<1>3. ASSUME NEW o \in Owner, ClaimNothing(o, Claimable) PROVE IInv'
  BY <1>3, <1>t, SweptInv DEF ClaimNothing, TypeOK
<1>4. ASSUME NEW o \in Owner, NEW status \in {"pending", "done", "abandoned"},
             Finish(o, status)
      PROVE  IInv'
  BY <1>4, <1>h, <1>t, FinishedInv DEF Finish, TypeOK
<1>5. ASSUME NEW o \in Owner, ReleaseUnattempted(o) PROVE IInv'
  BY <1>5, <1>h, <1>t, UnattemptedInv DEF ReleaseUnattempted, TypeOK
<1>6. ASSUME NEW o \in Owner, Forget(o) PROVE IInv'
  BY <1>6, <1>t DEF Forget, TypeOK
<1>7. ASSUME NEW o \in Owner, NEW head \in Sha, Fold(o, head) PROVE IInv'
  <2> DEFINE S == Answered(claims[o].key, claims[o].started, head)
  <2>1. TableInv(Folded(S))
    BY FoldedInv
  <2> QED
    BY <1>7, <2>1, <1>t DEF Fold, TypeOK
<1>8. CASE Tick
  BY <1>8, <1>t, AgedInv DEF Tick, TypeOK
<1>9. CASE UNCHANGED vars
  BY <1>9, <1>t DEF vars, TypeOK
<1> QED
  BY <1>1, <1>2, <1>3, <1>4, <1>5, <1>6, <1>7, <1>8, <1>9
     DEF Next, Complete, Release, Abandon

\* IInv is an inductive invariant of the queue.
LEMMA Invariance == Spec => []IInv
BY InitInv, StepInv, PTL DEF Spec

-----------------------------------------------------------------------------
\* The table and the Claim objects keep their shape.
THEOREM Typing == Spec => []TypeOK
<1>1. IInv => TypeOK
  BY DEF IInv
<1> QED
  BY <1>1, Invariance, PTL

\* At most one live lease per pull request, in every reachable table: the
\* NOT EXISTS of _CLAIMABLE, in one transaction with the write that leases.
THEOREM LeaseExclusion == Spec => []OneLiveLeasePerPull
<1>1. IInv => OneLiveLeasePerPull
  BY DEF IInv, TableInv, Exclusive, OneLiveLeasePerPull
<1> QED
  BY <1>1, Invariance, PTL

\* Every claimed row stands on a counted attempt: the MAX() of
\* _RELEASE_UNATTEMPTED is a floor that is never reached.
THEOREM AttemptCounted == Spec => []ClaimIsCounted
<1>1. IInv => ClaimIsCounted
  BY DEF IInv, TableInv, RowsOK, GoodRow, ClaimIsCounted
<1> QED
  BY <1>1, Invariance, PTL

-----------------------------------------------------------------------------
(* What each statement does to the row of one key.                         *)

\* A row that is neither offered nor given up nor leased is left alone by a
\* claim, whatever the claim takes.
LEMMA ClaimLeavesAlone ==
  ASSUME TableInv(rows), NEW k \in Key, ~Offered(rows, k)
  PROVE  /\ Swept[k] = rows[k]
         /\ \A o \in Owner, j \in Claimable : Leased(j, o)[k] = rows[k]
<1>1. Swept[k] = rows[k]
  BY DEF Swept, Exhausted
<1>2. ASSUME NEW o \in Owner, NEW j \in Claimable
      PROVE  Leased(j, o)[k] = rows[k]
  <2>1. j # k
    BY <1>1 DEF Claimable, Offered, Lapsed
  <2> QED
    BY <1>1, <2>1 DEF Leased, Swept
<1> QED
  BY <1>1, <1>2

\* A verb touches the row of its own claim only, and that only while the
\* caller owns it.
LEMMA VerbsOwn ==
  ASSUME TableInv(rows), NEW k \in Key, NEW j \in Key, NEW o \in Owner, NEW status,
         j # k \/ rows[k].owner # o
  PROVE  /\ Finished(j, o, status)[k] = rows[k]
         /\ Unattempted(j, o)[k] = rows[k]
BY DEF Finished, Unattempted, Owns, TableInv, RowsOK

\* What one step may do to a row that is not offered: time passes, or its
\* owner gives it up, or it was not there.
LEMMA UnofferedStep ==
  ASSUME IInv, [Next]_vars, NEW k \in Key, ~Offered(rows, k),
         rows[k].status # "absent"
  PROVE  \/ rows'[k] = rows[k]
         \/ rows'[k] = [rows[k] EXCEPT !.lease = IF @ = 0 THEN 0 ELSE @ - 1]
         \/ \E o \in Owner : rows[k].owner = o /\ claims[o].key = k
<1> USE DEF IInv
<1>h. \A o \in Owner : claims[o] # NoClaim => claims[o].key \in Key
  BY DEF TypeOK, Claim
<1>1. ASSUME NEW j \in Key, Enqueue(j) PROVE rows'[k] = rows[k]
  BY <1>1 DEF Enqueue, Known, Inserted, TypeOK
<1>2. ASSUME NEW o \in Owner, NEW j \in Claimable, NEW refused, ClaimRow(o, j, refused)
      PROVE  rows'[k] = rows[k]
  BY <1>2, ClaimLeavesAlone DEF ClaimRow
<1>3. ASSUME NEW o \in Owner, ClaimNothing(o, Claimable) PROVE rows'[k] = rows[k]
  BY <1>3, ClaimLeavesAlone DEF ClaimNothing
<1>4. ASSUME NEW o \in Owner, NEW status, Finish(o, status)
      PROVE  rows'[k] = rows[k] \/ (rows[k].owner = o /\ claims[o].key = k)
  BY <1>4, <1>h, VerbsOwn DEF Finish
<1>5. ASSUME NEW o \in Owner, ReleaseUnattempted(o)
      PROVE  rows'[k] = rows[k] \/ (rows[k].owner = o /\ claims[o].key = k)
  <2>1. claims[o].key \in Key
    BY <1>5, <1>h DEF ReleaseUnattempted
  <2>2. ASSUME claims[o].key # k \/ rows[k].owner # o
        PROVE  Unattempted(claims[o].key, o)[k] = rows[k]
    BY <2>1, <2>2 DEF Unattempted, Owns, TableInv, RowsOK
  <2> QED
    BY <1>5, <2>2 DEF ReleaseUnattempted
<1>6. ASSUME NEW o \in Owner, NEW head \in Sha, Fold(o, head) PROVE rows'[k] = rows[k]
  BY <1>6 DEF Fold, Folded, Answered, Offered
<1>7. CASE Tick
  BY <1>7 DEF Tick, Aged
<1>8. ASSUME UNCHANGED rows PROVE rows'[k] = rows[k]
  BY <1>8
<1> QED
  BY <1>1, <1>2, <1>3, <1>4, <1>5, <1>6, <1>7, <1>8
     DEF Next, Complete, Release, Abandon, Forget, vars

\* A live lease is never taken away from the worker that holds it.
THEOREM Untouchable == Spec => NoTheft
<1> DEFINE Step(k) ==
      Live(rows, k) =>
        \/ rows'[k] = rows[k]
        \/ rows'[k] = [rows[k] EXCEPT !.lease = @ - 1]
        \/ \E o \in Owner : rows[k].owner = o /\ claims[o].key = k
<1>1. ASSUME IInv, [Next]_vars, NEW k \in Key, Live(rows, k)
      PROVE  \/ rows'[k] = rows[k]
             \/ rows'[k] = [rows[k] EXCEPT !.lease = @ - 1]
             \/ \E o \in Owner : rows[k].owner = o /\ claims[o].key = k
  <2>1. /\ ~Offered(rows, k)
        /\ rows[k].status # "absent"
        /\ rows[k].lease # 0
    BY <1>1 DEF Live, Offered, Lapsed, IInv, TypeOK, Row
  <2> QED
    BY <1>1, <2>1, UnofferedStep
<1>2. IInv /\ [Next]_vars => [\A k \in Key : Step(k)]_vars
  BY <1>1
<1> QED
  BY <1>2, Invariance, PTL DEF Spec, NoTheft

\* A done or abandoned row never changes again.
THEOREM ClosedStays == Spec => ClosedForGood
<1>1. ASSUME IInv, [Next]_vars, NEW k \in Key, rows[k].status \in {"done", "abandoned"}
      PROVE  rows'[k] = rows[k]
  <2>1. /\ ~Offered(rows, k)
        /\ rows[k].status # "absent"
        /\ rows[k].lease = 0
        /\ rows[k].owner = NoOwner
        /\ rows[k] \in Row
    BY <1>1 DEF Offered, Lapsed, IInv, TableInv, RowsOK, GoodRow
  <2>2. [rows[k] EXCEPT !.lease = 0] = rows[k]
    BY <2>1 DEF Row
  <2>3. [rows[k] EXCEPT !.lease = IF @ = 0 THEN 0 ELSE @ - 1] = rows[k]
    BY <2>1, <2>2
  <2> QED
    BY <1>1, <2>1, <2>3, UnofferedStep
<1>2. IInv /\ [Next]_vars =>
        [\A k \in Key : rows[k].status \in {"done", "abandoned"} => rows'[k] = rows[k]]_vars
  BY <1>1
<1> QED
  BY <1>2, Invariance, PTL DEF Spec, ClosedForGood

-----------------------------------------------------------------------------
(***************************************************************************)
(* The review queue implements the lease table: what each statement does   *)
(* to the table, read through the refinement mapping, is a step of         *)
(* LeaseTable or none.                                                     *)
(***************************************************************************)

\* The mapping, of any table.
StateOf(t, k) ==
  CASE t[k].status = "absent" -> "absent"
    [] Offered(t, k) -> "waiting"
    [] Live(t, k) -> "held"
    [] t[k].status \in {"done", "abandoned"} -> "closed"
HolderOf(t, k) == IF Live(t, k) THEN t[k].owner ELSE NoOwner

-----------------------------------------------------------------------------
\* What the mapping says of a table of good rows.
LEMMA StateMeans ==
  ASSUME NEW t, RowsOK(t), NEW k \in Key
  PROVE  /\ StateOf(t, k) \in {"absent", "waiting", "held", "closed"}
         /\ StateOf(t, k) = "absent" <=> t[k].status = "absent"
         /\ StateOf(t, k) = "waiting" <=> Offered(t, k)
         /\ StateOf(t, k) = "held" <=> Live(t, k)
         /\ StateOf(t, k) = "closed" <=> t[k].status \in {"done", "abandoned"}
<1>1. t[k] \in GoodRow
  BY DEF RowsOK
<1>2. t[k].status \in Status /\ t[k].lease \in Nat
  BY <1>1 DEF GoodRow, Row
<1> QED
  BY <1>2 DEF StateOf, Offered, Lapsed, Live, Status

\* The two barred variables, before a step and after it.
LEMMA Mapped ==
  /\ WorkState = [k \in Key |-> StateOf(rows, k)]
  /\ WorkHolder = [k \in Key |-> HolderOf(rows, k)]
  /\ WorkState' = [k \in Key |-> StateOf(rows', k)]
  /\ WorkHolder' = [k \in Key |-> HolderOf(rows', k)]
BY DEF WorkState, WorkHolder, StateOf, HolderOf, Offered, Lapsed, Live

\* A row that is left alone is mapped alike.
LEMMA SameRow ==
  ASSUME NEW t, NEW u, NEW k \in Key, t[k] = u[k]
  PROVE  StateOf(t, k) = StateOf(u, k) /\ HolderOf(t, k) = HolderOf(u, k)
BY DEF StateOf, HolderOf, Offered, Lapsed, Live

\* A row without a live lease is held by nobody.
LEMMA NotHeld ==
  ASSUME NEW t, NEW k \in Key, ~Live(t, k)
  PROVE  HolderOf(t, k) = NoOwner
BY DEF HolderOf

-----------------------------------------------------------------------------
\* Waiting work is closed, by the sweep or by a fold.
LEMMA DismissStep ==
  ASSUME IInv, RowsOK(rows'), NEW S \in SUBSET Key,
         \A k \in S : Offered(rows, k) /\ rows'[k].status \in {"done", "abandoned"},
         \A k \in Key \ S : rows'[k] = rows[k]
  PROVE  Promise!Dismiss(S)
<1>1. RowsOK(rows)
  BY DEF IInv, TableInv
<1>2. S \subseteq Promise!Waiting
  BY <1>1, StateMeans, Mapped DEF Promise!Waiting
<1>3. \A k \in Key : StateOf(rows', k) = IF k \in S THEN "closed" ELSE StateOf(rows, k)
  <2>1. ASSUME NEW k \in S PROVE StateOf(rows', k) = "closed"
    BY StateMeans
  <2>2. ASSUME NEW k \in Key \ S PROVE StateOf(rows', k) = StateOf(rows, k)
    <3>1. rows'[k] = rows[k]
      OBVIOUS
    <3> QED
      BY <3>1, SameRow
  <2> QED
    BY <2>1, <2>2
<1>4. \A k \in Key : HolderOf(rows', k) = HolderOf(rows, k)
  <2>1. ASSUME NEW k \in S PROVE HolderOf(rows', k) = NoOwner /\ HolderOf(rows, k) = NoOwner
    <3>1. ~Live(rows', k) /\ ~Live(rows, k)
      BY DEF Live, Offered, Lapsed
    <3> QED
      BY <3>1, NotHeld
  <2>2. ASSUME NEW k \in Key \ S PROVE HolderOf(rows', k) = HolderOf(rows, k)
    BY SameRow
  <2> QED
    BY <2>1, <2>2
<1> QED
  BY <1>2, <1>3, <1>4, Mapped DEF Promise!Dismiss

\* One row changes, and what it is mapped to changes with it or does not.
LEMMA OneRow ==
  ASSUME NEW k \in Key, \A j \in Key \ {k} : rows'[j] = rows[j]
  PROVE  /\ WorkState' = [WorkState EXCEPT ![k] = StateOf(rows', k)]
         /\ WorkHolder' = [WorkHolder EXCEPT ![k] = HolderOf(rows', k)]
<1>1. \A j \in Key \ {k} : /\ StateOf(rows', j) = StateOf(rows, j)
                           /\ HolderOf(rows', j) = HolderOf(rows, j)
  BY SameRow
<1> QED
  BY <1>1, Mapped

LEMMA EnqueueStep ==
  ASSUME IInv, RowsOK(rows'), NEW k \in Key, Enqueue(k)
  PROVE  Promise!Add(k)
<1>1. RowsOK(rows)
  BY DEF IInv, TableInv
<1>2. rows[k].status = "absent" /\ rows'[k].status = "pending"
  BY <1>1 DEF Enqueue, Known, Inserted, RowsOK
<1>3. \A j \in Key \ {k} : rows'[j] = rows[j]
  BY <1>1 DEF Enqueue, Inserted, RowsOK
<1>4. StateOf(rows, k) = "absent" /\ StateOf(rows', k) = "waiting"
  BY <1>1, <1>2, StateMeans DEF Offered
<1>5. HolderOf(rows, k) = NoOwner /\ HolderOf(rows', k) = NoOwner
  BY <1>2, NotHeld DEF Live
<1> QED
  BY <1>3, <1>4, <1>5, OneRow, Mapped DEF Promise!Add

\* The sweep closes exhausted rows, and a claim takes one that waits, of a pull
\* request that has none under way.
LEMMA TakeRow ==
  ASSUME IInv, RowsOK(rows'), NEW o \in Owner, NEW k \in Claimable, rows' = Leased(k, o)
  PROVE  Promise!Take(o, k, {j \in Key : Exhausted(j)})
<1> DEFINE S == {j \in Key : Exhausted(j)}
<1>1. RowsOK(rows) /\ k \in Key
  BY DEF IInv, TableInv, Claimable
<1>2. /\ \A j \in S : j \in Key /\ Swept[j].status = "abandoned"
      /\ \A j \in Key \ S : Swept[j] = rows[j]
  BY DEF Swept, GivenUp
<1>3. k \notin S /\ Offered(rows, k)
  <2>1. Offered(Swept, k)
    BY DEF Claimable
  <2>2. ASSUME k \in S PROVE FALSE
    <3>1. Swept[k].status = "abandoned"
      BY <1>2, <2>2
    <3> QED
      BY <2>1, <3>1 DEF Offered, Lapsed
  <2>3. Swept[k] = rows[k]
    BY <1>1, <1>2, <2>2
  <2> QED
    BY <2>1, <2>2, <2>3 DEF Offered, Lapsed
<1>4. S \subseteq Promise!Waiting /\ k \in Promise!Waiting \ S
  BY <1>1, <1>3, StateMeans, Mapped DEF Promise!Waiting, Exhausted
<1>5. PullOf[k] \notin Promise!HeldPulls
  <2>1. ASSUME NEW j \in Key, Live(rows, j) PROVE PullOf[j] # PullOf[k]
    <3>1. Swept[j] = rows[j]
      BY <1>2, <2>1 DEF Exhausted, Offered, Lapsed, Live
    <3>2. Live(Swept, j)
      BY <2>1, <3>1 DEF Live
    <3> QED
      BY <3>2 DEF Claimable
  <2>2. \A j \in Key : WorkState[j] = "held" => Live(rows, j)
    BY <1>1, StateMeans, Mapped
  <2> QED
    BY <2>1, <2>2 DEF Promise!HeldPulls
<1>6. /\ rows'[k].status = "claimed" /\ rows'[k].lease = Lease /\ rows'[k].owner = o
      /\ \A j \in Key \ {k} : rows'[j] = Swept[j]
  BY <1>1 DEF Leased, Swept
<1>11. \A j \in S : j # k => rows'[j].status = "abandoned"
  BY <1>2, <1>6
<1>7. Live(rows', k)
  BY <1>6, BoundsAssumption DEF Live
<1>8. \A j \in Key : StateOf(rows', j) = CASE j = k -> "held" [] j \in S -> "closed"
                                            [] OTHER -> StateOf(rows, j)
  <2>1. StateOf(rows', k) = "held"
    BY <1>1, <1>7, StateMeans
  <2>2. ASSUME NEW j \in S, j # k PROVE StateOf(rows', j) = "closed"
    BY <1>11, <2>2, StateMeans
  <2>3. ASSUME NEW j \in Key \ S, j # k PROVE StateOf(rows', j) = StateOf(rows, j)
    <3>1. rows'[j] = rows[j]
      BY <1>2, <1>6, <2>3
    <3> QED
      BY <3>1, SameRow
  <2> QED
    BY <1>3, <2>1, <2>2, <2>3
<1>9. \A j \in Key : HolderOf(rows', j) = IF j = k THEN o ELSE HolderOf(rows, j)
  <2>1. HolderOf(rows', k) = o
    BY <1>6, <1>7 DEF HolderOf
  <2>2. ASSUME NEW j \in S, j # k PROVE HolderOf(rows', j) = NoOwner /\ HolderOf(rows, j) = NoOwner
    <3>1. ~Live(rows', j)
      BY <1>11, <2>2 DEF Live
    <3>2. ~Live(rows, j)
      BY <2>2 DEF Live, Exhausted, Offered, Lapsed
    <3> QED
      BY <3>1, <3>2, NotHeld
  <2>3. ASSUME NEW j \in Key \ S, j # k PROVE HolderOf(rows', j) = HolderOf(rows, j)
    <3>1. rows'[j] = rows[j]
      BY <1>2, <1>6, <2>3
    <3> QED
      BY <3>1, SameRow
  <2> QED
    BY <2>1, <2>2, <2>3
<1> HIDE DEF S
<1>10. /\ WorkState' = [j \in Key |-> CASE j = k -> "held" [] j \in S -> "closed"
                                        [] OTHER -> WorkState[j]]
       /\ WorkHolder' = [WorkHolder EXCEPT ![k] = o]
  BY <1>1, <1>8, <1>9, Mapped
<1> QED
  BY <1>4, <1>5, <1>10 DEF Promise!Take, S

\* A verb that is carried out: its caller gives the row up, if its lease still
\* runs; otherwise the row was waiting already.
LEMMA VerbStep ==
  ASSUME IInv, RowsOK(rows'), NEW o \in Owner, NEW k \in Key, rows[k].owner = o,
         rows'[k].status \in {"pending", "done", "abandoned"},
         \A j \in Key \ {k} : rows'[j] = rows[j]
  PROVE  [Promise!Next]_Promise!vars
<1> DEFINE to == IF rows'[k].status = "pending" THEN "waiting" ELSE "closed"
<1>1. RowsOK(rows) /\ rows[k].status = "claimed"
  BY NullAssumption DEF IInv, TableInv, RowsOK, GoodRow
<1>2. StateOf(rows', k) = to /\ HolderOf(rows', k) = NoOwner
  BY StateMeans, NotHeld DEF Offered, Live
<1>3. CASE Live(rows, k)
  <2>1. WorkState[k] = "held" /\ WorkHolder[k] = o
    BY <1>1, <1>3, StateMeans, Mapped DEF HolderOf
  <2>2. Promise!GiveUp(o, k, to)
    BY <1>2, <2>1, OneRow DEF Promise!GiveUp
  <2> QED
    BY <2>2 DEF Promise!Next
<1>4. CASE ~Live(rows, k)
  <2>1. Offered(rows, k)
    BY <1>1, <1>4 DEF Live, Offered, Lapsed, RowsOK, GoodRow, Row
  <2>2. CASE rows'[k].status = "pending"
    <3>1. StateOf(rows, k) = "waiting" /\ HolderOf(rows, k) = NoOwner
      BY <1>1, <1>4, <2>1, StateMeans, NotHeld
    <3>2. StateOf(rows', k) = "waiting" /\ HolderOf(rows', k) = NoOwner
      BY <1>1, <2>2, StateMeans, NotHeld DEF Offered, Live
    <3>3. WorkState' = WorkState /\ WorkHolder' = WorkHolder
      BY <1>2, <3>1, <3>2, OneRow, Mapped
    <3> QED
      BY <3>3 DEF Promise!vars
  <2>3. CASE rows'[k].status # "pending"
    <3>1. Promise!Dismiss({k})
      BY <2>1, <2>3, DismissStep
    <3> QED
      BY <3>1 DEF Promise!Next
  <2> QED
    BY <2>2, <2>3
<1> QED
  BY <1>3, <1>4

\* Leases run out, or only down.
LEMMA TickStep ==
  ASSUME IInv, RowsOK(rows'), Tick
  PROVE  [Promise!Next]_Promise!vars
<1> DEFINE S == {k \in Key : Live(rows, k) /\ ~Live(rows', k)}
<1>1. RowsOK(rows)
  BY DEF IInv, TableInv
<1>2. \A k \in Key : /\ rows'[k].status = rows[k].status /\ rows'[k].owner = rows[k].owner
                     /\ rows[k].lease = 0 => rows'[k].lease = 0
  BY <1>1 DEF Tick, Aged, RowsOK, GoodRow, Row
<1>3. \A k \in Key : rows[k].lease \in Nat /\ rows'[k].lease \in Nat
  BY <1>1 DEF RowsOK, GoodRow, Row
<1>4. \A k \in Key : StateOf(rows', k) = IF k \in S THEN "waiting" ELSE StateOf(rows, k)
  <2> SUFFICES ASSUME NEW k \in Key
               PROVE  StateOf(rows', k) = IF k \in S THEN "waiting" ELSE StateOf(rows, k)
    OBVIOUS
  <2>1. CASE k \in S
    <3>1. Offered(rows', k)
      BY <1>2, <1>3, <2>1 DEF Live, Offered, Lapsed
    <3> QED
      BY <2>1, <3>1, StateMeans
  <2>2. CASE k \notin S
    <3>1. /\ Live(rows', k) <=> Live(rows, k)
          /\ Offered(rows', k) <=> Offered(rows, k)
          /\ rows'[k].status = rows[k].status
      BY <1>2, <1>3, <2>2 DEF Live, Offered, Lapsed
    <3> QED
      BY <1>1, <2>2, <3>1, StateMeans
  <2> QED
    BY <2>1, <2>2
<1>5. \A k \in Key : HolderOf(rows', k) = IF k \in S THEN NoOwner ELSE HolderOf(rows, k)
  BY <1>2, <1>3 DEF HolderOf, Live
<1>6. \A k \in S : WorkState[k] = "held"
  BY <1>1, StateMeans, Mapped
<1> HIDE DEF S
<1>7. CASE S = {}
  <2>1. WorkState' = WorkState /\ WorkHolder' = WorkHolder
    BY <1>4, <1>5, <1>7, Mapped
  <2> QED
    BY <2>1 DEF Promise!vars
<1>8. CASE S # {}
  <2>1. Promise!Lapse(S)
    BY <1>4, <1>5, <1>6, <1>8, Mapped DEF Promise!Lapse
  <2>2. S \in SUBSET Key
    BY DEF S
  <2> QED
    BY <2>1, <2>2 DEF Promise!Next
<1> QED
  BY <1>7, <1>8

-----------------------------------------------------------------------------
LEMMA PromiseInit == Init => Promise!Init
<1> SUFFICES ASSUME Init PROVE Promise!Init
  OBVIOUS
<1>1. \A k \in Key : StateOf(rows, k) = "absent" /\ HolderOf(rows, k) = NoOwner
  <2> SUFFICES ASSUME NEW k \in Key
               PROVE  StateOf(rows, k) = "absent" /\ HolderOf(rows, k) = NoOwner
    OBVIOUS
  <2>1. rows[k].status = "absent"
    BY DEF Init, NoRow
  <2> QED
    BY <2>1 DEF StateOf, HolderOf, Live, Offered, Lapsed
<1> QED
  BY <1>1, Mapped DEF Promise!Init

LEMMA PromiseStep ==
  ASSUME IInv, [Next]_vars, IInv'
  PROVE  [Promise!Next]_Promise!vars
<1>0. RowsOK(rows) /\ RowsOK(rows')
  BY DEF IInv, TableInv, RowsOK
<1>h. \A o \in Owner : claims[o] # NoClaim => claims[o].key \in Key
  BY DEF IInv, TypeOK, Claim
<1>s. ASSUME rows' = rows PROVE [Promise!Next]_Promise!vars
  <2>1. WorkState' = WorkState /\ WorkHolder' = WorkHolder
    BY <1>s, Mapped
  <2> QED
    BY <2>1 DEF Promise!vars
<1>1. ASSUME NEW k \in Key, Enqueue(k) PROVE Promise!Next
  BY <1>0, <1>1, EnqueueStep DEF Promise!Next
<1>2. ASSUME NEW o \in Owner, NEW k \in Claimable, NEW refused, ClaimRow(o, k, refused)
      PROVE  Promise!Next
  <2>1. Promise!Take(o, k, {j \in Key : Exhausted(j)})
    BY <1>0, <1>2, TakeRow DEF ClaimRow
  <2>2. k \in Key
    BY DEF Claimable
  <2> QED
    BY <2>1, <2>2 DEF Promise!Next
<1>3. ASSUME NEW o \in Owner, ClaimNothing(o, Claimable) PROVE Promise!Next
  <2> DEFINE S == {j \in Key : Exhausted(j)}
  <2>1. /\ \A k \in S : Offered(rows, k) /\ rows'[k].status \in {"done", "abandoned"}
        /\ \A k \in Key \ S : rows'[k] = rows[k]
    BY <1>3 DEF ClaimNothing, Swept, Exhausted, GivenUp
  <2>2. S \in SUBSET Key
    OBVIOUS
  <2> HIDE DEF S
  <2>3. Promise!Dismiss(S)
    BY <1>0, <2>1, <2>2, DismissStep
  <2> QED
    BY <2>2, <2>3 DEF Promise!Next
<1>4. ASSUME NEW o \in Owner, NEW status \in {"pending", "done", "abandoned"},
             Finish(o, status)
      PROVE  [Promise!Next]_Promise!vars
  <2> DEFINE k == claims[o].key
  <2>1. k \in Key /\ rows' = Finished(k, o, status)
    BY <1>4, <1>h DEF Finish
  <2> HIDE DEF k
  <2>2. CASE Owns(k, o)
    <3>1. rows'[k].status = status /\ \A j \in Key \ {k} : rows'[j] = rows[j]
      BY <1>0, <2>1, <2>2 DEF Finished, GivenUp, RowsOK
    <3> QED
      BY <1>0, <2>1, <2>2, <3>1, VerbStep DEF Owns
  <2>3. CASE ~Owns(k, o)
    BY <1>s, <2>1, <2>3 DEF Finished
  <2> QED
    BY <2>2, <2>3
<1>5. ASSUME NEW o \in Owner, ReleaseUnattempted(o) PROVE [Promise!Next]_Promise!vars
  <2> DEFINE k == claims[o].key
  <2>1. k \in Key /\ rows' = Unattempted(k, o)
    BY <1>5, <1>h DEF ReleaseUnattempted
  <2> HIDE DEF k
  <2>2. CASE Owns(k, o)
    <3>1. rows'[k].status = "pending" /\ \A j \in Key \ {k} : rows'[j] = rows[j]
      BY <1>0, <2>1, <2>2 DEF Unattempted, Uncounted, GivenUp, RowsOK
    <3> QED
      BY <1>0, <2>1, <2>2, <3>1, VerbStep DEF Owns
  <2>3. CASE ~Owns(k, o)
    BY <1>s, <2>1, <2>3 DEF Unattempted
  <2> QED
    BY <2>2, <2>3
<1>6. ASSUME NEW o \in Owner, NEW head \in Sha, Fold(o, head) PROVE Promise!Next
  <2> DEFINE S == Answered(claims[o].key, claims[o].started, head)
  <2>1. /\ \A k \in S : Offered(rows, k) /\ rows'[k].status \in {"done", "abandoned"}
        /\ \A k \in Key \ S : rows'[k] = rows[k]
        /\ S \in SUBSET Key
    BY <1>6 DEF Fold, Folded, Answered, Offered, GivenUp
  <2> HIDE DEF S
  <2>2. Promise!Dismiss(S)
    BY <1>0, <2>1, DismissStep
  <2> QED
    BY <2>1, <2>2 DEF Promise!Next
<1>7. CASE Tick
  BY <1>0, <1>7, TickStep
<1>8. ASSUME NEW o \in Owner, Forget(o) PROVE [Promise!Next]_Promise!vars
  BY <1>8, <1>s DEF Forget
<1>9. CASE UNCHANGED vars
  BY <1>9, <1>s DEF vars
<1> QED
  BY <1>1, <1>2, <1>3, <1>4, <1>5, <1>6, <1>7, <1>8, <1>9
     DEF Next, Complete, Release, Abandon

\* The queue keeps the promise of the lease table: every behaviour of queue.py's
\* statements, stale verbs and lapses included, is one of LeaseTable.
THEOREM Implements == Spec => LeasePromise
<1>1. IInv /\ [Next]_vars /\ IInv' => [Promise!Next]_Promise!vars
  BY PromiseStep
<1> QED
  BY <1>1, PromiseInit, Invariance, PTL DEF Spec, LeasePromise, Promise!Spec
=============================================================================
