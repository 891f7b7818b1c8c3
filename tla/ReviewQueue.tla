---------------------------- MODULE ReviewQueue ----------------------------
(***************************************************************************)
(* The durable review queue of queue.py: one row per accepted trigger,     *)
(* keyed by its dedupe key, and one lease per pull request.                *)
(*                                                                         *)
(* A row of the table is a record.  Two columns are kept by what the       *)
(* statements can tell about them:                                         *)
(*   - enqueued_at and rowid both grow with every insertion and are only   *)
(*     compared (ORDER BY enqueued_at, rowid; enqueued_at <= :before), so  *)
(*     `id', the insertion's position, stands for the pair;                *)
(*   - leased_until is only compared with the clock, so `lease' is what is *)
(*     left of it: leased_until <= now is lease = 0, and Tick, the passing *)
(*     of time, takes one unit off every lease that runs.                  *)
(*                                                                         *)
(* The statements are operators that return the table they leave, so that  *)
(* a worker composed with this queue uses the very same ones.              *)
(***************************************************************************)
EXTENDS Naturals

CONSTANTS
  Key,          \* dedupe keys
  Owner,        \* worker identities, minted by build_workers
  Pull,         \* pull requests
  Sha,          \* commits
  Command,      \* what a trigger asks for
  NoKey,        \* no claim
  NoOwner,      \* the NULL of `owner'
  NoSha,        \* the NULL of `head_sha'
  PullOf, KindOf, CommandOf, ShaOf,   \* a trigger's columns, by its key
  Lease,        \* the lease, in ticks
  MaxAttempts   \* counted attempts a row gets

Kind == {"pr_opened", "mention", "publish"}

ASSUME ColumnsAssumption ==
  /\ PullOf \in [Key -> Pull]
  /\ KindOf \in [Key -> Kind]
  /\ CommandOf \in [Key -> Command]
  /\ ShaOf \in [Key -> Sha \cup {NoSha}]
ASSUME NullAssumption ==
  NoKey \notin Key /\ NoOwner \notin Owner /\ NoSha \notin Sha
ASSUME BoundsAssumption == Lease \in Nat \ {0} /\ MaxAttempts \in Nat \ {0}

VARIABLES
  rows,      \* the queue table
  lastRow,   \* the last id given out
  claims     \* the Claim object each worker holds, if any

vars == <<rows, lastRow, claims>>

Status == {"absent", "pending", "claimed", "done", "abandoned"}

Row == [status : Status, attempts : 0..MaxAttempts, id : Nat,
        lease : 0..Lease, owner : Owner \cup {NoOwner}]

NoRow == [status |-> "absent", attempts |-> 0, id |-> 0,
          lease |-> 0, owner |-> NoOwner]

\* `started' is the fold boundary: every row with an id up to it was waiting
\* when the claim was made.
Claim == [key : Key, started : Nat]
NoClaim == [key |-> NoKey, started |-> 0]

-----------------------------------------------------------------------------
(* Facts about a row of a table t.                                         *)

Live(t, k) == t[k].status = "claimed" /\ t[k].lease > 0

Lapsed(t, k) == t[k].status = "claimed" /\ t[k].lease = 0

Offered(t, k) == t[k].status = "pending" \/ Lapsed(t, k)

\* A row r with its lease and its owner given up and its status set.
GivenUp(r, status) ==
  [status |-> status, attempts |-> r.attempts, id |-> r.id,
   lease |-> 0, owner |-> NoOwner]

-----------------------------------------------------------------------------
(* The statements.                                                         *)

\* _ENQUEUE: INSERT OR IGNORE.
Inserted(k) ==
  [rows EXCEPT ![k] = [status |-> "pending", attempts |-> 0, id |-> lastRow + 1,
                       lease |-> 0, owner |-> NoOwner]]

\* Fault: INSERT OR REPLACE.
KnownNever(k) == FALSE

Known(k) == rows[k].status # "absent"

\* Fault: leases are not looked at.
ExhaustedUnderLease(k) ==
  rows[k].status \in {"pending", "claimed"} /\ rows[k].attempts >= MaxAttempts

\* _ABANDON_EXHAUSTED, run first in every claim.
Exhausted(k) == Offered(rows, k) /\ rows[k].attempts >= MaxAttempts

Swept ==
  [k \in Key |->
     IF Exhausted(k) THEN GivenUp(rows[k], "abandoned") ELSE rows[k]]

\* Fault: no NOT EXISTS clause.
ClaimableOnBusyPull ==
  {k \in Key : Offered(Swept, k) /\ Swept[k].attempts < MaxAttempts}

\* Fault: read ahead of the sweep, with no bound on the attempts.
ClaimableUnswept ==
  {k \in Key : /\ Offered(rows, k)
               /\ \A j \in Key : PullOf[j] = PullOf[k] => ~Live(rows, j)}

\* _CLAIMABLE, on the swept table; the order is that of the ids.
Claimable ==
  {k \in Key : /\ Offered(Swept, k)
               /\ Swept[k].attempts < MaxAttempts
               /\ \A j \in Key : PullOf[j] = PullOf[k] => ~Live(Swept, j)}

\* The candidate a claim takes when `admit' turns `refused' down.
FirstAdmitted(k, refused) ==
  /\ k \in Claimable \ refused
  /\ \A j \in Claimable \ refused : rows[k].id <= rows[j].id

\* Fault: the attempt is not counted.
LeasedUncounted(k, o) ==
  [Swept EXCEPT ![k] = [status |-> "claimed", attempts |-> @.attempts,
                        id |-> @.id, lease |-> Lease, owner |-> o]]

\* _TAKE_LEASE, on the swept table.
Leased(k, o) ==
  [Swept EXCEPT ![k] = [status |-> "claimed", attempts |-> @.attempts + 1,
                        id |-> @.id, lease |-> Lease, owner |-> o]]

\* Fault: no owner guard.
OwnsAnything(k, o) == TRUE

\* _FINISH and _RELEASE_UNATTEMPTED: a caller that no longer owns the row
\* updates nothing.
Owns(k, o) == rows[k].owner = o

Finished(k, o, status) ==
  IF Owns(k, o) THEN [rows EXCEPT ![k] = GivenUp(@, status)] ELSE rows

\* MAX(attempts - 1, 0)
Uncounted(r) == [GivenUp(r, "pending") EXCEPT !.attempts = IF @ = 0 THEN 0 ELSE @ - 1]

Unattempted(k, o) ==
  IF Owns(k, o) THEN [rows EXCEPT ![k] = Uncounted(@)] ELSE rows

\* Fault: no fold boundary.
AnsweredEver(k, before, head) ==
  {j \in Key : /\ PullOf[j] = PullOf[k]
               /\ rows[j].status = "pending"
               /\ KindOf[j] # "publish"
               /\ j # k
               /\ ShaOf[j] \in {NoSha, head}
               /\ CommandOf[j] = CommandOf[k]}

\* _FOLD: the waiting rows a review of commit `head', started at `before' by
\* the claim on `k', has answered.
Answered(k, before, head) ==
  {j \in Key : /\ PullOf[j] = PullOf[k]
               /\ rows[j].status = "pending"
               /\ KindOf[j] # "publish"
               /\ j # k
               /\ rows[j].id <= before
               /\ ShaOf[j] \in {NoSha, head}
               /\ CommandOf[j] = CommandOf[k]}

Folded(answered) ==
  [j \in Key |->
     IF j \in answered THEN GivenUp(rows[j], "done") ELSE rows[j]]

\* _HOLDS
Holds(k, o) == Live(rows, k) /\ Owns(k, o)

\* Time passes: one unit off every running lease.
Aged == [k \in Key |-> [rows[k] EXCEPT !.lease = IF @ = 0 THEN 0 ELSE @ - 1]]

-----------------------------------------------------------------------------
(* The queue's methods, called by workers in any order the Claim objects   *)
(* they hold allow.                                                        *)

Init ==
  /\ rows = [k \in Key |-> NoRow]
  /\ lastRow = 0
  /\ claims = [o \in Owner |-> NoClaim]

Enqueue(k) ==
  /\ ~Known(k)
  /\ rows' = Inserted(k)
  /\ lastRow' = lastRow + 1
  /\ UNCHANGED claims

\* claim() that leases `k' after `admit' refused the keys in `refused'.
ClaimRow(o, k, refused) ==
  /\ claims[o] = NoClaim
  /\ FirstAdmitted(k, refused)
  /\ rows' = Leased(k, o)
  /\ claims' = [claims EXCEPT ![o] = [key |-> k, started |-> lastRow]]
  /\ UNCHANGED lastRow

\* claim() that finds no candidate it may take; the sweep has happened.
ClaimNothing(o, refused) ==
  /\ claims[o] = NoClaim
  /\ Claimable \subseteq refused
  /\ rows' = Swept
  /\ UNCHANGED <<lastRow, claims>>

\* The verbs leave the Claim object in the caller's hands: fold follows them.
Finish(o, status) ==
  /\ claims[o] # NoClaim
  /\ rows' = Finished(claims[o].key, o, status)
  /\ UNCHANGED <<lastRow, claims>>

Complete(o) == Finish(o, "done")
Release(o)  == Finish(o, "pending")
Abandon(o)  == Finish(o, "abandoned")

ReleaseUnattempted(o) ==
  /\ claims[o] # NoClaim
  /\ rows' = Unattempted(claims[o].key, o)
  /\ UNCHANGED <<lastRow, claims>>

Fold(o, head) ==
  /\ claims[o] # NoClaim
  /\ rows' = Folded(Answered(claims[o].key, claims[o].started, head))
  /\ UNCHANGED <<lastRow, claims>>

\* The worker is done with its Claim, or died with it.
Forget(o) ==
  /\ claims[o] # NoClaim
  /\ claims' = [claims EXCEPT ![o] = NoClaim]
  /\ UNCHANGED <<rows, lastRow>>

Tick ==
  /\ \E k \in Key : Live(rows, k)
  /\ rows' = Aged
  /\ UNCHANGED <<lastRow, claims>>

Next ==
  \/ \E k \in Key : Enqueue(k)
  \/ \E o \in Owner, k \in Claimable, refused \in SUBSET Claimable :
       ClaimRow(o, k, refused)
  \/ \E o \in Owner : ClaimNothing(o, Claimable)
  \/ \E o \in Owner : Complete(o) \/ Release(o) \/ Abandon(o)
  \/ \E o \in Owner : ReleaseUnattempted(o) \/ Forget(o)
  \/ \E o \in Owner, head \in Sha : Fold(o, head)
  \/ Tick

Spec == Init /\ [][Next]_vars

-----------------------------------------------------------------------------
(* Properties.                                                             *)

\* The shape of the table and of the Claim objects.
TypeOK ==
  /\ rows \in [Key -> Row]
  /\ lastRow \in Nat
  /\ claims \in [Owner -> Claim \cup {NoClaim}]

\* One lease per pull request: no two rows of one pull request are under a
\* live lease at once, whoever claims, lapses, releases or folds in between.
OneLiveLeasePerPull ==
  \A j, k \in Key :
    Live(rows, j) /\ Live(rows, k) /\ PullOf[j] = PullOf[k] => j = k

\* attempts is only ever decremented inside the claim that incremented it, so
\* the floor of release_unattempted never bites.
ClaimIsCounted == \A k \in Key : rows[k].status = "claimed" => rows[k].attempts > 0

\* A live lease is never taken away: while it runs the row changes only by
\* the passing of time or by a verb of the worker that owns it, which still
\* holds that Claim.
NoTheft ==
  [][\A k \in Key :
       Live(rows, k) =>
         \/ rows'[k] = rows[k]
         \/ rows'[k] = [rows[k] EXCEPT !.lease = @ - 1]
         \/ \E o \in Owner : rows[k].owner = o /\ claims[o].key = k]_vars

\* A closed row stays closed: no verb of a stale Claim, no claim and no
\* re-enqueueing of the same key brings it back.
ClosedForGood ==
  [][\A k \in Key :
       rows[k].status \in {"done", "abandoned"} => rows'[k] = rows[k]]_vars

\* The queue implements the lease table: a pending row and a claimed row whose
\* lease has lapsed are both waiting, a row under a live lease is held by its
\* owner, and done and abandoned are both closed.
WorkState ==
  [k \in Key |->
     CASE rows[k].status = "absent" -> "absent"
       [] Offered(rows, k) -> "waiting"
       [] Live(rows, k) -> "held"
       [] rows[k].status \in {"done", "abandoned"} -> "closed"]
WorkHolder == [k \in Key |-> IF Live(rows, k) THEN rows[k].owner ELSE NoOwner]

Promise == INSTANCE LeaseTable WITH state <- WorkState, holder <- WorkHolder

LeasePromise == Promise!Spec
=============================================================================
