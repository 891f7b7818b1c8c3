----------------------------- MODULE Workspace ------------------------------
(***************************************************************************)
(* The checkouts of one daemon: workspace/repo.py over one bare mirror,    *)
(* with workspace/gitcmd.py and _subprocess.py underneath.                 *)
(*                                                                         *)
(* A checkout is a procedure of one worker, `place[w]' says where in it.   *)
(* A step is a git command that ends, or the wait for the mirror's lock.   *)
(* What a finished checkout could not take away stays in `left' until the  *)
(* sweep of the next start.                                                *)
(***************************************************************************)
EXTENDS FiniteSets

CONSTANTS
  Worker,
  Nobody           \* holds the lock

NobodyAssumption == Nobody \notin Worker
ASSUME NobodyAssumption

VARIABLES
  place,           \* where in `checkout' a worker is, or "out" of it
  end,             \* how its checkout ended
  lock,            \* Workspace._lock
  refs, trees,     \* the run refs and the worktrees of the runs under way
  left,            \* what finished runs have left behind
  orphans,         \* commands whose worker was cancelled under them
  stale            \* a *.lock file that a killed git has left

workspace == <<place, end, lock, refs, trees, left, orphans, stale>>

\* The ref is dropped at one of two places: "undo" where the checkout was not
\* reached, "drop" in its teardown.
Place == {"out", "queue_fetch", "fetch", "rev_parse", "read", "queue_undo", "undo",
          "in", "remove", "queue_drop", "drop"}
End   == {"done", "failed", "refused", "crashed", "cut"}

\* Commands that write to the ref namespace, and others: "in" is the engine.
Writing == {"fetch", "undo", "drop"}
Running == Writing \cup {"rev_parse", "read", "in", "remove"}

\* What waits for the lock, and for which command.
For == [queue_fetch |-> "fetch", queue_undo |-> "undo", queue_drop |-> "drop"]

Go(w, where, how) ==
  /\ place' = [place EXCEPT ![w] = where]
  /\ end' = [end EXCEPT ![w] = how]

\* A worker leaves the checkout, and what it has not taken away is left there.
Remains(w) == (IF w \in refs THEN {"ref"} ELSE {}) \cup (IF w \in trees THEN {"tree"} ELSE {})
Out(w, how, remains) ==
  /\ Go(w, "out", how)
  /\ left' = left \cup remains
  /\ refs' = refs \ {w}
  /\ trees' = trees \ {w}

Unlock == lock' = Nobody

-----------------------------------------------------------------------------
(* _fetch, under the lock.                                                 *)

Enter(w) ==
  /\ place[w] = "out"
  /\ Go(w, "queue_fetch", "done")
  /\ UNCHANGED <<lock, refs, trees, left, orphans, stale>>

\* Fault: a drop takes no lock.
TakeToFetch(w) ==
  /\ place[w] \in DOMAIN For
  /\ place[w] = "queue_fetch" => lock = Nobody
  /\ lock' = IF place[w] = "queue_fetch" THEN w ELSE lock
  /\ Go(w, For[place[w]], end[w])
  /\ UNCHANGED <<refs, trees, left, orphans, stale>>

Take(w) ==
  /\ place[w] \in DOMAIN For
  /\ lock = Nobody
  /\ lock' = w
  /\ Go(w, For[place[w]], end[w])
  /\ UNCHANGED <<refs, trees, left, orphans, stale>>

Fetched(w) ==
  /\ place[w] = "fetch"
  /\ ~stale
  /\ refs' = refs \cup {w}
  /\ Go(w, "rev_parse", end[w])
  /\ UNCHANGED <<lock, trees, left, orphans, stale>>

Named(w) ==
  /\ place[w] = "rev_parse"
  /\ Unlock
  /\ Go(w, "read", end[w])
  /\ UNCHANGED <<refs, trees, left, orphans, stale>>

\* Fault: a failure keeps the lock.
FetchFailsLocked(w) ==
  /\ place[w] \in {"fetch", "rev_parse"}
  /\ Out(w, "failed", {})
  /\ UNCHANGED <<lock, orphans, stale>>

\* Either of the two fails, outside the block that would drop the ref.  A
\* command that outlives its timeout is terminated, then killed: a killed one
\* does not remove its lock file.
FetchFails(w) ==
  /\ place[w] \in {"fetch", "rev_parse"}
  /\ \E fetched \in IF place[w] = "fetch" THEN BOOLEAN ELSE {TRUE} :
       Out(w, "failed", IF fetched THEN {"ref"} ELSE {})
  /\ Unlock
  /\ stale' \in {stale, place[w] = "fetch" \/ stale}
  /\ UNCHANGED orphans

-----------------------------------------------------------------------------
(* From the fetch to the worktree: merge-base, diff_start, the diffs, the  *)
(* gate, and `worktree add'.                                               *)

Withdraw(w, how) ==
  /\ place[w] = "read"
  /\ Go(w, "queue_undo", how)
  /\ UNCHANGED <<lock, refs, orphans, stale>>

\* Fault: a refusal drops nothing.
RefuseAtOnce(w) ==
  /\ place[w] = "read"
  /\ Out(w, "refused", Remains(w))
  /\ UNCHANGED <<lock, orphans, stale>>

\* The size gate refuses.
Refuse(w) == Withdraw(w, "refused") /\ UNCHANGED <<trees, left>>

\* A command fails, or `mkdir' does, which nothing expects.  `worktree add' may
\* have made the directory.
ReadFails(w) ==
  /\ \E how \in {"failed", "crashed"} : Withdraw(w, how)
  /\ left' \in {left, left \cup {"tree"}}
  /\ UNCHANGED trees

Add(w) ==
  /\ place[w] = "read"
  /\ trees' = trees \cup {w}
  /\ Go(w, "in", end[w])
  /\ UNCHANGED <<lock, refs, left, orphans, stale>>

-----------------------------------------------------------------------------
(* _teardown and _drop_ref.                                                *)

Leave(w, how) ==
  /\ place[w] = "in"
  /\ Go(w, "remove", how)
  /\ UNCHANGED <<lock, refs, trees, left, orphans, stale>>

Removed(w) ==
  /\ place[w] = "remove"
  /\ trees' = trees \ {w}
  /\ Go(w, "queue_drop", end[w])
  /\ UNCHANGED <<lock, refs, left, orphans, stale>>

\* The ref is not dropped then.
RemoveFails(w) ==
  /\ place[w] = "remove"
  /\ Out(w, end[w], Remains(w))
  /\ UNCHANGED <<lock, orphans, stale>>

Dropped(w) ==
  /\ place[w] \in {"undo", "drop"}
  /\ ~stale
  /\ Out(w, end[w], Remains(w) \ {"ref"})
  /\ Unlock
  /\ UNCHANGED <<orphans, stale>>

\* _teardown logs it.  Outside it, it takes the place of what was on its way
\* out: a refusal, a crash, a cancellation.
DropFails(w) ==
  /\ place[w] \in {"undo", "drop"}
  /\ Out(w, IF place[w] = "undo" THEN "failed" ELSE end[w], Remains(w))
  /\ Unlock
  /\ stale' \in {stale, TRUE}
  /\ UNCHANGED orphans

-----------------------------------------------------------------------------
(* Cancellation and restarts.                                              *)

\* What the worker does next when its task is cancelled.
Cancelled(w) ==
  CASE place[w] = "read" -> "queue_undo"
    [] place[w] = "in"   -> "remove"
    [] OTHER             -> "out"

\* Every worker is cancelled at once.  `communicate' stops a child that outlives
\* its time and no other: the command goes on without its worker, and the lock
\* is released over it.
CancelAll ==
  LET gone == {w \in Worker : Cancelled(w) = "out"}
  IN /\ place' = [w \in Worker |-> Cancelled(w)]
     /\ end' = [w \in Worker |-> "cut"]
     /\ lock' = Nobody
     /\ orphans' = orphans \cup ({place[w] : w \in Worker} \cap Running)
     /\ left' = left \cup UNION {Remains(w) : w \in gone}
     /\ refs' = refs \ gone
     /\ trees' = trees \ gone
     /\ UNCHANGED stale

OrphanEnds ==
  /\ \E command \in orphans :
       /\ orphans' = orphans \ {command}
       /\ left' \in {left, left \cup (IF command = "fetch" THEN {"ref"} ELSE {})}
  /\ UNCHANGED <<place, end, lock, refs, trees, stale>>

\* The process is gone, and its unit has killed what was left of its group.
Lost ==
  /\ place' = [w \in Worker |-> "out"]
  /\ end' = [w \in Worker |-> "cut"]
  /\ lock' = Nobody
  /\ orphans' = {}
  /\ left' = left \cup UNION {Remains(w) : w \in Worker}
  /\ refs' = {}
  /\ trees' = {}
  /\ stale' \in {stale, stale \/ orphans \cap Writing # {} \/ \E w \in Worker : place[w] \in Writing}

\* Startup: no git of ours is running.
Sweep ==
  /\ stale' = FALSE
  /\ left' = {}
  /\ UNCHANGED <<place, end, lock, refs, trees, orphans>>

-----------------------------------------------------------------------------
WorkspaceInit ==
  /\ place = [w \in Worker |-> "out"]
  /\ end = [w \in Worker |-> "done"]
  /\ lock = Nobody
  /\ refs = {} /\ trees = {} /\ left = {} /\ orphans = {}
  /\ stale = FALSE

WorkspaceOK ==
  /\ place \in [Worker -> Place]
  /\ end \in [Worker -> End]
  /\ lock \in Worker \cup {Nobody}
  /\ refs \subseteq Worker /\ trees \subseteq Worker
  /\ left \subseteq {"ref", "tree"}
  /\ orphans \subseteq Running
  /\ stale \in BOOLEAN
=============================================================================
