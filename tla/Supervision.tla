---------------------------- MODULE Supervision ----------------------------
(***************************************************************************)
(* One daemon process: daemon.py's run, run_together, supervise and        *)
(* run_forever over the poll task and the workers, the workers' run_once   *)
(* and run_one (worker.py) over the checkouts of Workspace.                *)
(*                                                                         *)
(* A step runs from one await to the next.  A task that is cancelled is    *)
(* cancelled at an await.                                                  *)
(***************************************************************************)
EXTENDS Workspace

VARIABLES
  main,        \* run: "run", "grace", "gather", "closed" (the store), "down"
  stop,        \* the asyncio.Event
  poll,        \* the poll task: "request", "wait", "ended", "failed"
  pc,          \* each worker's task
  held,        \* the workers whose run has a claimed row
  stranded,    \* a row is claimed by no run, until its lease lapses
  troubles     \* what has gone wrong in this process

process == <<main, stop, poll, pc, held, stranded, troubles>>
vars == <<workspace, process>>

Task == {"idle", "before", "checkout", "publish", "backoff", "ended"}
Trouble == {"git", "crash", "poll", "cut", "kill"}

Goes(w, where) == pc' = [pc EXCEPT ![w] = where]
Tasks == <<pc, held, stranded>>
Others == <<main, stop, poll, troubles>>

-----------------------------------------------------------------------------
(* The workers.                                                            *)

Claim(w) ==
  /\ pc[w] = "idle" /\ ~stop /\ main = "run"
  /\ Goes(w, "before")
  /\ held' = held \cup {w}
  /\ UNCHANGED <<workspace, stranded, Others>>

\* The row is closed, by whichever verb.
CloseRow(w) ==
  /\ Goes(w, "idle")
  /\ held' = held \ {w}
  /\ UNCHANGED <<workspace, stranded, Others>>

\* The acknowledgement and the facts: not open, or not to be had.
Facts(w) ==
  /\ pc[w] = "before"
  /\ \/ CloseRow(w)
     \/ /\ Enter(w)
        /\ Goes(w, "checkout")
        /\ UNCHANGED <<held, stranded, Others>>

\* The checkout's commands, where none fails.
Git(w) ==
  /\ \/ Take(w) \/ Fetched(w) \/ Named(w) \/ Refuse(w)
     \/ Add(w) \/ Removed(w) \/ Dropped(w)
  /\ UNCHANGED process

GitFails(w) ==
  /\ \/ FetchFails(w) \/ ReadFails(w) \/ RemoveFails(w) \/ DropFails(w)
  /\ troubles' = troubles \cup {"git"}
  /\ UNCHANGED <<main, stop, poll, Tasks>>

\* The engine answers or fails, or the pre-flight refuses, which closes the row.
Review(w) ==
  /\ \/ \E how \in {"done", "failed"} : Leave(w, how) /\ UNCHANGED held
     \/ Leave(w, "refused") /\ held' = held \ {w}
  /\ UNCHANGED <<pc, stranded, Others>>

\* The worker has left the checkout, and does not wait.
Back(w) == pc[w] = "checkout" /\ place[w] = "out"

Settle(w) ==
  /\ Back(w)
  /\ \/ /\ end[w] = "done"
        /\ Goes(w, "publish")
        /\ UNCHANGED <<workspace, held, stranded, Others>>
     \/ end[w] \in {"failed", "refused"} /\ CloseRow(w)

Publish(w) == pc[w] = "publish" /\ CloseRow(w)

\* What its run held is nobody's.
Drops(who, where) ==
  /\ pc' = [w \in Worker |-> IF w \in who THEN where ELSE pc[w]]
  /\ held' = held \ who
  /\ stranded' = (stranded \/ held \cap who # {})

\* An exception that run_one does not expect, and supervise catches.
Crash(w) ==
  /\ \/ pc[w] \in {"idle", "before", "publish"} /\ main \in {"run", "grace"}
     \/ Back(w) /\ end[w] # "cut"
  /\ Drops({w}, "backoff")
  /\ troubles' = troubles \cup {"crash"}
  /\ UNCHANGED <<workspace, main, stop, poll>>

\* Fault: no teardown.
CrashThrough(w) ==
  /\ place[w] = "in"
  /\ Drops({w}, "backoff")
  /\ UNCHANGED <<workspace, Others>>

CrashInside(w) == Leave(w, "crashed") /\ UNCHANGED process

Crashed(w) == Back(w) /\ end[w] = "crashed" /\ Crash(w)

Cut(w) ==
  /\ Back(w) /\ end[w] = "cut"
  /\ Drops({w}, "ended")
  /\ UNCHANGED <<workspace, Others>>

Respawn(w) ==
  /\ pc[w] = "backoff"
  /\ Goes(w, IF stop THEN "ended" ELSE "idle")
  /\ UNCHANGED <<workspace, held, stranded, Others>>

Rest(w) ==
  /\ pc[w] = "idle" /\ stop
  /\ Goes(w, "ended")
  /\ UNCHANGED <<workspace, held, stranded, Others>>

WorkerStep(w) ==
  \/ Facts(w) \/ Git(w) \/ GitFails(w) \/ Review(w) \/ Settle(w) \/ Publish(w)
  \/ Crashed(w) \/ Cut(w) \/ Respawn(w) \/ Rest(w)

-----------------------------------------------------------------------------
(* The poll task.                                                          *)

\* Answered, or failed as a request may.
Polled ==
  /\ poll = "request"
  /\ poll' = "wait"
  /\ UNCHANGED <<workspace, main, stop, Tasks, troubles>>

PollFails ==
  /\ poll = "request"
  /\ poll' = "failed"
  /\ troubles' = troubles \cup {"poll"}
  /\ UNCHANGED <<workspace, main, stop, Tasks>>

Waited ==
  /\ poll = "wait"
  /\ poll' = IF stop THEN "ended" ELSE "request"
  /\ UNCHANGED <<workspace, main, stop, Tasks, troubles>>

-----------------------------------------------------------------------------
(* run and run_together.                                                   *)

Sigterm ==
  /\ main = "run"
  /\ stop' = TRUE
  /\ UNCHANGED <<workspace, main, poll, Tasks, troubles>>

PollOver == poll \in {"ended", "failed"}
Ended == {w \in Worker : pc[w] = "ended"}

\* Fault: asyncio.wait returns with the first task that ends.
FirstFinished == PollOver \/ Ended # {}

\* asyncio.wait returns with no error: every task has ended.
Finished == PollOver /\ Ended = Worker

\* The `finally' of run_together, at an await of every task.  A task that has
\* ended is not changed by it.
Cancel ==
  /\ \A w \in Worker : ~Back(w)
  /\ CancelAll
  /\ Drops({w \in Worker : pc[w] # "checkout"}, "ended")
  /\ poll' = IF PollOver THEN poll ELSE "ended"
  /\ troubles' = troubles \cup (IF Finished THEN {} ELSE {"cut"})
  /\ main' = "gather"
  /\ UNCHANGED stop

AllDone == main = "run" /\ poll # "failed" /\ Finished /\ Cancel

Failure ==
  /\ main = "run" /\ poll = "failed"
  /\ stop' = TRUE
  /\ main' = "grace"
  /\ UNCHANGED <<workspace, poll, Tasks, troubles>>

GraceOver == main = "grace" /\ Cancel

\* Fault: what was cancelled is not gathered.
Unawaited == main = "gather"

\* The store is closed with the `with' block.
Gathered == main = "gather" /\ Finished
Close ==
  /\ Gathered
  /\ main' = "closed"
  /\ UNCHANGED <<workspace, stop, poll, Tasks, troubles>>

Exit ==
  /\ main = "closed"
  /\ Lost
  /\ main' = "down"
  /\ UNCHANGED <<stop, poll, Tasks, troubles>>

Kill ==
  /\ main # "down"
  /\ Lost
  /\ Drops(Worker, "ended")
  /\ poll' = "ended"
  /\ troubles' = troubles \cup {"kill"}
  /\ main' = "down"
  /\ UNCHANGED stop

\* The unit, or an operator, starts it again.
Start ==
  /\ main = "down"
  /\ Sweep
  /\ main' = "run"
  /\ stop' = FALSE
  /\ poll' = "request"
  /\ pc' = [w \in Worker |-> "idle"]
  /\ stranded' = FALSE
  /\ troubles' = {}
  /\ UNCHANGED held

-----------------------------------------------------------------------------
Init ==
  /\ WorkspaceInit
  /\ main = "run" /\ stop = FALSE /\ poll = "request"
  /\ pc = [w \in Worker |-> "idle"]
  /\ held = {} /\ stranded = FALSE /\ troubles = {}

PollStep == Polled \/ PollFails \/ Waited
MainStep == AllDone \/ Failure \/ GraceOver \/ Close \/ Exit
Unforced ==
  \/ \E w \in Worker : Claim(w) \/ Crash(w) \/ CrashInside(w)
  \/ OrphanEnds /\ UNCHANGED process
  \/ Sigterm \/ Kill \/ Start

Next == (\E w \in Worker : WorkerStep(w)) \/ PollStep \/ MainStep \/ Unforced
Spec == Init /\ [][Next]_vars

\* The event loop runs what is ready; a command, a request and an engine each
\* end within a timeout, and the grace period does.
FairSpec ==
  /\ Spec
  /\ \A w \in Worker : WF_vars(WorkerStep(w))
  /\ WF_vars(PollStep)
  /\ WF_vars(MainStep)

-----------------------------------------------------------------------------
TypeOK ==
  /\ WorkspaceOK
  /\ main \in {"run", "grace", "gather", "closed", "down"}
  /\ stop \in BOOLEAN /\ stranded \in BOOLEAN
  /\ poll \in {"request", "wait", "ended", "failed"}
  /\ pc \in [Worker -> Task]
  /\ held \subseteq Worker
  /\ troubles \subseteq Trouble
  /\ \A w \in Worker : place[w] # "out" => pc[w] = "checkout"

\* A run takes its ref and its directory away with it, whatever ended it: a
\* review, a failure of the engine, the size gate, the pre-flight or a bug.  Only
\* a git command that failed, a cancellation or a killed process leaves any
\* (repo.py's checkout and _teardown).
NothingLeaks ==
  (left # {} \/ (refs \cup trees) \ {w \in Worker : pc[w] = "checkout"} # {})
     => troubles \cap {"git", "cut", "kill"} # {}

\* One command writes to the mirror's refs at a time (repo.py's _drop_ref and
\* _fetch), and a worker waits for the lock only while another one is about to
\* give it back.  A cancelled command is the exception: it goes on, without lock.
OneGitWritesRefs ==
  /\ lock # Nobody => place[lock] \in Writing \cup {"rev_parse"}
  /\ \A v, w \in Worker : place[v] \in Writing /\ place[w] \in Writing => v = w
  /\ orphans \cap Writing # {} => "cut" \in troubles

\* The store outlives every task that uses it, and a process that was only asked
\* to stop closes the rows its workers had claimed: run_together waits for the
\* reviews under way, and gathers what it cancels.
OrderlyStop ==
  /\ main \in {"closed", "down"} => Ended = Worker
  /\ stranded => troubles \cap {"crash", "poll", "kill"} # {}

\* The daemon stops, once it is told to or its poll loop fails, whatever its
\* workers are doing, and whatever becomes of it.
StopEnds == (stop \/ poll = "failed") ~> (main = "down")
=============================================================================
