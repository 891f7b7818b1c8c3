------------------------ MODULE Supervision_proofs -------------------------
(***************************************************************************)
(* Proofs about one daemon process, for any number of workers.             *)
(*                                                                         *)
(* What holds of the lock, of what runs leave behind and of the stop hangs *)
(* together: a cancellation has to know that it cuts somebody off, a death *)
(* that nothing goes on after it.  So there is one invariant, and each     *)
(* action is shown to preserve it.                                         *)
(***************************************************************************)
EXTENDS Supervision, TLAPS

\* The lock is its holder's for the length of two commands.
UnderLock == Writing \cup {"rev_parse"}
LockHeld ==
  /\ lock # Nobody => place[lock] \in UnderLock
  /\ \A w \in Worker : place[w] \in UnderLock => lock = w

\* Where a run has a ref, and where it has a directory.
RunsOwn ==
  /\ refs \subseteq {w \in Worker : place[w] \notin {"out", "queue_fetch", "fetch"}}
  /\ trees \subseteq {w \in Worker : place[w] \in {"in", "remove"}}

\* What is out of order has a cause in this process.
Explained ==
  /\ left # {} => troubles \cap {"git", "cut", "kill"} # {}
  /\ orphans # {} => "cut" \in troubles
  /\ stranded => troubles \cap {"crash", "poll", "kill"} # {}
  /\ main = "grace" \/ poll = "failed" => "poll" \in troubles

\* A run has its row until the row is closed, and is only cancelled inside a
\* checkout when the poll loop has failed.
RowsHeld ==
  /\ held \subseteq {w \in Worker : pc[w] \in {"before", "checkout", "publish"}}
  /\ \A w \in Worker : pc[w] = "checkout" /\ end[w] = "cut" => "poll" \in troubles

\* Nothing goes on once the store is closed, nor any command once the process
\* is gone.
Over ==
  /\ main \in {"closed", "down"} => \A w \in Worker : pc[w] = "ended"
  /\ main = "down" => orphans = {}

IInv == TypeOK /\ LockHeld /\ RunsOwn /\ Explained /\ RowsHeld /\ Over

USE NobodyAssumption DEF NobodyAssumption

\* A step outside the workspace, which leaves what runs there where it was.
LEMMA CheckoutsFrame ==
  ASSUME WorkspaceOK, LockHeld, RunsOwn, UNCHANGED workspace
  PROVE  WorkspaceOK' /\ LockHeld' /\ RunsOwn'
<1>1. /\ place' = place /\ end' = end /\ lock' = lock /\ refs' = refs /\ trees' = trees
      /\ left' = left /\ orphans' = orphans /\ stale' = stale
  BY DEF workspace
<1> QED
  BY <1>1 DEF WorkspaceOK, LockHeld, RunsOwn

LEMMA InitInv == Init => IInv
BY DEF Init, WorkspaceInit, IInv, TypeOK, WorkspaceOK, LockHeld, UnderLock, RunsOwn, Explained,
       RowsHeld, Over, Place, End, Running, Writing, Task, Trouble

-----------------------------------------------------------------------------
\* A worker that gets the lock has one of three commands to run under it.
LEMMA TakeStep ==
  ASSUME NEW w \in Worker, Take(w)
  PROVE  /\ place[w] \in {"queue_fetch", "queue_undo", "queue_drop"}
         /\ \E command \in Writing :
              /\ command = "fetch" <=> place[w] = "queue_fetch"
              /\ place' = [place EXCEPT ![w] = command]
<1>1. place[w] \in {"queue_fetch", "queue_undo", "queue_drop"}
  BY DEF Take, For
<1>2. For[place[w]] \in Writing /\ (For[place[w]] = "fetch" <=> place[w] = "queue_fetch")
  BY <1>1 DEF For, Writing
<1>3. place' = [place EXCEPT ![w] = For[place[w]]]
  BY DEF Take, Go
<1> QED
  BY <1>1, <1>2, <1>3

\* The checkout's commands preserve the invariant while they succeed.
LEMMA GitInv ==
  ASSUME IInv, NEW w \in Worker, Git(w)
  PROVE  IInv'
<1> USE DEF IInv, TypeOK, WorkspaceOK, LockHeld, UnderLock, RunsOwn, Explained, RowsHeld, Over,
            Place, End, Running, Writing, Task, Trouble, process, Go, Out, Unlock, Remains
<1>1. CASE Take(w) /\ UNCHANGED process
  <2>1. PICK command \in Writing :
          /\ command = "fetch" <=> place[w] = "queue_fetch"
          /\ place' = [place EXCEPT ![w] = command]
    BY <1>1, TakeStep
  <2>2. place[w] \in {"queue_fetch", "queue_undo", "queue_drop"}
    BY <1>1, TakeStep
  <2>3. lock = Nobody /\ lock' = w /\ UNCHANGED <<refs, trees, left, orphans, stale, process>>
    BY <1>1 DEF Take
  <2>0. end' = end
    BY <1>1 DEF Take
  <2>4. TypeOK'
    BY <2>0, <2>1, <2>2, <2>3
  <2>5. LockHeld'
    <3>1. \A v \in Worker : place[v] \notin UnderLock
      BY <2>3
    <3>2. place'[w] = command /\ \A v \in Worker : v # w => place'[v] = place[v]
      BY <2>1
    <3> QED
      BY <2>3, <3>1, <3>2
  <2>6. RunsOwn'
    BY <2>1, <2>2, <2>3
  <2> QED
    BY <2>0, <2>1, <2>2, <2>3, <2>4, <2>5, <2>6
<1>2. CASE Fetched(w) /\ UNCHANGED process
  BY <1>2 DEF Fetched
<1>3. CASE Named(w) /\ UNCHANGED process
  BY <1>3 DEF Named
<1>4. CASE Refuse(w) /\ UNCHANGED process
  BY <1>4 DEF Refuse, Withdraw
<1>5. CASE Add(w) /\ UNCHANGED process
  BY <1>5 DEF Add
<1>6. CASE Removed(w) /\ UNCHANGED process
  BY <1>6 DEF Removed
<1>7. CASE Dropped(w) /\ UNCHANGED process
  BY <1>7 DEF Dropped
<1> QED
  BY <1>1, <1>2, <1>3, <1>4, <1>5, <1>6, <1>7 DEF Git

\* And when one fails.
LEMMA GitFailsInv ==
  ASSUME IInv, NEW w \in Worker, GitFails(w)
  PROVE  IInv'
<1> USE DEF IInv, TypeOK, WorkspaceOK, LockHeld, UnderLock, RunsOwn, Explained, RowsHeld, Over,
            Place, End, Running, Writing, Task, Trouble, Go, Out, Unlock, Remains, GitFails, Tasks
<1>1. CASE FetchFails(w)
  <2>1. stale' \in BOOLEAN
    BY <1>1 DEF FetchFails
  <2>2. TypeOK'
    BY <1>1, <2>1 DEF FetchFails
  <2>3. LockHeld' /\ RunsOwn'
    BY <1>1 DEF FetchFails
  <2>4. Explained' /\ RowsHeld' /\ Over'
    BY <1>1 DEF FetchFails
  <2> QED
    BY <2>2, <2>3, <2>4
<1>2. CASE ReadFails(w)
  BY <1>2 DEF ReadFails, Withdraw
<1>3. CASE RemoveFails(w)
  BY <1>3 DEF RemoveFails
<1>4. CASE DropFails(w)
  <2>1. stale' \in BOOLEAN
    BY <1>4 DEF DropFails
  <2>2. TypeOK'
    BY <1>4, <2>1 DEF DropFails
  <2>3. LockHeld' /\ RunsOwn'
    BY <1>4 DEF DropFails
  <2>4. Explained' /\ RowsHeld' /\ Over'
    BY <1>4 DEF DropFails
  <2> QED
    BY <2>2, <2>3, <2>4
<1> QED
  BY <1>1, <1>2, <1>3, <1>4

-----------------------------------------------------------------------------
(* The rest of a worker's task.                                            *)

\* A task goes on outside the checkout: it has a row only where a run is under
\* way, and a row it leaves behind has a cause.
LEMMA TaskInv ==
  ASSUME IInv, UNCHANGED <<workspace, main, stop, poll>>,
         NEW w \in Worker, pc[w] # "ended", place[w] = "out",
         NEW where \in Task \ {"checkout"}, pc' = [pc EXCEPT ![w] = where],
         held' \subseteq held \cup {w},
         w \in held' => where \in {"before", "publish"},
         troubles \subseteq troubles', troubles' \subseteq Trouble,
         stranded' \in BOOLEAN,
         stranded' => stranded \/ troubles' \cap {"crash", "poll", "kill"} # {}
  PROVE  IInv'
<1>1. WorkspaceOK' /\ LockHeld' /\ RunsOwn'
  BY CheckoutsFrame DEF IInv, TypeOK
<1>2. place' = place /\ end' = end /\ left' = left /\ orphans' = orphans
  BY DEF workspace
<1>3. TypeOK'
  BY <1>1, <1>2 DEF IInv, TypeOK, Task
<1>4. Explained'
  BY <1>2 DEF IInv, Explained
<1>5. RowsHeld' /\ Over'
  BY <1>2 DEF IInv, TypeOK, RowsHeld, Over
<1> QED
  BY <1>1, <1>3, <1>4, <1>5 DEF IInv

\* The first step into a checkout.
LEMMA EnterInv ==
  ASSUME IInv, NEW w \in Worker, pc[w] = "before", Enter(w), Goes(w, "checkout"),
         UNCHANGED <<held, stranded, main, stop, poll, troubles>>
  PROVE  IInv'
<1> USE DEF Enter, Goes, Go, Place, End, Task
<1>1. WorkspaceOK' /\ LockHeld' /\ RunsOwn'
  BY DEF IInv, TypeOK, WorkspaceOK, LockHeld, UnderLock, Writing, RunsOwn
<1>2. TypeOK'
  BY <1>1 DEF IInv, TypeOK, WorkspaceOK
<1>3. Explained' /\ RowsHeld' /\ Over'
  BY DEF IInv, TypeOK, WorkspaceOK, Explained, RowsHeld, Over
<1> QED
  BY <1>1, <1>2, <1>3 DEF IInv

\* The engine is over, and the teardown begins.
LEMMA LeaveInv ==
  ASSUME IInv, NEW w \in Worker, NEW how \in End \ {"cut"}, Leave(w, how),
         held' \subseteq held, UNCHANGED <<pc, stranded, main, stop, poll, troubles>>
  PROVE  IInv'
<1> USE DEF Leave, Go, Place, End
<1>1. WorkspaceOK' /\ LockHeld' /\ RunsOwn'
  BY DEF IInv, TypeOK, WorkspaceOK, LockHeld, UnderLock, Writing, RunsOwn
<1>2. TypeOK'
  BY <1>1 DEF IInv, TypeOK, WorkspaceOK
<1>3. Explained' /\ RowsHeld' /\ Over'
  BY DEF IInv, TypeOK, WorkspaceOK, Explained, RowsHeld, Over
<1> QED
  BY <1>1, <1>2, <1>3 DEF IInv

\* What a worker does with a row that is closed.
LEMMA CloseRowInv ==
  ASSUME IInv, NEW w \in Worker, pc[w] # "ended", place[w] = "out", CloseRow(w)
  PROVE  IInv'
BY TaskInv DEF CloseRow, Goes, Others, Task, IInv, TypeOK

\* A run that ends outside of run_one leaves its row behind.
LEMMA DropsInv ==
  ASSUME IInv, NEW w \in Worker, pc[w] # "ended", place[w] = "out",
         NEW where \in {"backoff", "ended"}, Drops({w}, where),
         UNCHANGED <<workspace, main, stop, poll>>,
         troubles \subseteq troubles', troubles' \subseteq Trouble,
         w \in held => troubles' \cap {"crash", "poll", "kill"} # {}
  PROVE  IInv'
<1>1. pc' = [pc EXCEPT ![w] = where]
  BY DEF Drops, IInv, TypeOK
<1>2. held' = held \ {w} /\ stranded' = (stranded \/ w \in held)
  BY DEF Drops
<1> QED
  BY <1>1, <1>2, TaskInv DEF Task

LEMMA CrashInv ==
  ASSUME IInv, NEW w \in Worker, Crash(w)
  PROVE  IInv'
<1>1. pc[w] # "ended" /\ place[w] = "out"
  BY DEF Crash, Back, IInv, TypeOK
<1> QED
  BY <1>1, DropsInv DEF Crash, Trouble, IInv, TypeOK

LEMMA CutInv ==
  ASSUME IInv, NEW w \in Worker, Cut(w)
  PROVE  IInv'
<1>1. pc[w] = "checkout" /\ place[w] = "out" /\ end[w] = "cut"
  BY DEF Cut, Back
<1>2. "poll" \in troubles /\ troubles \subseteq Trouble
  BY <1>1 DEF IInv, RowsHeld, TypeOK
<1> QED
  BY <1>1, <1>2, DropsInv DEF Cut, Others

\* Whatever a worker's task does.
LEMMA WorkerInv ==
  ASSUME IInv, NEW w \in Worker, WorkerStep(w)
  PROVE  IInv'
<1>0. /\ pc[w] # "checkout" => place[w] = "out"
      /\ troubles \subseteq Trouble /\ stranded \in BOOLEAN
  BY DEF IInv, TypeOK
<1>1. CASE Facts(w)
  BY <1>0, <1>1, EnterInv, CloseRowInv DEF Facts, Others
<1>2. CASE Git(w)
  BY <1>2, GitInv
<1>3. CASE GitFails(w)
  BY <1>3, GitFailsInv
<1>4. CASE Review(w)
  BY <1>4, LeaveInv DEF Review, Others, End
<1>5. CASE Settle(w)
  <2>1. CASE CloseRow(w)
    BY <1>5, <2>1, CloseRowInv DEF Settle, Back
  <2>2. CASE Goes(w, "publish") /\ UNCHANGED <<workspace, held, stranded, Others>>
    BY <1>0, <1>5, <2>2, TaskInv DEF Settle, Back, Goes, Others, Task
  <2> QED
    BY <1>5, <2>1, <2>2 DEF Settle
<1>6. CASE Publish(w)
  BY <1>0, <1>6, CloseRowInv DEF Publish
<1>7. CASE Crashed(w)
  BY <1>7, CrashInv DEF Crashed
<1>8. CASE Cut(w)
  BY <1>8, CutInv
<1>9. CASE Respawn(w) \/ Rest(w)
  BY <1>0, <1>9, TaskInv DEF Respawn, Rest, Goes, Others, Task, IInv, RowsHeld
<1> QED
  BY <1>1, <1>2, <1>3, <1>4, <1>5, <1>6, <1>7, <1>8, <1>9 DEF WorkerStep

LEMMA PollInv ==
  ASSUME IInv, PollStep
  PROVE  IInv'
<1>1. /\ UNCHANGED workspace
      /\ main' = main /\ stop' = stop /\ pc' = pc /\ held' = held /\ stranded' = stranded
  BY DEF PollStep, Polled, PollFails, Waited, Tasks
<1>2. /\ poll' \in {"request", "wait", "ended", "failed"}
      /\ \/ poll' # "failed" /\ troubles' = troubles
         \/ troubles' = troubles \cup {"poll"}
  BY DEF PollStep, Polled, PollFails, Waited
<1>3. WorkspaceOK' /\ LockHeld' /\ RunsOwn'
  BY <1>1, CheckoutsFrame DEF IInv, TypeOK
<1>4. place' = place /\ end' = end /\ left' = left /\ orphans' = orphans
  BY <1>1 DEF workspace
<1>5. TypeOK'
  BY <1>1, <1>2, <1>3, <1>4 DEF IInv, TypeOK, Trouble
<1>6. Explained' /\ RowsHeld' /\ Over'
  BY <1>1, <1>2, <1>4 DEF IInv, Explained, RowsHeld, Over
<1> QED
  BY <1>3, <1>5, <1>6 DEF IInv

-----------------------------------------------------------------------------
(* Cancellation, exits and starts.                                         *)

\* What runs leave behind is of two kinds.
LEMMA RemainsKinds ==
  ASSUME NEW S \in SUBSET Worker
  PROVE  UNION {Remains(w) : w \in S} \subseteq {"ref", "tree"}
<1>1. \A w \in S : Remains(w) \subseteq {"ref", "tree"}
  BY DEF Remains
<1> QED
  BY <1>1

\* Whoever is cancelled under a command, or leaves something, was not ended.
LEMMA CancelInv ==
  ASSUME IInv, Cancel, Finished \/ "poll" \in troubles
  PROVE  IInv'
<1> DEFINE gone == {w \in Worker : Cancelled(w) = "out"}
<1> DEFINE who == {w \in Worker : pc[w] # "checkout"}
<1>1. \A w \in Worker :
        /\ Cancelled(w) \in {"queue_undo", "remove", "out"}
        /\ place[w] = "in" => Cancelled(w) = "remove"
        /\ place[w] \in {"out", "queue_fetch", "fetch", "remove"} => Cancelled(w) = "out"
  BY DEF Cancelled
<1>2. /\ place' = [w \in Worker |-> Cancelled(w)]
      /\ end' = [w \in Worker |-> "cut"]
      /\ lock' = Nobody
      /\ orphans' = orphans \cup ({place[w] : w \in Worker} \cap Running)
      /\ left' = left \cup UNION {Remains(w) : w \in gone}
      /\ refs' = refs \ gone
      /\ trees' = trees \ gone
      /\ stale' = stale
  BY DEF Cancel, CancelAll
<1>3. /\ pc' = [w \in Worker |-> IF w \in who THEN "ended" ELSE pc[w]]
      /\ held' = held \ who
      /\ stranded' = (stranded \/ held \cap who # {})
      /\ poll' = IF PollOver THEN poll ELSE "ended"
      /\ troubles' = troubles \cup (IF Finished THEN {} ELSE {"cut"})
      /\ main' = "gather" /\ stop' = stop
  BY DEF Cancel, Drops
\* Whoever is not ended was cut off.
<1>4. ASSUME NEW w \in Worker, pc[w] # "ended"
      PROVE  {"cut", "poll"} \subseteq troubles'
  BY <1>3, <1>4 DEF Finished, Ended
<1>5. \A w \in Worker : place[w] # "out" => pc[w] # "ended"
  BY DEF IInv, TypeOK
<1>6. WorkspaceOK'
  <2>1. left' \subseteq {"ref", "tree"}
    BY <1>2, RemainsKinds DEF IInv, TypeOK, WorkspaceOK
  <2>2. /\ orphans' \subseteq Running
        /\ refs' \subseteq Worker /\ trees' \subseteq Worker
        /\ stale' \in BOOLEAN
    BY <1>2 DEF IInv, TypeOK, WorkspaceOK
  <2>3. \A w \in Worker : Cancelled(w) \in Place
    BY <1>1 DEF Place
  <2>4. place' \in [Worker -> Place] /\ end' \in [Worker -> End]
    BY <1>2, <2>3 DEF End
  <2> QED
    BY <1>2, <2>1, <2>2, <2>4 DEF WorkspaceOK
<1>7. LockHeld' /\ RunsOwn'
  <2>1. \A w \in Worker : place'[w] = Cancelled(w)
    BY <1>2
  <2>2. LockHeld'
    <3>1. \A w \in Worker : place'[w] \notin UnderLock
      BY <1>1, <2>1 DEF UnderLock, Writing
    <3> QED
      BY <1>2, <3>1 DEF LockHeld
  <2>3. \A w \in refs' : w \in Worker /\ place'[w] \in {"queue_undo", "remove"}
    BY <1>1, <1>2, <2>1 DEF IInv, RunsOwn
  <2>4. \A w \in trees' : w \in Worker /\ place'[w] = "remove"
    BY <1>1, <1>2, <2>1 DEF IInv, RunsOwn
  <2> QED
    BY <2>2, <2>3, <2>4 DEF RunsOwn
<1>8. TypeOK'
  <2>1. \A w \in Worker : place'[w] # "out" => pc'[w] = "checkout"
    BY <1>1, <1>2, <1>3 DEF IInv, TypeOK
  <2>2. /\ pc' \in [Worker -> Task]
        /\ held' \subseteq Worker /\ troubles' \subseteq Trouble
    BY <1>3 DEF IInv, TypeOK, Task, Trouble
  <2>3. /\ poll' \in {"request", "wait", "ended", "failed"}
        /\ stop' \in BOOLEAN /\ main' = "gather"
    BY <1>3 DEF IInv, TypeOK
  <2>4. stranded' \in BOOLEAN
    BY <1>3 DEF IInv, TypeOK
  <2> QED
    BY <1>6, <2>1, <2>2, <2>3, <2>4 DEF TypeOK
<1>9. Explained'
  <2>1. left' # {} => left # {} \/ "cut" \in troubles'
    BY <1>2, <1>4, <1>5 DEF IInv, RunsOwn, Remains
  <2>2. orphans' # {} => orphans # {} \/ "cut" \in troubles'
    <3>1. \A w \in Worker : place[w] \in Running => "cut" \in troubles'
      BY <1>4, <1>5 DEF Running, Writing
    <3> QED
      BY <1>2, <3>1
  <2>3. stranded' => stranded \/ "poll" \in troubles'
    BY <1>3, <1>4 DEF IInv, RowsHeld
  <2>4. poll' = "failed" => poll = "failed"
    BY <1>3
  <2>5. troubles \subseteq troubles'
    BY <1>3
  <2> QED
    BY <1>3, <2>1, <2>2, <2>3, <2>4, <2>5 DEF IInv, Explained
<1>10. RowsHeld' /\ Over'
  BY <1>3, <1>4 DEF IInv, TypeOK, RowsHeld, Over
<1> QED
  BY <1>6, <1>7, <1>8, <1>9, <1>10 DEF IInv

\* The process is gone with what it was doing.
LEMMA LostInv ==
  ASSUME IInv, Lost, main' = "down", stop' = stop,
         pc' = [w \in Worker |-> "ended"], held' = {},
         poll' \in {"ended", poll}, stranded' \in BOOLEAN,
         troubles \subseteq troubles', troubles' \subseteq Trouble,
         stranded' => stranded \/ "kill" \in troubles',
         "kill" \in troubles' \/ \A w \in Worker : place[w] = "out"
  PROVE  IInv'
<1>1. /\ place' = [w \in Worker |-> "out"]
      /\ end' = [w \in Worker |-> "cut"]
      /\ lock' = Nobody /\ orphans' = {} /\ refs' = {} /\ trees' = {}
      /\ left' = left \cup UNION {Remains(w) : w \in Worker}
      /\ stale' \in BOOLEAN
  <2>1. stale \in BOOLEAN
    BY DEF IInv, TypeOK, WorkspaceOK
  <2> QED
    BY <2>1 DEF Lost
<1>2. WorkspaceOK'
  BY <1>1, RemainsKinds DEF IInv, TypeOK, WorkspaceOK, Place, End
<1>3. LockHeld' /\ RunsOwn'
  BY <1>1 DEF LockHeld, RunsOwn, UnderLock, Writing
<1>4. TypeOK'
  BY <1>1, <1>2 DEF IInv, TypeOK, Task
<1>5. Explained'
  <2>1. left' # {} => left # {} \/ "kill" \in troubles'
    BY <1>1 DEF IInv, RunsOwn, Remains
  <2> QED
    BY <1>1, <2>1 DEF IInv, TypeOK, Explained
<1>6. RowsHeld' /\ Over'
  BY <1>1 DEF RowsHeld, Over
<1> QED
  BY <1>2, <1>3, <1>4, <1>5, <1>6 DEF IInv

LEMMA ExitInv ==
  ASSUME IInv, Exit
  PROVE  IInv'
<1>1. \A w \in Worker : pc[w] = "ended" /\ place[w] = "out"
  BY DEF Exit, IInv, Over, TypeOK
<1>2. held = {} /\ pc = [w \in Worker |-> "ended"]
  BY <1>1 DEF IInv, RowsHeld, TypeOK
<1> QED
  BY <1>1, <1>2, LostInv DEF Exit, Tasks, IInv, TypeOK

LEMMA KillInv ==
  ASSUME IInv, Kill
  PROVE  IInv'
<1>1. held' = {} /\ pc' = [w \in Worker |-> "ended"]
  BY DEF Kill, Drops, IInv, TypeOK
<1>2. stranded' \in BOOLEAN
  BY DEF Kill, Drops, IInv, TypeOK
<1> QED
  BY <1>1, <1>2, LostInv DEF Kill, IInv, TypeOK, Trouble

\* A start finds nothing of the process before it but rows.
LEMMA StartInv ==
  ASSUME IInv, Start
  PROVE  IInv'
<1>1. /\ \A w \in Worker : place[w] = "out"
      /\ held = {} /\ orphans = {}
  BY DEF Start, IInv, Over, TypeOK, RowsHeld
<1>2. WorkspaceOK' /\ LockHeld' /\ RunsOwn'
  BY DEF Start, Sweep, IInv, TypeOK, WorkspaceOK, LockHeld, RunsOwn
<1>3. TypeOK'
  BY <1>1, <1>2 DEF Start, Sweep, IInv, TypeOK, Task, Trouble
<1>4. Explained' /\ RowsHeld' /\ Over'
  BY <1>1 DEF Start, Sweep, Explained, RowsHeld, Over
<1> QED
  BY <1>2, <1>3, <1>4 DEF IInv

-----------------------------------------------------------------------------
(* What the main task does besides, and the signal.                        *)

\* The main task goes on, and nothing else does.
LEMMA MainInv ==
  ASSUME IInv, UNCHANGED <<workspace, poll, pc, held, stranded, troubles>>,
         stop' \in BOOLEAN, main' \in {"run", "grace", "closed"},
         main' = "grace" => main = "grace" \/ poll = "failed",
         main' = "closed" => \A w \in Worker : pc[w] = "ended"
  PROVE  IInv'
<1>1. WorkspaceOK' /\ LockHeld' /\ RunsOwn'
  BY CheckoutsFrame DEF IInv, TypeOK
<1>2. place' = place /\ end' = end /\ left' = left /\ orphans' = orphans
  BY DEF workspace
<1>3. TypeOK'
  BY <1>1, <1>2 DEF IInv, TypeOK
<1>4. Explained' /\ RowsHeld' /\ Over'
  BY <1>2 DEF IInv, Explained, RowsHeld, Over
<1> QED
  BY <1>1, <1>3, <1>4 DEF IInv

\* A command goes on after its worker, and perhaps finishes a fetch.
LEMMA OrphanInv ==
  ASSUME IInv, OrphanEnds, UNCHANGED process
  PROVE  IInv'
<1>1. /\ orphans # {} /\ orphans' \subseteq orphans
      /\ left' \subseteq left \cup {"ref"}
      /\ UNCHANGED <<place, end, lock, refs, trees, stale>>
  BY DEF OrphanEnds
<1>2. WorkspaceOK' /\ LockHeld' /\ RunsOwn'
  BY <1>1 DEF IInv, TypeOK, WorkspaceOK, LockHeld, RunsOwn
<1>3. UNCHANGED <<main, stop, poll, pc, held, stranded, troubles>>
  BY DEF process
<1>4. TypeOK'
  BY <1>1, <1>2, <1>3 DEF IInv, TypeOK
<1>5. Explained' /\ RowsHeld' /\ Over'
  BY <1>1, <1>3 DEF IInv, Explained, RowsHeld, Over
<1> QED
  BY <1>2, <1>4, <1>5 DEF IInv

-----------------------------------------------------------------------------
\* Every step preserves the invariant.
LEMMA StepInv ==
  ASSUME IInv, [Next]_vars
  PROVE  IInv'
<1>0. stop \in BOOLEAN
  BY DEF IInv, TypeOK
<1>1. ASSUME NEW w \in Worker, WorkerStep(w) PROVE IInv'
  BY <1>1, WorkerInv
<1>2. CASE PollStep
  BY <1>2, PollInv
<1>3. CASE AllDone
  BY <1>3, CancelInv DEF AllDone
<1>4. CASE GraceOver
  BY <1>4, CancelInv DEF GraceOver, IInv, Explained
<1>5. CASE Failure
  BY <1>5, MainInv DEF Failure, Tasks
<1>6. CASE Close
  BY <1>0, <1>6, MainInv DEF Close, Gathered, Finished, Ended, Tasks
<1>7. CASE Exit
  BY <1>7, ExitInv
<1>8. ASSUME NEW w \in Worker, Claim(w) PROVE IInv'
  BY <1>8, TaskInv DEF Claim, Goes, Others, Task, IInv, TypeOK
<1>9. ASSUME NEW w \in Worker, Crash(w) PROVE IInv'
  BY <1>9, CrashInv
<1>10. ASSUME NEW w \in Worker, CrashInside(w) PROVE IInv'
  BY <1>10, LeaveInv DEF CrashInside, End, process
<1>11. CASE OrphanEnds /\ UNCHANGED process
  BY <1>11, OrphanInv
<1>12. CASE Sigterm
  BY <1>12, MainInv DEF Sigterm, Tasks
<1>13. CASE Kill
  BY <1>13, KillInv
<1>14. CASE Start
  BY <1>14, StartInv
<1>15. CASE UNCHANGED vars
  <2>1. UNCHANGED <<workspace, main, stop, poll, pc, held, stranded, troubles>>
    BY <1>15 DEF vars, process
  <2>2. WorkspaceOK' /\ LockHeld' /\ RunsOwn'
    BY <2>1, CheckoutsFrame DEF IInv, TypeOK
  <2>3. TypeOK' /\ Explained' /\ RowsHeld' /\ Over'
    BY <2>1, <2>2 DEF workspace, IInv, TypeOK, Explained, RowsHeld, Over
  <2> QED
    BY <2>2, <2>3 DEF IInv
<1> QED
  BY <1>1, <1>2, <1>3, <1>4, <1>5, <1>6, <1>7, <1>8, <1>9, <1>10, <1>11, <1>12, <1>13,
     <1>14, <1>15 DEF Next, MainStep, Unforced

\* IInv is an inductive invariant of the process.
LEMMA Invariance == Spec => []IInv
BY InitInv, StepInv, PTL DEF Spec

\* Every variable keeps its shape, and a worker's place in a checkout agrees
\* with its task.
THEOREM Typing == Spec => []TypeOK
<1>1. IInv => TypeOK
  BY DEF IInv
<1> QED
  BY <1>1, Invariance, PTL

\* A run takes its ref and its directory away, unless git, a cancellation or a
\* kill is in the way: checkout and _teardown of repo.py.
THEOREM LeavesNothing == Spec => []NothingLeaks
<1>1. IInv => NothingLeaks
  BY DEF IInv, TypeOK, RunsOwn, Explained, NothingLeaks
<1> QED
  BY <1>1, Invariance, PTL

\* One worker's command at a time writes to the mirror's refs, and no lock is
\* kept by a worker that has left: _fetch and _drop_ref of repo.py.
THEOREM OneWriter == Spec => []OneGitWritesRefs
<1>1. IInv => OneGitWritesRefs
  BY DEF IInv, LockHeld, UnderLock, Explained, OneGitWritesRefs
<1> QED
  BY <1>1, Invariance, PTL

\* The store is closed after every task, and rows are left claimed for a cause:
\* run_together of daemon.py.
THEOREM StopsInOrder == Spec => []OrderlyStop
<1>1. IInv => OrderlyStop
  BY DEF IInv, Explained, Over, OrderlyStop, Ended
<1> QED
  BY <1>1, Invariance, PTL
=============================================================================
