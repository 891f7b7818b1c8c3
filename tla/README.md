# A verification project for pr-review-agent

pr-review-agent is a daemon that polls a GitHub repository, queues a review for
each trigger it accepts (a pull request that opens, a maintainer's mention), runs
a review engine under a token budget and posts the result as a comment. This
directory holds TLA+ models of it, TLC configurations that check them on small
instances, and proofs of what matters most for every instance.

Paths below are relative to `src/src/pr_review_agent/`.

## The system

| part | state | operations | talks to |
|---|---|---|---|
| review queue, `queue.py` | table `queue`: status, owner, lease, attempts | enqueue, claim, complete, release, release_unattempted, abandon, fold, holds | called by the poll loop and the workers; calls the governor inside the claim's transaction |
| review worker, `worker.py` | the `Claim` in hand, `_Spend`, `RunEnd` | run_one, _attempt, _settle_publish_and_finish, _publish_recorded, _fold | queue, governor, workspace, engine, runs, publisher |
| recorded runs, `runs.py`, `numbering.py` | table `runs`: content, head, published_at, failures | record, history, unpublished, mark_published, publish_failed, purge; assign | worker, publisher |
| publisher, `publisher.py` | table `agent_comments` | acknowledge, publish, notify, report_failure | GitHub, runs |
| budget governor, `budget.py` | table `ledger` | admit, settle, preflight, trip, headroom | queue, worker, breaker, pacer |
| circuit breaker, `breaker.py` | table `budget_state` | calibration, decay | governor |
| pacer, `pacing.py` | none; reads the ledger | paced | governor |
| authority, `daemon.py` `resolve_budget` | table `budget_policy` | publish, adopt, reload on SIGHUP | governor |
| poll loop, `daemon.py`, `poller/` | watermarks, ETags, `open_pull_requests`, the interval | poll_once, _process, seed_watermarks | GitHub, classifier, queue |
| classifier, `triggers/` | none | classify_pull_request, classify_comment | poll loop |
| supervision, `daemon.py` | the stop event, the backoff | supervise, run_together, run | worker, poll loop, store |
| GitHub client, `poller/client.py` | none | get, post, retries | poller, worker, publisher |
| store, `store.py` | the SQLite file, its schema version | open, migrate, transaction, adopt_legacy_watermarks | all |
| workspace, `workspace/` | the mirror, its lock, run refs and worktrees | sweep, checkout, diff_start, teardown | worker, git |
| engine, `engine/` | the latch of the pre-flight | one review: completed, truncated, failed, limited | worker |
| text, `report.py`, `findings.py`, `engine/prompt.py`, `sanitise.py` | none | rendering and parsing | worker, publisher |
| configuration, CLI, service, logs, skills | files | load, install | all |

### What is hard

*Two kinds of concurrency.* Workers are tasks of one event loop and interleave
at awaits; several daemons, and a `once` command, may share the SQLite file, and
there the transaction is the only atom.

*Two entitlements.* The queue row has an owner and so has the ledger's open row.
A worker whose lease lapsed, or that died and came back under the same identity,
meets both guards separately.

*Deaths and cancellation.* An uncaught exception or a kill leaves a claimed row, an
open reservation, a recorded run, a comment without its stamp, a git ref or a
directory, or any of these without the others. A cancelled task leaves its git
command running.

*GitHub.* Requests fail, or succeed with their answer lost. The head moves
between any two requests, and between two rounds its branch is amended and
rebased.

*Time.* Leases, rolling windows, the breaker's hold and the pacing interval all
compare a stored time with the clock.

`PROJECT.json` lists each hazard at its line, with the properties that cover it.

### What would make each part correct

* Queue: one live lease per pull request; a live lease is only ended by time or
  its owner; a closed row stays closed; every attempt is counted.
* Worker: a row that waits or is done has no reservation open; the engine runs at
  most `max_attempts` times for a trigger; a review is posted once; a trigger that
  is done was answered; every row ends.
* Rounds: no line the contributor wrote falls between two rounds; upstream's
  changes are not taken for theirs; a finding's number means one thing for the life
  of the pull request.
* Governor: no window is charged for more than its limit allows; a reservation is
  charged once; refusals end; pacing holds for the pull request as a whole.
* Poll loop: an accepted event is enqueued once, no watermark passes an event that
  is not queued, and neither a failed request nor a restart loses one.
* Start: daemons that start in any order end up with one schema, one authority and
  one owner of the old watermarks, and come up.
* Process: a run takes away what it made; one command writes the mirror's refs; the
  store outlives its users; a stop ends.

## Modules

| module | models | composed of |
|---|---|---|
| `LeaseTable` | the promise of the queue, abstractly | |
| `ReviewQueue` | `queue.py` | implements `LeaseTable` |
| `Engine` | one call of the engine: `engine/claude.py`, `engine/cli.py`, and what `worker.py` makes of its end | |
| `Client` | one write to GitHub with its retries: `poller/client.py` | |
| `ReviewPipeline` | `worker.py` with `runs.py`, `publisher.py` and the writes of `budget.py` | instances of `ReviewQueue` (over the same variables), `Engine`, `Client` |
| `Governor` | `budget.py`, `breaker.py`, `pacing.py`, `BudgetConfig` | instance of `Engine` |
| `Rounds` | what each review of a pull request is shown and how its findings are numbered: `workspace/since.py`, `runs.py`, `numbering.py` | |
| `PollLoop` | `poller/poller.py`, `Daemon._process`, the classifier's tests | |
| `Startup` | the start of several daemons on one store: `store.py`, `resolve_budget`, `seed_watermarks`, SIGHUP | |
| `Workspace` | checkouts over one mirror: `workspace/repo.py`, `gitcmd.py`, `_subprocess.py` | |
| `Supervision` | one process: `supervise`, `run_together`, `run` | extends `Workspace` |
| `ReviewQueue_proofs`, `ReviewPipeline_proofs`, `ReviewPipeline_answers`, `Governor_proofs`, `Rounds_proofs`, `PollLoop_proofs`, `Startup_proofs`, `Supervision_proofs` | theorems | the modules they are named for; `ReviewPipeline_answers` extends `ReviewPipeline_proofs` |
| `MCReviewQueue`, `MCReviewPipeline`, `MCGovernor`, `MCRounds`, `MCPollLoop`, `MCStartup`, `MCSupervision` | instances for TLC | |

Beside a definition of the code there may stand another form of it, commented
`Fault:`. No specification uses it: put in the definition's place it is a mistake
one could make there, and the property `PROJECT.json` pairs it with then fails.

### ReviewQueue

A row of `rows` is a row of the table. `id` stands for `(enqueued_at, rowid)`,
which are only compared; `lease` is what is left of `leased_until`, and `Tick`
takes one unit off each running lease. Each SQL statement is an operator that
returns the table it leaves (`Swept`, `Leased`, `Finished`, `Unattempted`,
`Folded`), and each method is an action. `claim` is one step, as it is one
`BEGIN IMMEDIATE` transaction: the exhausted sweep, the ordered candidates, the
admit hook (any set of candidates may be refused) and the lease. A claim that
finds nothing has still swept. `claims` holds the `Claim` objects; a worker whose
lease lapsed keeps its object and may call any verb with it, which is where the
owner guards matter.

The refinement (`WorkState`, `WorkHolder`) reads a pending row and a claimed row
whose lease has run out both as waiting, so a lapse is visible as a step of the
lease table and a stale verb must be a stutter.

### Engine and Client

These two have no state. `Answer` is all that a call of the `claude` command may
meet (the latch of the pre-flight, its probes, the exit, stdout and stderr), and
`Review` is what the adapter makes of it, in the order its code tests things. `Finish`,
`Announced` and `Charged` are the worker's reading of that end. The pipeline and
the governor take the ends of a run from `Ends`, so an end that neither the
adapter nor the worker can produce is in neither model.

`Written` says of one `post` and its retries how often it was carried out and
whether its caller knows: only a rate limit that names a short cooldown is sent
again, and such a request was not carried out.

### ReviewPipeline

A step is one transaction, or one request with the code that follows its answer
up to the next one. `work[o].pc` is the place in `run_one`. The paths are

* `start` `facts` `checkout` `engine` `settle`, each with the failures that
  `classify_failure` tells apart, ending in a verb for the row;
* `refuse` `abandon`: the free refusals (closed pull request, pre-flight), which
  settle at nothing and abandon the row;
* `publish` `post` `stamp` or `failed` `enqueue`: posting, for a fresh review and
  for a publication item (`item`, `holds` first);
* `verb` `announce` or `fold` `done`.

Whether the governor admits is a free choice here (`refused`), so every property
holds for any budget. What admission writes is kept: `open[t]` is the owner of the
one unsettled ledger row. `Governor` has the proof that there is only one.

Bookkeeping that the code does not have, for the properties only: `comments` and
`notices` count what stands on the pull request, `drains` the engine's runs,
`asked` the head at the time of a trigger, `foldedBy` who folded it, `cut` the
posts whose bookkeeping was cut short.

`Crash` is any exception that leaves `run_one`, or a kill; the worker comes back
under the same identity, as `supervise` says. `LiveLapse` chooses whether a lease
may expire under a worker that is still alive. `queue.py:24-26` says it cannot, from the engine's
ceiling alone; the git commands and the waits for the mirror's lock add to it. So
the runs that rely on that comment set it FALSE, and the run that checks the
bookkeeping without it sets it TRUE. `PostSuperseded` is the setting of that name, and
`Withholds` says whether a review may be withheld for another reason, a dry run or a
credential in its body: where it is TRUE any review may be, as both are outside the model.
`Discarded` and `Withholds` are the only ways to a stamp without a comment.

`DrivesTheQueue` says that what this module does to the queue's variables is
always a step of `ReviewQueue`, so the theorems about the queue hold here.

### Governor

A time is an age that stops counting at the longest window. `Admit` is
`Governor.admit`: the switch, the breaker, the four windows with the ladder, the
pacer, then the closing of lost reservations and the new one. `Attempt` fixes the
cost of a run that will not report one, from the daemon's own section as the code
does. `EndFree` and `EndRun` are the settles, at what `Engine` says of the run's
end; a measured run may exceed its ceiling by `Overruns`. `Reload` and `Publish`
are SIGHUP on this daemon and on its authority. `Crash` leaves the reservation
open. The queue's choice of what to offer is free, so a trigger may be admitted
again while a worker that lost its lease is still busy with it. `Total` is SQL's
SUM, a recursive function over the ledger's rows.

### Rounds

One pull request, whose triggers are reviewed one after the other, as the queue
has it. A tree is the set of its lines, a commit is the upstream commit it stands
on with the contributor's own lines, and `Push` and `Rebase` happen between any
two steps of a round. `Start` reads the facts and `RunStore.history`, `Fetch`
chooses what the diff starts from (`StartOf` is `diff_start`, `Replay` its
`git merge-tree`), `Record` numbers the answer (`assign`) and writes the run,
replacing the row of an earlier attempt at the same trigger: `runs` is a function
of the trigger, as the table's primary key makes it, `at` stands for `recorded_at`,
and `owed` holds the triggers whose publication is still to be done. Whatever makes a
round full without a reason modelled here (thresholds of lines, minutes and
commits, a conflict, a git too old) is a free choice, so each round is checked
both ways.

The engine is held to what the prompt asks: it speaks of lines it was shown, or
that the last round spoke of, and gives a number only to the finding that carried
it. What it must not be trusted with, the numbers it repeats or makes up, is what
`assign` is for.

### PollLoop

A sweep is three requests, `Get` of one endpoint after the other, and `Process`,
which is `Daemon._process`: it has no await, so nothing of this process comes in
between, though a death or another daemon's lock on the store may cut it short
(`Cut`). GitHub moves between any two requests: pull requests open, close, become
ready and are pushed to, comments are written and edited.

`etag` is the set of endpoints whose stored ETag is GitHub's present one. A change
to a listing takes its endpoint out, an answer puts it in, and a request to one in
the set is a 304. `results` is what the sweep has read, `Nothing` for a 304, and
`open` is `open_pull_requests`, in memory only. `Start` is `seed_watermarks`.

A stamp of GitHub's is a whole second and the daemon's clock is finer: stamps are
even and `Now` is odd. So what GitHub stamps in the second of the first start is
never fresh, which `docs/DAEMON.md` admits, and the properties speak of what came
after it. `born` is the time of the first start, for the properties only.

### Startup

Each repository has a daemon, all of them share the file. A step is one
transaction, or one statement outside of any: `Slice` and `Number` are the two
readings of `user_version` that `_migrate` makes outside its transactions,
`Migrate` is one migration with its version bump, `Publish` and `Comply` are
`resolve_budget`, `Adopt` is `adopt_legacy_watermarks`, `Seed` one `_since`. An
exception ends the process and its unit starts it again. The operator edits any
file at any time, SIGHUP reloads it (`Reload`: the limits, never the role), and a
reload's publication may fail after the configuration was replaced.

### Workspace and Supervision

`Workspace` is the checkout as a procedure: `place[w]` is the git command a worker
is at, or the wait for the mirror's lock. Every command may fail, or be killed
after its timeout and leave a `*.lock` file (`stale`), which makes later ref
writes fail until the sweep of the next start. What a finished checkout could not
take away is in `left`. `Supervision` puts the tasks around it: the workers'
`run_once`, the poll task, the main task with its grace period, the signal, a
kill, and the restart. `Cancel` is the `finally` of `run_together`, which cancels
every task at the await it is at; a checkout then goes to its teardown or out, and
a git command goes on without its worker, in `orphans`. `troubles` records what
has gone wrong in this process, so that the properties can say what may be left
behind only because of it.

## Runs

| run | configuration | result |
|---|---|---|
| `queue` | 3 rows on 2 pull requests, 2 workers, lease 2, 2 attempts | type, one live lease per pull request, counted attempts, no theft, closed for good, refinement of `LeaseTable` |
| `pipeline_crashes` | 1 trigger and its item, 2 workers, 3 upsets, 3 attempts; a review whose head has moved is discarded, no other is withheld | posted once, done is answered, the queue is driven as `ReviewQueue` has it |
| `pipeline_folds` | 2 triggers and their items, 2 workers, 1 upset, no live lapse; no review is discarded or withheld | a folded trigger has its comment, or one is owed or given up, in a review that read nothing older than it asked about |
| `pipeline_lapses` | 1 trigger and its item, 2 workers, 1 upset, leases lapse under live workers, any review may be withheld, under fairness | the bookkeeping properties still hold, and every row ends |
| `governor` | 2 triggers of 1 pull request, 2 actors, 2 workers, 2 sections, 3 ledger rows, 2 trips | windows, single reservations, recovery, pacing, single charges, refusals end |
| `rounds` | 3 triggers, 2 lines, 2 upstream commits; 3 pushes, or 1 push and 2 findings a round; 1 upset | every line is read, nothing upstream is shown, numbers mean one thing |
| `poll_loop` | an old pull request with 2 comments of one endpoint, 2 new ones, one a draft; 3 seconds, 1 change, 1 upset | no watermark passes an event that is not queued, no backlog |
| `startup` | 2 daemons on a file that has had one migration of three, old watermarks, 4 sections, 2 edits, 1 death, under fairness | the schema is counted, one authority, the old watermarks go to one daemon, all come up |
| `process` | 2 workers, any number of failures, signals, kills and restarts, under fairness | nothing leaks, one writer among the live workers, orderly stop, a stop ends; no deadlock |
| `poll_watermark` | 2 comments, one of each endpoint, nothing fails | violated: the watermark passes a mention that is not queued |
| `poll_sweeps` | 2 comments of one endpoint, 1 upset, under fairness | violated: a mention is never queued |
| `startup_fresh` | 2 daemons on a new file, no edit and no death, under fairness | violated: a daemon never comes up |

### Findings

Each violated run states what the docs or comments say and shows a behaviour of
the code that does otherwise; `PROJECT.json` quotes both.

1. The shared comment watermark loses a mention that is posted between the two
   comment requests of a sweep, if the second one sees a newer comment.
2. A sweep that is cut short has stored its ETags and dropped its payloads. What it
   had read is not asked for again until the listing changes.
3. Two daemons that start at once on a new file may lower the schema version one
   of them has reached; the next start applies a migration again and fails, and so
   does every later one.

### Other divergences, met while modelling

These are in the models as the code has them. No run is spent on them.

* A run that was discarded folds all the same: `run_one` folds on `end.reviewed`
  (`worker.py:491`), not on whether the settle was allowed, so the trigger it
  folded may be done without an answer. `FoldedIsAnswered` is checked
  where no lease lapses under a live worker.
* The recorded head is the API's and not the fetched one, though `repo.py:465-467`
  says that a review has to name the commit it read (`worker.py:664`).
  `EveryLineIsRead` names the one line this can lose: one that was taken back
  between the two readings. The fold compares the same recorded head: after a push
  between the two readings, a waiting trigger that names the older commit is folded
  by a review that read the newer one, where `queue.py:173-174` and `docs/QUEUE.md:171-172`
  keep a trigger that names "a commit the review did not read" out. `pipeline_folds`
  reaches this, so `FoldedIsAnswered` says only that the folding review read nothing
  older than what the trigger was asked about.
* A fold is "on the strength of a comment that has already been posted"
  (`queue.py:321-324`), and `worker.py:517-520` adds that it may be owed. It also comes
  after a comment that was withheld (a dry run, a credential in the body, a head that moved
  with `post_superseded` off) and after a post that was given up on.
* Recording a run again keeps the stamp of an earlier attempt (`runs.py:68-77` leaves
  `published_at` alone). After a death between the stamp and the row's end, the second
  review's failed post is therefore not counted, its item finds nothing to post
  and is closed, though the log says that it "will be posted without being run again"
  (`worker.py:904-905`). What stands is the first attempt's comment, or, where that was
  discarded, nothing.
* The lease is set against the engine's ceiling, and the git commands and the waits
  for the mirror's lock come on top (`queue.py:24-26`, `workspace/gitcmd.py:56`).
* An unknown cost is charged by the daemon's own section, the reservation by the
  published one (`worker.py:575-578`, `daemon.py:190`), or by the one before SIGHUP.
* The cost that an envelope measured is dropped when its output does not fit the
  schema, and when stderr names the usage limit (`engine/claude.py:262`).
* The numbers of a record that a retry overwrote may come back, where
  `runs.py:206-209` says that a retired number never does. They can only have been
  posted by an attempt that died after it had recorded its run.
* A second call of an adapter whose first pre-flight refused is not checked
  (`engine/claude.py:212-224`).
* An authority that is refused is told to "stop the other daemon"
  (`daemon.py:384-387`). The policy row outlives that daemon, and so does the refusal.
* The old watermarks go to whichever repository starts first, not to the one they
  belong to (`daemon.py:232-238`).
* A git command whose worker was cancelled goes on after the mirror's lock is
  released (`workspace/repo.py:432-434`); a killed one leaves its lock file, and
  every later ref write fails until the daemon is started again.
* A branch that is rebased to an older base shows upstream's newer lines as removed.

### Bounds, and why they are enough

Two workers are the smallest number at which one overtakes another; a third adds
no new pair. One pull request is where workers contend, and `queue` has a second
one to show that it is not held up. Leases of one or two ticks are live, about to
lapse and lapsed. Two or three attempts let a row be retried, and be exhausted.
Three upsets (`MaxUpsets`, pushes, deaths, usage limits and lost answers together)
let two workers die and a third event follow. `pipeline_folds` and `pipeline_lapses`
have one: the first needs a push or a death, the second a death, a usage limit or a lost answer, and in both the
two workers' interleavings, which the upset multiplies, are the subject.

In `Governor` the windows last 1, 2
and 3 ticks, so that a row is inside some windows and outside others; `MaxRows`
ledger rows let one window be filled by a row that is open, lost, or over its
ceiling while a third asks; two trips let one follow the other. `RecoveryPoints`
is ten and not one, so that recovery takes ticks rather than dozens of them: the
rule is the same.

In `rounds` the third round is the first whose history has a round that is not the
last one. Two lines let one be taken back while the other stays; two upstream
commits give a rebase both directions. `scope` chooses between many pushes and many findings, as a round's diff does
not depend on what an earlier engine said, nor a number on the branch; a
description in the second round, which is no round, is a scope of its own.

In `poll_loop` three seconds are the start's, an event's and a later one's that
moves the watermark past it, with two events in either of the last. Its comments
come from one endpoint and are on a pull request that was open from the start:
`poll_watermark` shows what two endpoints do, and a comment on a pull request that
opens during the sweep can be passed in the same way. One upset is enough to
separate a stored ETag from its payload; drafts, pushes, closings and edits share
one change (`MaxTouches`). The edit of the second comment is the third event, the one
that carries a watermark past two comments of one second.

In `startup` two daemons are the fewest that disagree; two edits swap their roles, or break a
file and mend it; one death cuts any of its steps. Two migrations to go are the
fewest of which one process can have applied one when the other reads the version.
The file is one of an older release, whose migrations to come each add a column;
`startup_fresh` has the one migration that may be applied twice, the first.

`process` has no bound but the number of workers: `troubles` is a set, a process that is down
starts again, and its deadlock check is on.

`pipeline_folds` fingerprints a state without the counters its property does not
read (`FoldView`), of the comments only whether one stands; no step reads them either. Symmetry of the workers is used in
the safety runs of the queue and the pipeline, and of the lines in `rounds`, where
nothing orders them, and in no run with a liveness property.

Excuses, each for what the code cannot know: `Answers`, of `DoneIsAnswered` and
`FoldedIsAnswered`, lets a publication item be
abandoned when as many workers died on it as it had attempts, takes a stamp for the
comment only where the settings withhold one, or discard it and there was a push, and
takes an earlier attempt's stamp after a death; `OneGitWritesRefs` is about the commands of live workers; `PostedOnce` allows
a second comment for each post whose bookkeeping was cut short, by a death or by a
lost answer; `WindowsHold` counts of each row at most what it reserved, since an
engine may report more, and allows the one token that the breaker leaves of a limit
however small; `PoolIsGoverned` allows a published policy that is old
while its reload was cut short; `NumbersMeanOneThing` leaves out the numbers of a
record that was replaced, `EveryLineIsRead` a line taken back between the facts and
the fetch; `StartsConverge` starts from files an operator has put right.

`CHECK_DEADLOCK FALSE` stands in the pipeline's runs and in `rounds`, where
everything may be done and no trigger left to come, and in `startup`, where
both daemons are up and the bounds on edits and deaths are used.

### Fairness

`EveryRowEnds` is checked, with leases that may lapse under live workers, under:
time passes (`WF Tick`); a worker in the middle of
a run goes on (`WF Step`), as each of its requests has a timeout and the event loop
runs every ready task; some idle worker asks again (`run_forever` polls every 30
seconds, `WF ClaimNothing`), and when a row is claimable again and again some
worker is admitted with one (`SF Claim`). The last is what `RefusalsEnd` justifies: in
`Governor`, with no fairness but that of the clock, every trigger is admissible
again and again. There the ledger's bound makes reservations come to an end, so the
property says what happens when the pool is left alone; the daemon itself may be
kept busy for ever by other pull requests.
Nothing is assumed of GitHub, the engine or the admission of any one trigger, and
deaths are bounded by `MaxUpsets`.

`poll_sweeps` assumes that the daemon goes on (`WF Daemon`): it is started again
after a death, by its service unit, and every request is answered or fails.

`StartsConverge` assumes that each daemon's start goes on (`WF Starts`): a start that fails
is tried again by the unit, whose `Restart=on-failure` and `RestartSec=5` are there
for that.

`StopEnds` assumes that each worker's task, the poll task and the main task go on
(`WF WorkerStep`, `PollStep`, `MainStep`): a git command, a request, an engine and the
grace period each end within a timeout. The signal, kills, claims and what a
cancelled command does are not assumed to happen.

## Proofs

| module | theorem | proves | of |
|---|---|---|---|
| `ReviewQueue_proofs` | `Typing` | `Spec => []TypeOK` | any rows, workers, pull requests, lease and bound on attempts |
| | `LeaseExclusion` | `Spec => []OneLiveLeasePerPull` | |
| | `AttemptCounted` | `Spec => []ClaimIsCounted` | |
| | `Untouchable` | `Spec => NoTheft` | |
| | `ClosedStays` | `Spec => ClosedForGood` | |
| | `Implements` | `Spec => LeasePromise` | |
| `ReviewPipeline_proofs` | `Typing` | `Spec => []TypeOK` | any triggers, workers, pull requests, leases that may lapse or not, and upsets |
| | `NothingHeld` | `Spec => []UnclaimedIsSettled` | |
| | `Agreement` | `Spec => []EntitlementsAgree` | |
| | `DrainsCounted` | `Spec => []DrainsAreCounted` | |
| | `DrivesQueue` | `Spec => DrivesTheQueue` | |
| `ReviewPipeline_answers` | `AnswersDone` | `Spec => []DoneIsAnswered` | the same, where no lease lapses under a live worker (`~LiveLapse`) |
| | `AnswersFolded` | `Spec => []FoldedIsAnswered` | |
| | `PostsOnce` | `Spec => []PostedOnce` | |
| `Governor_proofs` | `Typing` | `Spec => []TypeOK` | any triggers, workers, windows, sections and bounds |
| | `OneOpen` | `Spec => []OneOpenReservation` | |
| | `HeldBack` | `Spec => []NoRecoveryWhileTripped` | |
| | `SingleCharge` | `Spec => ChargedOnce` | |
| | `WindowsKept` | `Spec => []WindowsHold` | |
| | `Pacing` | `Spec => []KeepsItsPace` | |
| `Rounds_proofs` | `Typing` | `Spec => []TypeOK` | any lines, upstream commits, triggers, scopes and upsets |
| | `LeavesNoLine` | `Spec => []EveryLineIsRead` | |
| | `ShowsNoUpstream` | `Spec => []NothingUpstreamIsShown` | |
| | `NumbersStay` | `Spec => []NumbersMeanOneThing` | |
| | `NumbersDiffer` | `assign` gives the findings of one report different numbers, and a number up to the high-water mark only to the finding that claimed it | any claims of the engine |
| `PollLoop_proofs` | `Typing` | `Spec => []TypeOK` | any pull requests, comments, times, changes and upsets |
| | `ReplaysNothing` | `Spec => []NoBacklog` | |
| | `SkipsNoOpening` | `Spec => []OpeningsBelowWatermark` | |
| | `SkipsNoMention` | `Spec => []MentionsBelowWatermark` | the same, where `OneSource` and `AllOld` hold |
| `Startup_proofs` | `Governed` | `Spec => []PoolIsGoverned` | any daemons, sections, migrations, edits and deaths |
| | `LegacyTogether` | `Spec => []LegacyGoesToOne` | |
| | `Counted` | `Spec => []SchemaIsCounted` | the same, where `Orderly` holds |
| | `Typing` | `Spec => []TypeOK` | the same |
| `Supervision_proofs` | `Typing` | `Spec => []TypeOK` | any workers |
| | `LeavesNothing` | `Spec => []NothingLeaks` | |
| | `OneWriter` | `Spec => []OneGitWritesRefs` | |
| | `StopsInOrder` | `Spec => []OrderlyStop` | |

The assumptions are those the modules state about their constants, which TLC
evaluates in the runs: `ColumnsAssumption`, `NullAssumption` and
`BoundsAssumption` of the queue, which the pipeline states again of its own constants
(`QueueAssumption`); `PublicationAssumption` and `FaultsAssumption` of the
pipeline; `DurationsAssumption`, `ConfigsAssumption` (what
`BudgetConfig.parse` enforces, and that an interval is shorter than the longest
window), `TriggersAssumption` and `BoundsAssumption` of the governor;
`BoundsAssumption` of the rounds; `ColumnsAssumption`, `BoundsAssumption`,
`KeysAssumption` and `NothingAssumption` of the poll loop; `TablesAssumption` and
`NothingAssumption` of the start; `NobodyAssumption` of the workspace.

Some theorems have a hypothesis, because the code keeps the property only there:

* `~LiveLapse`: no lease runs out under a worker that is alive. Where one does, two
  workers are on one trigger; the item may lose an attempt without anybody dying, and
  both may announce what they did. `queue.py` sets the lease against the engine's
  ceiling, so this is the code's own intention; `pipeline_crashes` and `pipeline_folds`
  are instances. What holds all the same is in `ReviewPipeline_proofs`.
* `OneSource`: the comments come from one of the two endpoints. With two, the first
  finding loses a mention.
* `AllOld`: the pull requests with comments were opened before the first start. A
  comment on one that opens during a sweep is dropped by the filter of
  `daemon.py:281` and passed by the watermark.
* `Orderly`: each migration to come refuses to be applied twice, or there is one daemon.
  Without it `startup_fresh` shows the count going wrong.

Two of the library's means are not available to the prover, operators as parameters of
a theorem and so its induction principles. What the proofs need of sums, maxima and
counters is shown from the least counterexample instead, which needs neither: a set of
numbers that is not empty has a least element (`Least`), and the row before the first
wrong one is right. Three modules contain such an argument.

*Queue.* `OneLiveLeasePerPull` is not inductive: that a stale verb cannot disturb a live
row needs to know that a row names an owner exactly while it is claimed, that a
lease runs only then, and that a claimed row has a counted attempt (without it
`release_unattempted` followed by the sweep could not be told from a theft). `IInv`
adds these as the set `GoodRow` every row belongs to. There is one lemma per
statement of the queue, that it keeps the table good and exclusive: `FewerLive`
serves all the statements that only end leases, and the claim's lemma is the one
place where the NOT EXISTS clause is used. The step theorem has one case per
action, each citing its statement's lemma.

*The lease table.* The refinement needs `IInv`: `StateMeans` says that a good row is in
exactly one of the four states of the mapping. Each action of the queue is then one of four
kinds of step: the sweep and the fold dismiss offered rows (`DismissStep`), a claim
takes one row and may dismiss others (`TakeRow`, where exclusion gives
that nothing else of its pull request is held), a verb gives up a row that its owner holds live,
or changes nothing visible (`VerbStep`), and a tick lapses some leases or none
(`TickStep`).

*Pipeline.* `Shape` is the type invariant with what ties a worker's place to its claim (`Fits`):
only a review settles, leaves an item behind, folds or is announced, and a worker
that has a review to fold knows its head. `Entitlements` adds to the two
properties what makes them inductive: after the settle, a row that is still owned
has nothing reserved. A step does one of few things to a trigger's two tables
(`Change`): nothing, give up a row that is settled or given up for good, claim it
with its reservation, or settle it. So a worker that does not act keeps its entitlement
(`Bystander`), and only the one that acts needs a case per action (`OwnStep`).
`DrainsAreCounted` is not inductive, as an attempt is counted before its run and
handed back after it: `Coverage` charges each trigger for the runs there were and for the
workers whose attempt has no run yet or whose run was taken off (`Spares`), and a step moves one of
them at a time (`Balance`). `Typing` has the converse for the runs underway
(`Underway`). None of this rests on `LiveLapse`, on the bound on upsets or on what
`refused` admits. `DrivesQueue` needs of `Shape` only that a fold has a head and an item a
key; the theorems of `ReviewQueue_proofs` then hold of the queue in the pipeline.

*Answers.* With `~LiveLapse`, `Holding` is inductive: a worker that is on a row holds its
lease, so by the queue's exclusion no other is on any row of the pull request, and the
tables that a worker read are changed by nobody else before it writes. The other
invariants follow one another, each taking the earlier ones as given. `Telling` bounds what is
announced: a worker that is to announce is on a row that no claim takes again, and is
the only one. `Writings` says what a row that is done leaves behind (`Served`: the run is
stamped, or given up on, or its item is queued) and counts an item's attempts
against the upsets, one more while a worker is on it; so an item that is abandoned had
as many upsets as attempts. `Standing` says that a run is stamped only with a comment up
or where the settings withhold or discard one (`ToStamp`: a worker stamps after a post
that was made; `Heads`: only a push makes a recorded head differ from the live one), and needs
no `~LiveLapse`; `ServedIsAnswered` turns `Served` into an answer by it. `Readings` ties the head a review has read to what the
triggers that waited then were asked about (`Covers`), through the record to the fold.
`Ledgers` balances comments against posts that were cut short, by where the worker
stands that could still stamp one. In each the worker that acts has a case per action,
and the others are a lemma (`OthersWriting`, `OthersReading`).

*Governor.* The ledger only grows, by one row per admission. `OneOpenReservation` rests on its type and on
`LostLedger`: after `admit` has closed the lost reservations of a
trigger none of it is open, so the new row is the only one; a settle only closes (`FewerOpen`).
For `NoRecoveryWhileTripped` the invariant is `HoldAndTrip`: while the hold lasts, the
time since the trip and what is left of the hold are together at most one session,
so no whole period of recovery has passed. `KeepsItsPace` is inductive: as time passes
two reservations stay as far apart until the earlier one's age stops, and a new one follows the
test that `paced` has just made. `WindowsHold` is inductive too, once each row counts
for the smaller of its charge and its reservation: rows only get older, and a settle
or the closing of a lost one does not raise what they count for (`LessHolds`), while
an admission has just found its whole reservation within the limit in force (`AdmitHolds`),
which is at most the largest one configured (`LimitInForce`). The lemmas on sums
(`TotalGrows`, `TotalAppended`) say that a column that is nowhere greater has no
greater sum, and that one row more adds what it counts for.

*Rounds.* `Inv` is one invariant of five parts. `EveryLineIsRead` is not inductive without
`SinceIsSeen`: the commit an incremental round starts from was the head of a round
that was completed, and its lines have been seen. `NumbersMeanOneThing` needs `RecordsAgree`: the
findings on record agree on what a number means, and a round under way knows a number
as large as any of them. Times and numbers are bounded in each state (`Bounded`), though in no
particular way, which is what makes `Newest` and `HighWater` exist. `AssignIs` says what
`assign` returns, and `NumbersAre` what `Record` makes of it: an old number only on the
finding that carried it, every other above the high-water mark. The engine's part in
this is `Reports`, as above.

*Poll loop.* `Clock` says that GitHub's stamps are of the past and `Marks` that a watermark is
such a stamp or the seed. What a sweep holds is true (`PullsTrue`,
`CommentsTrue`) and complete below its newest item (`PullsAll`,
`MentionsAll`): whatever is stamped after a listing was read is not older than
what the listing holds. Both are needed for
the watermark not to pass anything. `OpenKnown` is what `AllOld` gives: the filter
drops no comment on a pull request that is open.

*Start.* `PoolIsGoverned` is inductive with `Shape`: the role a process read at its
start is pinned, and the policy only ever changes from nothing to a daemon's own or
between limits of one daemon. `SchemaIsCounted` needs to know where each process
stands in its migrations: while one has a number in hand, a schema version
that another process raised makes the migration refuse, by `Orderly`, before the version is written
(`SchemaInv`). For the watermarks the
invariant is `LegacyInv`: until somebody looks they are all there and no repository has
any, and from then on the first to look has them all. `PoolIsGoverned` and
`LegacyGoesToOne` do not need the schema, and hold where it goes wrong.

*Process.* What holds of the lock, of what is left behind and of the stop hangs
together, so there is one invariant: the lock is held exactly between the two ends
of its commands (`LockHeld`; a cancelled worker's command is no longer its own, so
`OneWriter` says nothing of what it writes beside another), a ref and a directory belong to a run at certain
places of its checkout (`RunsOwn`), what is out of order has a cause in this
process (`Explained`), a row is held until it is closed and a checkout is cancelled only when the
poll loop has failed (`RowsHeld`), and nothing goes on after the store is closed
(`Over`). Without `RowsHeld` a stop could not be told from a failure at the moment
a cancelled checkout gives up its row.

### Only model-checked

* The liveness properties, `EveryRowEnds`, `RefusalsEnd`, `StartsConverge` and `StopEnds`:
  reasoning under fairness, and ENABLED, are out of the prover's reach. So is what the
  three violated runs show.
* `DoneIsAnswered`, `FoldedIsAnswered` and `PostedOnce` where leases lapse under live workers
  are claimed by no run: they do not hold there.

Every safety property that a passing run checks is stated by a theorem.

## Not modelled

* Text: prompts, rendering, parsing of the engine's output, sanitising, logs. What the
  parsing decides is in `Engine`.
* Installation, the command line, the standalone skills, and configuration parsing, except what
  `BudgetConfig.parse` enforces on a section (`ConfigsAssumption`). It does not
  compare `max_run_tokens` with the session's limit, though a smaller session
  limit admits nothing for ever; the sections of `MCGovernor` are those where it
  is at least `max_run_tokens`.
* The pre-flight's rate, fitted to the ledger: its refusal is a free choice.
* The lengths of the poll interval, of the client's cooldowns and of the restart backoff: a sweep may
  start at any time.
* Which run a row of `runs` came from, when two wrote it.
* Reactions that acknowledge a trigger, and `purge_content`, which nothing calls yet.
* Credentials, the first clone of the mirror, and what a migration does beyond
  adding a table or a column.

## Plan

1. `PollLoop`, further: a comment on a pull request that opens during the sweep,
   the filter that stays off after a failed first sweep, full pages.
2. The latch of the engine's pre-flight as a state, shared by the workers of a
   process.
3. Which run wrote a row of `runs`: a discarded run's content under the entitled
   one's key.
4. Proofs: what of the answers holds where leases lapse under live workers, with what is
   announced and lost there as counts; mentions from two endpoints, with the finding's
   window as an excuse.
