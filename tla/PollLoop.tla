------------------------------ MODULE PollLoop ------------------------------
(***************************************************************************)
(* One repository's poll loop: daemon.py and poller/ over the tables of    *)
(* store.py, with triggers/classifier.py deciding.  A sweep asks GitHub    *)
(* for three listings one after the other, each with the ETag of the last  *)
(* one it saw, and then classifies, enqueues and advances two watermarks.  *)
(*                                                                         *)
(* A step is one request, or the part of a cycle that has no await in it.  *)
(* GitHub, another program, moves between any two requests.                *)
(*                                                                         *)
(* Authors, handles and bots are one bit, `asks': the item passes every    *)
(* test of the classifier but the ones on time, draft and the open set.    *)
(* A listing has one page, never full.                                     *)
(***************************************************************************)
EXTENDS Integers, FiniteSets

CONSTANTS
  Pull,            \* the pull requests
  Old,             \* those opened before the first start
  Drafts,          \* those opened as drafts
  Comment,         \* the comments
  Mentions,        \* those written with a mention; the others are edited
  PullOf,          \* Comment -> Pull
  SourceOf,        \* Comment -> CommentEndpoint
  MaxTime,         \* the seconds that are modelled
  MaxTouches,      \* changes to what is there already, together
  MaxUpsets,       \* failed requests, contention and deaths, together
  Nothing          \* no payload (304), no watermark, no open set yet

VARIABLES
  time,            \* the second it is
  pulls, comments, \* what GitHub holds
  etag,            \* table etags, as the endpoints whose ETag is GitHub's own
  watermark,       \* table watermarks
  queue,           \* the dedupe keys of table queue
  open,            \* Daemon.open_pull_requests
  results,         \* PollCycle.results of the sweep under way
  pc,              \* the request to come, the leg of _process, or "down"
  born,            \* bookkeeping: when the daemon was first started
  touches, upsets  \* bookkeeping: bound what changes, and what goes wrong

github == <<pulls, comments, touches>>
store  == <<etag, watermark, queue>>
daemon == <<open, results, pc, born>>
vars   == <<time, github, store, daemon, upsets>>

CommentEndpoint == {"issue_comments", "review_comments"}
Endpoint == {"open_pulls"} \cup CommentEndpoint
Stem     == {"pull_requests", "comments"}

\* GitHub's stamps are whole seconds; the host's clock is finer, and reads
\* some time inside the second.
Stamp == 2 * time
Now   == 2 * time + 1
Instant == 0 .. 2 * MaxTime + 1

ASSUME ColumnsAssumption ==
  /\ Old \subseteq Pull
  /\ Drafts \subseteq Pull \ Old
  /\ Mentions \subseteq Comment
  /\ PullOf \in [Comment -> Pull]
  /\ SourceOf \in [Comment -> CommentEndpoint]
ASSUME BoundsAssumption ==
  /\ MaxTime \in Nat \ {0}
  /\ MaxTouches \in Nat
  /\ MaxUpsets \in Nat
\* The keys of pull requests and of comments differ, as their prefixes do.
ASSUME KeysAssumption == Comment \cap (Pull \X (0 .. MaxTouches)) = {}
ASSUME NothingAssumption == Nothing \notin Instant

Absent == [state |-> "absent", created |-> 0, draft |-> FALSE, sha |-> 0]
Unsaid == [said |-> FALSE, at |-> 0, asks |-> FALSE]
Idle   == [e \in Endpoint |-> Nothing]

IsOpen(p) == pulls[p].state = "open"

Newest(since, stamps) ==
  CHOOSE s \in stamps \cup {since} : \A t \in stamps \cup {since} : t <= s

-----------------------------------------------------------------------------
(* What people do on GitHub.                                               *)

\* A change to an endpoint's listing changes its ETag.
Changes(e) == etag' = etag \ {e}
Touch ==
  /\ touches < MaxTouches
  /\ touches' = touches + 1
Elsewhere == UNCHANGED <<time, watermark, queue, daemon, upsets>>

Open(p) ==
  /\ pulls[p].state = "absent"
  /\ pulls' = [pulls EXCEPT ![p] =
       [state |-> "open", created |-> Stamp, draft |-> p \in Drafts, sha |-> 0]]
  /\ Changes("open_pulls")
  /\ Elsewhere /\ UNCHANGED <<comments, touches>>

\* A pull request is closed, pushed to, or marked as ready.
ChangePull(p, change) ==
  /\ Touch
  /\ IsOpen(p)
  /\ pulls' = [pulls EXCEPT ![p] = change]
  /\ Changes("open_pulls")
  /\ Elsewhere /\ UNCHANGED comments

Close(p) == ChangePull(p, [pulls[p] EXCEPT !.state = "closed"])
Push(p)  == ChangePull(p, [pulls[p] EXCEPT !.sha = @ + 1])
Ready(p) == pulls[p].draft /\ ChangePull(p, [pulls[p] EXCEPT !.draft = FALSE])

\* A comment is written, or edited into a mention.
Say(c) ==
  /\ pulls[PullOf[c]].state # "absent"
  /\ ~comments[c].said
  /\ comments' = [comments EXCEPT ![c] =
                    [said |-> TRUE, at |-> Stamp, asks |-> c \in Mentions]]
  /\ Changes(SourceOf[c])
  /\ Elsewhere /\ UNCHANGED <<pulls, touches>>

Edit(c) ==
  /\ Touch
  /\ comments[c].said
  /\ ~comments[c].asks
  /\ comments' = [comments EXCEPT ![c] = [said |-> TRUE, at |-> Stamp, asks |-> TRUE]]
  /\ Changes(SourceOf[c])
  /\ Elsewhere /\ UNCHANGED pulls

\* Seconds count from the one of the first start.
Tick ==
  /\ born # Nothing
  /\ time < MaxTime
  /\ time' = time + 1
  /\ UNCHANGED <<github, store, daemon, upsets>>

-----------------------------------------------------------------------------
(* The sweep.                                                              *)

\* The one page of a listing.
Listing(e) ==
  IF e = "open_pulls"
  THEN {[pull |-> p, created |-> pulls[p].created, draft |-> pulls[p].draft,
         sha |-> pulls[p].sha] : p \in {q \in Pull : IsOpen(q)}}
  ELSE {[comment |-> c, at |-> comments[c].at, asks |-> comments[c].asks] :
          c \in {d \in Comment : SourceOf[d] = e /\ comments[d].said}}

After == [open_pulls |-> "issue_comments",
          issue_comments |-> "review_comments",
          review_comments |-> "process"]

\* One conditional GET that is answered: a 304 when the ETag sent is
\* GitHub's, a 200 with a payload and a new ETag when it is not.
Get(e) ==
  /\ pc = e
  /\ results' = [results EXCEPT ![e] = IF e \in etag THEN Nothing ELSE Listing(e)]
  /\ etag' = etag \cup {e}
  /\ pc' = After[e]
  /\ UNCHANGED <<time, github, watermark, queue, open, born, upsets>>

Upset ==
  /\ upsets < MaxUpsets
  /\ upsets' = upsets + 1

\* A sweep ends: its results are dropped, the next one starts.
SweepEnds == pc' = "open_pulls" /\ results' = Idle

\* A GET raises GitHubClientError: the cycle is skipped, and what the sweep
\* had read is dropped.
GetFails(e) ==
  /\ pc = e
  /\ Upset
  /\ SweepEnds
  /\ UNCHANGED <<time, github, store, open, born>>

-----------------------------------------------------------------------------
(* The cycle: _process, which has no await in it.                          *)

\* Fault: the second the watermark stands on is not offered again.
FreshAfter(at, stem) == at > watermark[stem]

Fresh(at, stem) == at >= watermark[stem]

\* The pulls leg.  It does nothing on a 304.
PullsAnswered == results["open_pulls"] # Nothing
Pulls == IF PullsAnswered THEN results["open_pulls"] ELSE {}
AcceptedPulls == {i \in Pulls : Fresh(i.created, "pull_requests") /\ ~i.draft}
PullRows(items) == {<<i.pull, i.sha>> : i \in items}
\* Fault: the items are kept, not their numbers.
OpenItems == IF PullsAnswered THEN Pulls ELSE open

OpenNow == IF PullsAnswered THEN {i.pull : i \in Pulls} ELSE open

\* Fault: the watermark moves to the clock, not to the newest stamp seen.
AfterPullsAtNow ==
  IF Pulls = {} THEN watermark ELSE [watermark EXCEPT !["pull_requests"] = Now]

AfterPulls == [watermark EXCEPT !["pull_requests"] =
                 Newest(@, {i.created : i \in Pulls})]

\* The comments leg: both payloads against one watermark.
Polled == UNION {results[e] : e \in {b \in CommentEndpoint : results[b] # Nothing}}
\* Fault: before the first answer every comment is of a closed pull request.
AcceptedOfKnown ==
  {i \in Polled : /\ Fresh(i.at, "comments")
                  /\ OpenNow # Nothing /\ PullOf[i.comment] \in OpenNow
                  /\ i.asks}

AcceptedComments ==
  {i \in Polled : /\ Fresh(i.at, "comments")
                  /\ OpenNow # Nothing => PullOf[i.comment] \in OpenNow
                  /\ i.asks}
CommentRows(items) == {i.comment : i \in items}

Process ==
  /\ pc = "process"
  /\ SweepEnds
  /\ queue' = queue \cup PullRows(AcceptedPulls) \cup CommentRows(AcceptedComments)
  /\ open' = OpenNow
  /\ watermark' = [AfterPulls EXCEPT !["comments"] =
                     Newest(@, {i.at : i \in Polled})]
  /\ UNCHANGED <<time, github, etag, born, upsets>>

\* What a leg has enqueued when it is cut short: the payloads are newest
\* first, and the issue comments come before the review comments.
PullsReached(done) ==
  \A i \in done, j \in AcceptedPulls \ done : i.created >= j.created
CommentsReached(done) ==
  \A i \in done, j \in AcceptedComments \ done :
    IF SourceOf[i.comment] = SourceOf[j.comment]
    THEN i.at >= j.at ELSE SourceOf[i.comment] = "issue_comments"

\* What a death leaves in memory.
Left(dead, value) == IF dead THEN Nothing ELSE value

\* Contention, or a death, before a watermark is written.
Cut(dead) ==
  /\ pc = "process"
  /\ Upset
  /\ \E done \in SUBSET AcceptedPulls, said \in SUBSET AcceptedComments :
       /\ PullsReached(done)
       /\ CommentsReached(said)
       /\ queue' = queue \cup PullRows(done) \cup CommentRows(said)
       /\ \/ \* in the pulls leg
             /\ PullsAnswered
             /\ said = {}
             /\ open' = Left(dead, IF done = AcceptedPulls THEN OpenNow ELSE open)
             /\ UNCHANGED watermark
          \/ \* in the comments leg
             /\ done = AcceptedPulls
             /\ open' = Left(dead, OpenNow)
             /\ watermark' = AfterPulls
  /\ results' = Idle
  /\ pc' = IF dead THEN "down" ELSE "open_pulls"
  /\ UNCHANGED <<time, github, etag, born>>

-----------------------------------------------------------------------------
(* The process.                                                            *)

\* Fault: a fresh watermark stands at the beginning of time.
SeededAtZero == [s \in Stem |-> IF watermark[s] = Nothing THEN 0 ELSE watermark[s]]

Seeded == [s \in Stem |-> IF watermark[s] = Nothing THEN Now ELSE watermark[s]]

\* seed_watermarks: an unset watermark is seeded to now, and the ETag of the
\* listing that fills `open' is forgotten.
Start ==
  /\ pc = "down"
  /\ pc' = "open_pulls"
  /\ watermark' = Seeded
  /\ etag' = etag \ {"open_pulls"}
  /\ born' = IF born = Nothing THEN Now ELSE born
  /\ UNCHANGED <<time, github, queue, open, results, upsets>>

\* A death while a request is out, or between two cycles.
Die ==
  /\ pc \in Endpoint
  /\ Upset
  /\ pc' = "down"
  /\ results' = Idle
  /\ open' = Nothing
  /\ UNCHANGED <<time, github, store, born>>

Init ==
  /\ time = 1
  /\ pulls = [p \in Pull |->
                IF p \in Old THEN [Absent EXCEPT !.state = "open"] ELSE Absent]
  /\ comments = [c \in Comment |-> Unsaid]
  /\ etag = {}
  /\ watermark = [s \in Stem |-> Nothing]
  /\ queue = {}
  /\ open = Nothing
  /\ results = Idle
  /\ pc = "down"
  /\ born = Nothing
  /\ touches = 0
  /\ upsets = 0

Daemon == Start \/ (\E e \in Endpoint : Get(e)) \/ Process

GitHub ==
  \/ \E p \in Pull : Open(p) \/ Close(p) \/ Push(p) \/ Ready(p)
  \/ \E c \in Comment : Say(c) \/ Edit(c)

Trouble ==
  \/ \E e \in Endpoint : GetFails(e)
  \/ \E dead \in BOOLEAN : Cut(dead)
  \/ Die

Next == Daemon \/ GitHub \/ Trouble \/ Tick

Spec == Init /\ [][Next]_vars

\* The event loop runs the poller, its requests have timeouts, and a service
\* that dies is started again.
FairSpec == Spec /\ WF_vars(Daemon)

-----------------------------------------------------------------------------
(* Properties.                                                             *)

Row == (Pull \X (0 .. MaxTouches)) \cup Comment

\* What a listing holds of a pull request and of a comment.
PullItem == [pull : Pull, created : Instant, draft : BOOLEAN, sha : 0 .. MaxTouches]
CommentItem == [comment : Comment, at : Instant, asks : BOOLEAN]
Payload == SUBSET (PullItem \cup CommentItem)

\* The shape of the state.
TypeOK ==
  /\ time \in 1 .. MaxTime
  /\ pulls \in [Pull -> [state : {"absent", "open", "closed"}, created : Instant,
                         draft : BOOLEAN, sha : 0 .. MaxTouches]]
  /\ comments \in [Comment -> [said : BOOLEAN, at : Instant, asks : BOOLEAN]]
  /\ etag \subseteq Endpoint
  /\ watermark \in [Stem -> Instant \cup {Nothing}]
  /\ queue \subseteq Row
  /\ open = Nothing \/ open \subseteq Pull
  /\ results \in [Endpoint -> Payload \cup {Nothing}]
  /\ pc \in Endpoint \cup {"process", "down"}
  /\ born \in Instant \cup {Nothing}
  /\ touches \in 0 .. MaxTouches
  /\ upsets \in 0 .. MaxUpsets

Since(at) == born # Nothing /\ at >= born
Passed(at, stem) == watermark[stem] # Nothing /\ at < watermark[stem]

\* A pull request that was opened ready, after the first start, is in the
\* queue before the watermark passes it, whatever failed in between: the
\* watermark skips nothing.
OpeningsBelowWatermark ==
  \A p \in Pull :
    /\ IsOpen(p) /\ p \notin Drafts
    /\ Since(pulls[p].created) /\ Passed(pulls[p].created, "pull_requests")
    => \E s \in 0 .. MaxTouches : <<p, s>> \in queue

\* The same of the mentions on pull requests that are still open.
MentionsBelowWatermark ==
  \A c \in Comment :
    /\ comments[c].asks /\ IsOpen(PullOf[c])
    /\ Since(comments[c].at) /\ Passed(comments[c].at, "comments")
    => c \in queue

\* Nothing that pre-dates the first start is ever enqueued: neither a restart
\* nor a forgotten ETag replays the backlog.
NoBacklog ==
  /\ \A p \in Pull, s \in 0 .. MaxTouches :
       <<p, s>> \in queue => Since(pulls[p].created)
  /\ \A c \in Comment : c \in queue => Since(comments[c].at)

Waiting(c) == comments[c].asks /\ Since(comments[c].at) /\ c \notin queue

\* A mention is queued in the end, or its pull request is closed: what is cut
\* short costs another classification and not the trigger.
MentionsAreSwept ==
  \A c \in Comment : Waiting(c) ~> (c \in queue \/ ~IsOpen(PullOf[c]))

=============================================================================
