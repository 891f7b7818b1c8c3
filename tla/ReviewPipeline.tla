--------------------------- MODULE ReviewPipeline ---------------------------
(***************************************************************************)
(* Review workers over the queue, the ledger of reservations, the table of *)
(* recorded runs and GitHub: worker.py, with the parts of budget.py,       *)
(* runs.py and publisher.py that it drives.                                *)
(*                                                                         *)
(* A step of a worker is one transaction, or one request to GitHub or the  *)
(* engine with the code that follows its answer up to the next one.  Tasks *)
(* of one event loop interleave at awaits only, so these steps are finer   *)
(* than the loop's; a process that dies can stop between any two of them.  *)
(*                                                                         *)
(* Whether the governor admits a review is free here: it depends on sums   *)
(* and clocks this module leaves out.  What it writes is kept: `open' is   *)
(* the owner of the one ledger row of a trigger that is not settled.       *)
(***************************************************************************)
EXTENDS Naturals, FiniteSets

CONSTANTS
  Key, Owner, Pull, Sha, Command, NoKey, NoOwner, NoSha,
  PullOf, KindOf, CommandOf, ShaOf, Lease, MaxAttempts,   \* as in ReviewQueue
  Trigger,             \* the keys of reviews, as opposed to publication items
  PubOf,               \* the publication item of a trigger's run
  FirstHead,           \* the head every pull request starts from
  MaxPublishAttempts,  \* publish.max_publish_attempts
  PostSuperseded,      \* publish.post_superseded
  Withholds,           \* may a review be withheld for another reason: a dry run,
                       \* or a credential in its body?
  LiveLapse,           \* may a lease lapse under a worker that is alive?
  MaxUpsets            \* bound on the pushes, crashes, usage limits and lost
                       \* answers of a behaviour, taken together

ASSUME PublicationAssumption ==
  /\ Trigger \subseteq Key
  /\ PubOf \in [Trigger -> Key \ Trigger]
  /\ \A k \in Key : KindOf[k] = "publish" <=> k \notin Trigger
  /\ \A k \in Key \ Trigger : \E t \in Trigger : PubOf[t] = k
  /\ \A s, t \in Trigger : PubOf[s] = PubOf[t] => s = t
  /\ \A t \in Trigger : PullOf[PubOf[t]] = PullOf[t]
ASSUME FaultsAssumption ==
  /\ FirstHead \in Sha
  /\ MaxPublishAttempts \in Nat \ {0}
  /\ {PostSuperseded, Withholds, LiveLapse} \subseteq BOOLEAN
  /\ MaxUpsets \in Nat

VARIABLES
  rows, lastRow, claims,   \* the queue
  open,       \* by trigger: the owner of its unsettled ledger row
  runs,       \* by trigger: its row of the runs table
  work,       \* by worker: where it is in its run
  head,       \* by pull request: its head on GitHub
  comments,   \* by trigger: how often its review stands on the pull request
  notices,    \* by trigger: how often its refusal or failure does
  drains,     \* by trigger: its engine runs, but for those that met the limit
  asked,      \* by trigger: the head there was when it was accepted
  foldedBy,   \* by trigger: the review that folded it
  cut,        \* by trigger: posts whose bookkeeping was cut short
  upsets      \* pushes, crashes, usage limits and lost answers so far

queueVars == <<rows, lastRow, claims>>
world == <<comments, notices, drains, asked, foldedBy, cut>>
vars == <<rows, lastRow, claims, open, runs, work, head, world, upsets>>

Q == INSTANCE ReviewQueue
ASSUME QueueAssumption ==
  Q!ColumnsAssumption /\ Q!NullAssumption /\ Q!BoundsAssumption

E == INSTANCE Engine

C == INSTANCE Client

Verb == {"complete", "release", "unattempted", "abandon"}

\* The row names `head' as the commit reviewed, and its content is a review of
\* `read', the commit the engine was shown.  `stamped' is published_at, which a
\* post sets and so does a decision not to post; publish_failed_at is set when
\* `failures' reaches its limit.
Run == [head : Sha \cup {NoSha}, read : Sha \cup {NoSha}, stamped : BOOLEAN,
        failures : 0..MaxPublishAttempts]

NoRun == [head |-> NoSha, read |-> NoSha, stamped |-> FALSE, failures |-> 0]

BeforeSettle == {"start", "facts", "checkout", "engine", "settle", "refuse"}

Phase ==
  BeforeSettle \cup
  {"idle", "abandon", "item", "holds", "publish", "post", "stamp", "failed",
   "enqueue", "verb", "announce", "fold", "done"}

\* What a worker keeps in hand: the head it reviews or posts, the commit its
\* checkout fetched, whether this is the row's last attempt, the verb that will
\* close the row, whether the run recorded a review, and whether the pull
\* request is to be told.
Work == [pc : Phase, head : Sha \cup {NoSha}, read : Sha \cup {NoSha}, last : BOOLEAN,
         finish : Verb, reviewed : BOOLEAN, notice : BOOLEAN]

Idle == [pc |-> "idle", head |-> NoSha, read |-> NoSha, last |-> FALSE,
         finish |-> "release", reviewed |-> FALSE, notice |-> FALSE]

-----------------------------------------------------------------------------
At(o, pc) == work[o].pc = pc

Key_(o) == claims[o].key

\* The trigger whose run the worker is busy with.
Subject(o) ==
  IF Key_(o) \in Trigger THEN Key_(o)
  ELSE CHOOSE t \in Trigger : PubOf[t] = Key_(o)

IsItem(o) == Key_(o) \notin Trigger

Go(o, pc) == work' = [work EXCEPT ![o].pc = pc]

\* What is left to do once the row is closed, or was found to be another's.
Leave(o) ==
  LET w == work[o] IN
  work' = [work EXCEPT ![o] =
    CASE w.notice -> [Idle EXCEPT !.pc = "announce"]
      [] ~w.notice /\ w.reviewed -> [Idle EXCEPT !.pc = "fold", !.head = w.head]
      [] OTHER -> [Idle EXCEPT !.pc = "done"]]

\* Fault: the row is closed without a settle.
EndUnsettled(o, finish, notice) ==
  work' = [work EXCEPT ![o] = [Idle EXCEPT !.pc = "verb", !.finish = finish,
                                           !.notice = notice]]

\* The run is over, with nothing recorded; the settle comes next.
End(o, finish, notice) ==
  work' = [work EXCEPT ![o] = [Idle EXCEPT !.pc = "settle", !.finish = finish,
                                           !.notice = notice]]

\* A failure that classify_failure and failure_notice have an answer for; the
\* last attempt to meet one of the engine's is announced.
Fails(o, kind) == End(o, E!Finish(kind), work[o].last /\ E!Announced(kind))

\* The run needs posting no longer: the row is to be closed by this verb.
Close(o, finish) ==
  work' = [work EXCEPT ![o] = [@ EXCEPT !.pc = "verb", !.finish = finish]]

\* _SETTLE: guarded on the owner.
Settles(o) == open[Key_(o)] = o

Settled(o) == IF Settles(o) THEN [open EXCEPT ![Key_(o)] = NoOwner] ELSE open

Stamped(t) == [runs EXCEPT ![t].stamped = TRUE]

\* Fault: off by one.
GaveUpLate(t) == runs[t].failures > MaxPublishAttempts

GaveUp(t) == runs[t].failures = MaxPublishAttempts

\* Fault: the failure is not counted.
PublishFailedUncounted(t) == runs

\* _PUBLISH_FAILED counts no failure of a run that is stamped; past the limit
\* there is nothing more to count.
PublishFailed(t) ==
  IF runs[t].stamped \/ GaveUp(t) THEN runs
  ELSE [runs EXCEPT ![t].failures = @ + 1]

\* _UNPUBLISHED: what a publication item finds to post.
Unpublished(t) == runs[t].head # NoSha /\ ~runs[t].stamped /\ ~GaveUp(t)

-----------------------------------------------------------------------------
Init ==
  /\ Q!Init
  /\ open = [t \in Trigger |-> NoOwner]
  /\ runs = [t \in Trigger |-> NoRun]
  /\ work = [o \in Owner |-> Idle]
  /\ head = [p \in Pull |-> FirstHead]
  /\ comments = [t \in Trigger |-> 0]
  /\ notices = [t \in Trigger |-> 0]
  /\ drains = [t \in Trigger |-> 0]
  /\ asked = [t \in Trigger |-> NoSha]
  /\ foldedBy = [t \in Trigger |-> NoKey]
  /\ cut = [t \in Trigger |-> 0]
  /\ upsets = 0

\* The poll cycle enqueues what it accepts.
Enqueue(t) ==
  /\ Q!Enqueue(t)
  /\ asked' = [asked EXCEPT ![t] = head[PullOf[t]]]
  /\ UNCHANGED <<open, runs, work, head, comments, notices, drains, foldedBy, cut,
                 upsets>>

\* A commit is pushed to the pull request, once.
Push(p, sha) ==
  /\ upsets < MaxUpsets /\ head[p] = FirstHead /\ sha # FirstHead
  /\ upsets' = upsets + 1
  /\ head' = [head EXCEPT ![p] = sha]
  /\ UNCHANGED <<queueVars, open, runs, work, world>>

\* The clock.  Unless a lease may lapse under a live worker, it waits for the
\* workers whose lease is about to.
Tick ==
  /\ \/ LiveLapse
     \/ \A o \in Owner :
          claims[o] # Q!NoClaim /\ Q!Holds(Key_(o), o) => rows[Key_(o)].lease > 1
  /\ Q!Tick
  /\ UNCHANGED <<open, runs, work, head, world, upsets>>

-----------------------------------------------------------------------------
(* A worker.                                                               *)

\* Fault: a reservation left open stands for the new one.
ClaimOnOldReservation(o, k, refused) ==
  /\ At(o, "idle")
  /\ refused \subseteq Trigger
  /\ Q!ClaimRow(o, k, refused)
  /\ work' = [work EXCEPT ![o] =
                 [@ EXCEPT !.pc = IF k \in Trigger THEN "start" ELSE "item",
                           !.last = k \in Trigger /\ rows'[k].attempts = MaxAttempts]]
  /\ open' = IF k \in Trigger /\ open[k] = NoOwner THEN [open EXCEPT ![k] = o] ELSE open
  /\ UNCHANGED <<runs, head, world, upsets>>

\* queue.claim with worker.admit: a publication item is never refused and
\* reserves nothing; an admitted review closes the reservation an earlier
\* claim left open as lost and reserves anew, in the same transaction.
Claim(o, k, refused) ==
  /\ At(o, "idle")
  /\ refused \subseteq Trigger
  /\ Q!ClaimRow(o, k, refused)
  /\ work' = [work EXCEPT ![o] =
                 [@ EXCEPT !.pc = IF k \in Trigger THEN "start" ELSE "item",
                           !.last = k \in Trigger /\ rows'[k].attempts = MaxAttempts]]
  /\ open' = IF k \in Trigger THEN [open EXCEPT ![k] = o] ELSE open
  /\ UNCHANGED <<runs, head, world, upsets>>

ClaimNothing(o) ==
  /\ At(o, "idle")
  /\ Q!Claimable \subseteq Trigger
  /\ Q!ClaimNothing(o, Q!Claimable)
  /\ UNCHANGED <<open, runs, work, head, world, upsets>>

\* admitted_mode: the reservation is gone if another claim replaced it.
Start(o) ==
  /\ At(o, "start")
  /\ Go(o, IF Settles(o) THEN "facts" ELSE "done")
  /\ UNCHANGED <<queueVars, open, runs, head, world, upsets>>

\* The pull request's facts: open, merged or closed, unreadable, unusable.
Facts(o) ==
  /\ At(o, "facts")
  /\ \/ work' = [work EXCEPT ![o] = [@ EXCEPT !.pc = "checkout",
                                              !.head = head[PullOf[Key_(o)]]]]
     \/ work' = [work EXCEPT ![o] = [Idle EXCEPT !.pc = "refuse"]]
     \/ \E kind \in {"github", "payload"} : Fails(o, kind)
  /\ UNCHANGED <<queueVars, open, runs, head, world, upsets>>

\* The checkout and the pre-flight: too large, a failed git command, refused
\* by the estimate, or on to the engine with the commit that was fetched.
Checkout(o) ==
  /\ At(o, "checkout")
  /\ \/ /\ work' = [work EXCEPT ![o] = [@ EXCEPT !.pc = "engine",
                                                 !.read = head[PullOf[Key_(o)]]]]
        /\ drains' = [drains EXCEPT ![Key_(o)] = @ + 1]
     \/ /\ work' = [work EXCEPT ![o] = [Idle EXCEPT !.pc = "refuse", !.notice = TRUE]]
        /\ UNCHANGED drains
     \/ End(o, E!Finish("too_large"), TRUE) /\ UNCHANGED drains
     \/ Fails(o, "workspace") /\ UNCHANGED drains
  /\ UNCHANGED <<queueVars, open, runs, head, comments, notices, asked, foldedBy,
                 cut, upsets>>

\* A free refusal settles at nothing, whether or not it was still entitled
\* to, and the row is abandoned in a transaction of its own.
Refuse(o) ==
  /\ At(o, "refuse")
  /\ open' = Settled(o)
  /\ Go(o, "abandon")
  /\ UNCHANGED <<queueVars, runs, head, world, upsets>>

\* Fault: the refused row is handed back.
ReleaseRefused(o) ==
  /\ At(o, "abandon")
  /\ Q!Release(o)
  /\ Leave(o)
  /\ UNCHANGED <<open, runs, head, world, upsets>>

AbandonRefused(o) ==
  /\ At(o, "abandon")
  /\ Q!Abandon(o)
  /\ Leave(o)
  /\ UNCHANGED <<open, runs, head, world, upsets>>

\* The engine completed: the review is recorded before anything else.
Reviewed(o) ==
  /\ At(o, "engine")
  /\ runs' = [runs EXCEPT ![Key_(o)] = [@ EXCEPT !.head = work[o].head,
                                                 !.read = work[o].read]]
  /\ work' = [work EXCEPT ![o] = [Idle EXCEPT !.pc = "settle", !.head = work[o].head,
                                  !.finish = E!Finish("completed"),
                                  !.reviewed = TRUE]]
  /\ UNCHANGED <<queueVars, open, head, world, upsets>>

\* Fault: an engine failure is not counted as an attempt.
EngineFailedUncounted(o) ==
  /\ At(o, "engine")
  /\ End(o, "unattempted", work[o].last)
  /\ UNCHANGED <<queueVars, open, runs, head, world, upsets>>

\* It was cut off, failed, could not be started or died.
EngineFailed(o) ==
  /\ At(o, "engine")
  /\ \E kind \in E!Failures : Fails(o, kind)
  /\ UNCHANGED <<queueVars, open, runs, head, world, upsets>>

\* The account's limit was reached; the breaker it trips shows as refusals.
UsageLimited(o) ==
  /\ At(o, "engine")
  /\ upsets < MaxUpsets
  /\ upsets' = upsets + 1
  /\ drains' = [drains EXCEPT ![Key_(o)] = @ - 1]
  /\ Fails(o, "usage_limited")
  /\ UNCHANGED <<queueVars, open, runs, head, comments, notices, asked, foldedBy, cut>>

\* A worker that has nothing to settle discards its run: no post, no verb.
Settle(o) ==
  /\ At(o, "settle")
  /\ open' = Settled(o)
  /\ IF Settles(o) THEN Go(o, IF work[o].reviewed THEN "publish" ELSE "verb")
     ELSE Leave(o)
  /\ UNCHANGED <<queueVars, runs, head, world, upsets>>

-----------------------------------------------------------------------------
(* Posting, for a review that was just recorded and for a publication item *)

\* A publication item looks its run up; a run that needs no post completes it.
Item(o) ==
  /\ At(o, "item")
  /\ IF Unpublished(Subject(o))
     THEN work' = [work EXCEPT ![o] = [@ EXCEPT !.pc = "holds",
                                                !.head = runs[Subject(o)].head]]
     ELSE Close(o, "complete")
  /\ UNCHANGED <<queueVars, open, runs, head, world, upsets>>

\* The lease is checked again before the post, for items only.
StillHolds(o) ==
  /\ At(o, "holds")
  /\ Go(o, IF Q!Holds(Key_(o), o) THEN "publish" ELSE "done")
  /\ UNCHANGED <<queueVars, open, runs, head, world, upsets>>

\* Fault: a review of a head that has moved is discarded whatever the setting.
Discards(o) == head[PullOf[Key_(o)]] # work[o].head

\* Fault: with the setting off every review is discarded, moved head or not.
DiscardsUnmoved(o) == ~PostSuperseded

Discarded(o) == head[PullOf[Key_(o)]] # work[o].head /\ ~PostSuperseded

\* publish reads the live head and either fails to, stamps the run without a
\* post, or goes on.
ReadHead(o) ==
  /\ At(o, "publish")
  /\ \/ Go(o, "failed") /\ UNCHANGED runs
     \/ /\ Discarded(o) \/ Withholds
        /\ runs' = Stamped(Subject(o))
        /\ Close(o, "complete")
     \/ ~Discarded(o) /\ Go(o, "post") /\ UNCHANGED runs
  /\ UNCHANGED <<queueVars, open, head, world, upsets>>

\* The comment is posted, refused, or posted without the worker knowing.
Post(o) ==
  LET t == Subject(o)
  IN /\ At(o, "post")
     /\ \E w \in C!Writes :
          LET unknown == w.times > 0 /\ ~w.heard IN
          /\ Go(o, IF w.heard THEN "stamp" ELSE "failed")
          /\ comments' = [comments EXCEPT ![t] = @ + w.times]
          /\ unknown => upsets < MaxUpsets
          /\ upsets' = IF unknown THEN upsets + 1 ELSE upsets
          /\ cut' = IF unknown THEN [cut EXCEPT ![t] = @ + 1] ELSE cut
     /\ UNCHANGED <<queueVars, open, runs, head, notices, drains, asked, foldedBy>>

\* Fault: the row of a review that was posted is handed back.
StampAndRelease(o) ==
  /\ At(o, "stamp")
  /\ runs' = Stamped(Subject(o))
  /\ Close(o, "release")
  /\ UNCHANGED <<queueVars, open, head, world, upsets>>

Stamp(o) ==
  /\ At(o, "stamp")
  /\ runs' = Stamped(Subject(o))
  /\ Close(o, "complete")
  /\ UNCHANGED <<queueVars, open, head, world, upsets>>

\* _gave_up counts the failure.  At the limit the row is closed; otherwise an
\* item is handed back unattempted and a review leaves an item behind.
Failed(o) ==
  LET t == Subject(o)
  IN /\ At(o, "failed")
     /\ runs' = PublishFailed(t)
     /\ LET gaveUp == runs'[t].failures = MaxPublishAttempts IN
        work' = [work EXCEPT ![o] = [@ EXCEPT
          !.pc = IF gaveUp \/ IsItem(o) THEN "verb" ELSE "enqueue",
          !.finish = IF gaveUp \/ ~IsItem(o) THEN "complete" ELSE "unattempted"]]
     /\ UNCHANGED <<queueVars, open, head, world, upsets>>

\* Fault: no item is left behind.
EnqueueNoPublication(o) ==
  /\ At(o, "enqueue")
  /\ Go(o, "verb")
  /\ UNCHANGED <<queueVars, open, runs, head, world, upsets>>

\* Fault: INSERT OR REPLACE.
ReplacePublication(o) ==
  /\ At(o, "enqueue")
  /\ rows' = Q!Inserted(PubOf[Key_(o)])
  /\ lastRow' = lastRow + 1
  /\ Go(o, "verb")
  /\ UNCHANGED <<claims, open, runs, head, world, upsets>>

\* INSERT OR IGNORE: an item that exists already, whatever became of it, is
\* left as it is.
EnqueuePublication(o) ==
  /\ At(o, "enqueue")
  /\ IF Q!Known(PubOf[Key_(o)]) THEN UNCHANGED queueVars
     ELSE Q!Enqueue(PubOf[Key_(o)])
  /\ Go(o, "verb")
  /\ UNCHANGED <<open, runs, head, world, upsets>>

-----------------------------------------------------------------------------
(* The row is closed, and what comes after.                                *)

CloseRow(o) ==
  /\ At(o, "verb")
  /\ CASE work[o].finish = "complete" -> Q!Complete(o)
       [] work[o].finish = "release" -> Q!Release(o)
       [] work[o].finish = "abandon" -> Q!Abandon(o)
       [] work[o].finish = "unattempted" -> Q!ReleaseUnattempted(o)
  /\ Leave(o)
  /\ UNCHANGED <<open, runs, head, world, upsets>>

\* notify, report_failure: what comes of the request changes nothing else, and
\* in a dry run none is made.
Notified(t) ==
  {notices} \cup {[notices EXCEPT ![t] = @ + w.times] : w \in C!Writes}

Announce(o) ==
  /\ At(o, "announce")
  /\ notices' \in Notified(Key_(o))
  /\ Go(o, "done")
  /\ UNCHANGED <<queueVars, open, runs, head, comments, drains, asked,
                 foldedBy, cut, upsets>>

Fold(o) ==
  /\ At(o, "fold")
  /\ Q!Fold(o, work[o].head)
  /\ foldedBy' = [t \in Trigger |->
       IF rows'[t] # rows[t] THEN Key_(o) ELSE foldedBy[t]]
  /\ Go(o, "done")
  /\ UNCHANGED <<open, runs, head, comments, notices, drains, asked, cut,
                 upsets>>

Rest(o) ==
  /\ At(o, "done")
  /\ Q!Forget(o)
  /\ work' = [work EXCEPT ![o] = Idle]
  /\ UNCHANGED <<open, runs, head, world, upsets>>

\* The worker dies with its claim and is restarted under the same identity.
\* Its post is cut short if the comment is up and its row is not closed.
Crash(o) ==
  /\ ~At(o, "idle")
  /\ upsets < MaxUpsets
  /\ upsets' = upsets + 1
  /\ Q!Forget(o)
  /\ work' = [work EXCEPT ![o] = Idle]
  /\ cut' = IF At(o, "stamp") \/ (At(o, "verb") /\ work[o].reviewed)
            THEN [cut EXCEPT ![Subject(o)] = @ + 1] ELSE cut
  /\ UNCHANGED <<open, runs, head, comments, notices, drains, asked, foldedBy>>

-----------------------------------------------------------------------------
Step(o) ==
  \/ Start(o) \/ Facts(o) \/ Checkout(o) \/ Refuse(o) \/ AbandonRefused(o)
  \/ Reviewed(o) \/ EngineFailed(o) \/ UsageLimited(o) \/ Settle(o)
  \/ Item(o) \/ StillHolds(o) \/ ReadHead(o) \/ Post(o) \/ Stamp(o)
  \/ Failed(o) \/ EnqueuePublication(o)
  \/ CloseRow(o) \/ Announce(o) \/ Fold(o) \/ Rest(o)

Next ==
  \/ \E t \in Trigger : Enqueue(t)
  \/ \E p \in Pull, sha \in Sha : Push(p, sha)
  \/ Tick
  \/ \E o \in Owner, k \in Q!Claimable,
        refused \in SUBSET (Q!Claimable \cap Trigger) : Claim(o, k, refused)
  \/ \E o \in Owner : ClaimNothing(o)
  \/ \E o \in Owner : Step(o)
  \/ \E o \in Owner : Crash(o)

Spec == Init /\ [][Next]_vars

\* Workers go on, time passes, some worker keeps asking, and the windows roll:
\* a review that waits is not refused for ever.
Fairness ==
  /\ WF_vars(Tick)
  /\ \A o \in Owner : WF_vars(Step(o))
  /\ SF_vars(\E o \in Owner : \E k \in Q!Claimable : Claim(o, k, {}))
  /\ WF_vars(\E o \in Owner : ClaimNothing(o))

FairSpec == Spec /\ Fairness

-----------------------------------------------------------------------------
(* Properties.                                                             *)

\* The shape of the state.
TypeOK ==
  /\ Q!TypeOK
  /\ open \in [Trigger -> Owner \cup {NoOwner}]
  /\ runs \in [Trigger -> Run]
  /\ work \in [Owner -> Work]
  /\ head \in [Pull -> Sha]
  /\ asked \in [Trigger -> Sha \cup {NoSha}]
  /\ foldedBy \in [Trigger -> Trigger \cup {NoKey}]
  /\ \A c \in {comments, notices, drains, cut} : c \in [Trigger -> Nat]
  /\ upsets \in 0..MaxUpsets

\* A row that waits or is done holds no allowance: whatever path a run took
\* to hand its row back, and whoever died on it before, its reservation was
\* settled first.
UnclaimedIsSettled ==
  \A t \in Trigger :
    rows[t].status \in {"absent", "pending", "done"} => open[t] = NoOwner

\* The two entitlement checks agree while a run goes on: who owns the row may
\* settle, and who may settle owns the row, or lost it only to the sweep.
EntitlementsAgree ==
  \A o \in Owner :
    work[o].pc \in BeforeSettle =>
      LET k == Key_(o) IN
      /\ Q!Owns(k, o) => open[k] = o
      /\ open[k] = o => Q!Owns(k, o) \/ rows[k].status = "abandoned"

\* Every run of the engine is counted as an attempt, unless it stopped at the
\* account's limit: so one trigger runs it at most MaxAttempts times otherwise,
\* however its workers die, lapse or hand it back.
DrainsAreCounted == \A t \in Trigger : drains[t] <= rows[t].attempts

\* The pull request is told once: a review stands on it once, unless a post was
\* cut short before its bookkeeping was done; and a refusal or a failure is
\* announced once, as the row it ends is not claimed again.
PostedOnce ==
  \A t \in Trigger : comments[t] <= 1 + cut[t] /\ notices[t] <= 1

\* What a trigger has got once its row is done: a comment that stands; a run
\* stamped without one, where the settings withhold it, or discard it and the
\* head has moved; a post that was given up on; or an item that owes one and is
\* still open, unless as many workers died on it as it had attempts.  After a
\* death between a stamp and the row's end the stamp may be the earlier attempt's.
Owed(t) ==
  \/ rows[PubOf[t]].status \in {"pending", "claimed"}
  \/ rows[PubOf[t]].status = "abandoned" /\ upsets >= MaxAttempts

Shown(t) ==
  /\ runs[t].stamped
  /\ comments[t] > 0 \/ Withholds \/ (~PostSuperseded /\ head[PullOf[t]] # FirstHead)

Answers(t) == Shown(t) \/ GaveUp(t) \/ Owed(t)

\* A completed row leaves nothing recorded behind unseen.
DoneIsAnswered ==
  \A t \in Trigger :
    rows[t].status = "done" /\ foldedBy[t] = NoKey => Answers(t)

\* A folded trigger has its answer in the review that folded it, and that
\* review read nothing older than what the trigger was asked about.  It may
\* have read a newer commit than the one the trigger names: _FOLD compares that
\* with the head on record, which is not always the commit read.
FoldedIsAnswered ==
  \A t \in Trigger :
    foldedBy[t] # NoKey =>
      /\ Answers(foldedBy[t])
      /\ runs[foldedBy[t]].read = FirstHead => asked[t] = FirstHead

\* The workers drive the queue through its methods, as ReviewQueue has them.
DrivesTheQueue == Q!Spec

\* Every accepted trigger, and every publication item, comes to an end.
EveryRowEnds ==
  \A k \in Key :
    rows[k].status # "absent" ~> rows[k].status \in {"done", "abandoned"}
=============================================================================
