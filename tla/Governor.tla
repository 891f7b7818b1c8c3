------------------------------ MODULE Governor ------------------------------
(***************************************************************************)
(* The budget governor: budget.py's ledger of reservations and its rolling *)
(* windows, breaker.py's circuit breaker, pacing.py's pacer, and the       *)
(* worker's use of them.  Which claims the queue offers is left free: any  *)
(* idle worker may be offered any trigger at any time, also one a worker   *)
(* whose lease lapsed is still busy with.                                  *)
(*                                                                         *)
(* Times are ages: reserved_at > now - duration is age < duration.  An age *)
(* stops at the longest window, where nothing can tell it apart any more.  *)
(* Utilisations are compared by cross-multiplication.                      *)
(***************************************************************************)
EXTENDS Integers, Sequences, FiniteSets, FiniteSetsExt

CONSTANTS
  Key, Owner, Actor, Pull, NoKey, NoOwner,
  ActorOf, PullOf, Mentions,   \* of a trigger: its actor, its pull request,
                               \* and whether it is a mention
  Session, Daily, Weekly,      \* the windows' durations, in ticks
  Configs,                     \* the budget sections the files may hold
  Comply,                      \* does this daemon adopt a published policy?
  RecoveryPoints,              \* what one period gives back of a trip
  Overruns,                    \* how far a measured run may exceed its ceiling
  MaxRows, MaxTrips            \* bounds on the ledger's rows and on trips

\* A budget section: the pool arithmetic, and what stays local.
Pool == {"session", "daily", "weekly", "contributor", "maxRun"}
Config == [session : Nat, daily : Nat, weekly : Nat, contributor : Nat, maxRun : Nat,
           enabled : BOOLEAN, interval : Nat, mentionInterval : Nat, cap : Nat]

ASSUME DurationsAssumption ==
  /\ Session \in Nat \ {0} /\ Daily \in Nat /\ Weekly \in Nat
  /\ Session < Daily /\ Daily < Weekly
\* What BudgetConfig.parse accepts, a cap that is not set read as one that
\* nothing reaches; the daily limit is a part of the weekly one.  That an
\* interval is shorter than the longest window is the model's, whose ages stop
\* there.
ASSUME ConfigsAssumption ==
  /\ Configs \subseteq Config /\ IsFiniteSet(Configs)
  /\ \A c \in Configs :
       /\ c.mentionInterval <= c.interval /\ c.interval < Weekly
       /\ 0 < c.maxRun /\ c.maxRun <= c.daily /\ c.maxRun <= c.contributor
       /\ c.daily <= c.weekly /\ 0 < c.cap
ASSUME TriggersAssumption ==
  /\ ActorOf \in [Key -> Actor] /\ PullOf \in [Key -> Pull] /\ Mentions \subseteq Key
  /\ NoKey \notin Key /\ NoOwner \notin Owner

ASSUME BoundsAssumption ==
  /\ RecoveryPoints \in Nat /\ Overruns \in Nat
  /\ MaxRows \in Nat /\ MaxTrips \in Nat

Full == 100

VARIABLES
  ledger,      \* the rows of the ledger, in order of insertion
  calibrated,  \* calibrated_pct
  hold,        \* what is left of tripped_until
  sinceTrip,   \* the age of last_trip_at
  config,      \* the daemon's own budget section
  policy,      \* the section the authority published
  run,         \* by worker: what it runs and how far it got
  trips        \* trips so far

E == INSTANCE Engine

vars == <<ledger, calibrated, hold, sinceTrip, config, policy, run, trips>>

\* `used' counts once `settled'.  Nothing asks a settled row who its owner was,
\* and it is left out.
Row == [key : Key, owner : Owner \cup {NoOwner}, reserved : Nat, used : Nat,
        settled : BOOLEAN, age : 0..Weekly]

Run == [pc : {"idle", "claimed", "engine", "limited"}, key : Key \cup {NoKey},
        ceiling : Nat]
Idle == [pc |-> "idle", key |-> NoKey, ceiling |-> 0]

Rows == DOMAIN ledger

-----------------------------------------------------------------------------
(* The breaker.                                                            *)

\* Recovery is computed on every read: so many points for each period since
\* the trip, and a period is as long as the hold.
Calibration ==
  LET recovered == calibrated + RecoveryPoints * (sinceTrip \div Session)
  IN IF recovered < Full THEN recovered ELSE Full

Decay(c) == IF (c * 9) \div 10 > 1 THEN (c * 9) \div 10 ELSE 1

Calibrated(limit) ==
  LET scaled == (limit * Calibration) \div Full
  IN IF scaled > 1 THEN scaled ELSE 1

-----------------------------------------------------------------------------
(* The windows.                                                            *)

\* _effective: the local section under the authority's pool arithmetic.
\* A complier does not start before a policy is stored and nothing deletes it,
\* so the fallback to the local section is never taken.
Effective ==
  IF Comply THEN [f \in DOMAIN config |-> IF f \in Pool THEN policy[f] ELSE config[f]]
  ELSE config

Window == {"session", "daily", "weekly", "contributor"}

Duration(w) ==
  CASE w = "session" -> Session [] w = "daily" -> Daily [] OTHER -> Weekly

Charge(row) == IF row.settled THEN row.used ELSE row.reserved

\* Fault: an open reservation counts however old it is.
WithinOrOpen(w, actor) ==
  {i \in Rows : /\ ledger[i].age < Duration(w) \/ ~ledger[i].settled
                /\ w = "contributor" => ActorOf[ledger[i].key] = actor}

\* The rows a window measures when `actor' is admitted.
Within(w, actor) ==
  {i \in Rows : /\ ledger[i].age < Duration(w)
                /\ w = "contributor" => ActorOf[ledger[i].key] = actor}

\* SUM
Total(column) ==
  LET sum[n \in Nat] == IF n = 0 THEN 0 ELSE sum[n - 1] + column[n]
  IN sum[Len(column)]

\* Fault: open reservations are not counted.
SpentSince(w, actor) ==
  Total([i \in Rows |-> IF i \in Within(w, actor) THEN ledger[i].used ELSE 0])

\* _USED_SINCE
UsedSince(w, actor) ==
  Total([i \in Rows |-> IF i \in Within(w, actor) THEN Charge(ledger[i]) ELSE 0])

\* The ladder and the remainder, over every window.
Allows(k) ==
  LET c == Effective IN
  \A w \in Window :
    LET limit == Calibrated(c[w])
        used == UsedSince(w, ActorOf[k])
    IN /\ used < limit
       /\ 100 * used >= 85 * limit => k \in Mentions
       /\ limit - used >= c.maxRun

-----------------------------------------------------------------------------
(* The pacer: all reservations of the pull request count, whatever became  *)
(* of them.                                                                *)

\* Fault: paced by trigger.
OfTrigger(k) == {i \in Rows : ledger[i].key = k}

OfPull(k) == {i \in Rows : PullOf[ledger[i].key] = PullOf[k]}

Paced(k) ==
  LET c == Effective
      interval == IF k \in Mentions THEN c.mentionInterval ELSE c.interval
  IN /\ \A i \in OfPull(k) : ledger[i].age >= interval
     /\ Cardinality({i \in OfPull(k) : ledger[i].age < Daily}) < c.cap

Admissible(k) == Effective.enabled /\ hold = 0 /\ Paced(k) /\ Allows(k)

-----------------------------------------------------------------------------
(* The statements.                                                         *)

\* Fault: no settled_at IS NULL.
OpenOrSettled(i, k) == ledger[i].key = k

Open(i, k) == ledger[i].key = k /\ ~ledger[i].settled

\* A row that is charged what its run used.
Spent(row, used) ==
  [row EXCEPT !.settled = TRUE, !.owner = NoOwner, !.used = used]

\* Fault: what is left of the reservation is recorded as spent.
SettledRemainder(o, used) ==
  [i \in Rows |->
     IF Open(i, run[o].key) /\ ledger[i].owner = o
     THEN Spent(ledger[i], ledger[i].reserved - used) ELSE ledger[i]]

\* _SETTLE: guarded on the owner, and a caller with nothing to settle
\* updates nothing.
Settled(o, used) ==
  [i \in Rows |->
     IF Open(i, run[o].key) /\ ledger[i].owner = o
     THEN Spent(ledger[i], used) ELSE ledger[i]]

\* Fault: it is left open.
LostLeftOpen(k) == ledger

\* _SETTLE_LOST: what an earlier admission left open is charged in full.
Lost(k) ==
  [i \in Rows |->
     IF Open(i, k) THEN Spent(ledger[i], ledger[i].reserved) ELSE ledger[i]]

\* _RESERVE
Reservation(o, k) ==
  [key |-> k, owner |-> o, reserved |-> Effective.maxRun, used |-> 0,
   settled |-> FALSE, age |-> 0]

-----------------------------------------------------------------------------
Init ==
  /\ ledger = <<>>
  /\ calibrated = Full /\ hold = 0 /\ sinceTrip = 0
  /\ config \in Configs
  /\ policy \in IF Comply THEN Configs ELSE {config}
  /\ run = [o \in Owner |-> Idle]
  /\ trips = 0

breakerVars == <<calibrated, hold, sinceTrip, trips>>

\* admit, inside the claim's transaction.
Admit(o, k) ==
  /\ run[o].pc = "idle"
  /\ Len(ledger) < MaxRows
  /\ Admissible(k)
  /\ ledger' = Append(Lost(k), Reservation(o, k))
  /\ run' = [run EXCEPT ![o] = [Idle EXCEPT !.pc = "claimed", !.key = k]]
  /\ UNCHANGED <<breakerVars, config, policy>>

\* The engine is about to run: the cost of a run that will not report one is
\* read from the daemon's own section.
Attempt(o) ==
  /\ run[o].pc = "claimed"
  /\ run' = [run EXCEPT ![o].pc = "engine", ![o].ceiling = config.maxRun]
  /\ UNCHANGED <<ledger, breakerVars, config, policy>>

Settle(o, used) ==
  /\ ledger' = Settled(o, used)
  /\ run' = [run EXCEPT ![o] = Idle]
  /\ UNCHANGED <<breakerVars, config, policy>>

\* A refusal, or a failure ahead of the engine: nothing was spent.
EndFree(o) == run[o].pc = "claimed" /\ Settle(o, 0)

\* How the cost of a run may be known, when it met the account's limit and
\* when it did not.
Costs(limited) ==
  {e.cost : e \in IF limited THEN E!LimitEnds ELSE E!Ends \ E!LimitEnds}

\* What it may settle at: an engine that says what it used says anything.
Charges(o) ==
  {E!Charged(cost, used, run[o].ceiling) :
     cost \in Costs(run[o].pc = "limited"), used \in {0, run[o].ceiling + Overruns}}

\* The call is over.
EndRun(o) ==
  /\ run[o].pc \in {"engine", "limited"}
  /\ \E used \in Charges(o) : Settle(o, used)

\* Fault: last_trip_at is not written.
TripUndated(o) ==
  /\ run[o].pc = "engine"
  /\ trips < MaxTrips
  /\ trips' = trips + 1
  /\ calibrated' = Decay(Calibration)
  /\ hold' = Session
  /\ run' = [run EXCEPT ![o].pc = "limited"]
  /\ UNCHANGED <<ledger, sinceTrip, config, policy>>

\* It met the account's limit: the breaker trips, and the settle comes next.
Trip(o) ==
  /\ run[o].pc = "engine"
  /\ trips < MaxTrips
  /\ trips' = trips + 1
  /\ calibrated' = Decay(Calibration)
  /\ hold' = Session
  /\ sinceTrip' = 0
  /\ run' = [run EXCEPT ![o].pc = "limited"]
  /\ UNCHANGED <<ledger, config, policy>>

\* The worker dies, and is restarted under the same identity.
Crash(o) ==
  /\ run[o].pc # "idle"
  /\ run' = [run EXCEPT ![o] = Idle]
  /\ UNCHANGED <<ledger, breakerVars, config, policy>>

\* SIGHUP: the daemon takes its file's section; an authority publishes it, and
\* a complier's authority may publish at any time.
Reload(c) ==
  /\ config' = c
  /\ policy' = IF Comply THEN policy ELSE c
  /\ UNCHANGED <<ledger, breakerVars, run>>

Publish(c) ==
  /\ Comply
  /\ policy' = c
  /\ UNCHANGED <<ledger, breakerVars, run, config>>

\* Time passes.  A breaker that has recovered in full is as one never tripped.
Tick ==
  /\ \/ \E i \in Rows : ledger[i].age < Weekly
     \/ hold > 0 \/ Calibration < Full
  /\ ledger' = [i \in Rows |->
       [ledger[i] EXCEPT !.age = IF @ < Weekly THEN @ + 1 ELSE @]]
  /\ hold' = IF hold > 0 THEN hold - 1 ELSE 0
  /\ sinceTrip' = IF Calibration < Full THEN sinceTrip + 1 ELSE sinceTrip
  /\ UNCHANGED <<calibrated, trips, config, policy, run>>

Next ==
  \/ Tick
  \/ \E o \in Owner, k \in Key : Admit(o, k)
  \/ \E o \in Owner :
       \/ Attempt(o) \/ EndFree(o) \/ EndRun(o) \/ Trip(o) \/ Crash(o)
  \/ \E c \in Configs : Reload(c) \/ Publish(c)

Spec == Init /\ [][Next]_vars

FairSpec == Spec /\ WF_vars(Tick)

-----------------------------------------------------------------------------
(* Properties.                                                             *)

\* The shape of the state.
TypeOK ==
  /\ ledger \in Seq(Row) /\ Len(ledger) <= MaxRows
  /\ calibrated \in 1..Full /\ hold \in 0..Session /\ sinceTrip \in Nat
  /\ config \in Configs /\ policy \in Configs
  /\ run \in [Owner -> Run]
  /\ trips \in 0..MaxTrips

\* The windows hold: however workers race, die, overrun what they reserved or
\* are charged for the dead, and whatever is reloaded, what a trailing window
\* is charged for, up to what each of its runs reserved, is within the
\* largest limit that was ever configured for it, or the one token that is
\* left of a limit however small.
WindowsHold ==
  \A w \in Window, a \in Actor :
    Total([i \in Rows |-> IF i \in Within(w, a)
                           THEN Min({Charge(ledger[i]), ledger[i].reserved}) ELSE 0])
    <= Max({1} \cup {c[w] : c \in Configs})

\* A trigger has one open reservation at most: the insertion of an admission
\* never meets the schema's ledger_open index.
OneOpenReservation ==
  \A i, j \in Rows :
    ledger[i].key = ledger[j].key /\ ~ledger[i].settled /\ ~ledger[j].settled => i = j

\* The calibration recovers nothing while claims are still being refused: the
\* first point comes when the hold is over, also for a trip that follows one.
NoRecoveryWhileTripped == hold > 0 => Calibration = calibrated

\* Two reservations of one pull request are an interval apart, and a day has
\* no more of them than the cap, whoever made them and however they ended.
KeepsItsPace ==
  LET Interval(k, c) == IF k \in Mentions THEN c.mentionInterval ELSE c.interval IN
  /\ \A i, j \in Rows :
       /\ i < j /\ ledger[i].age < Weekly
       /\ PullOf[ledger[i].key] = PullOf[ledger[j].key]
       => ledger[i].age - ledger[j].age
            >= Min({Interval(ledger[j].key, c) : c \in Configs})
  /\ \A k \in Key :
       Cardinality({i \in OfPull(k) : ledger[i].age < Daily})
         <= Max({c.cap : c \in Configs})

\* A reservation is charged once: by the worker that made it, from the run it
\* made it for, or in full when its trigger is admitted again.
ChargedOnce ==
  [][\A i \in Rows :
       LET row == ledger[i]
           row2 == ledger'[i]
       IN IF row.settled THEN [row2 EXCEPT !.age = row.age] = row
          ELSE row2.settled =>
                 \/ run[row.owner].key = row.key /\ run'[row.owner] = Idle
                 \/ row2.used = row.reserved /\ Len(ledger') > Len(ledger)]_vars

\* Left alone, the windows roll, the hold ends and the calibration recovers:
\* nothing is refused for ever, whatever was spent and lost.
RefusalsEnd == []<>(Effective.enabled => \A k \in Key : Admissible(k))
=============================================================================
