------------------------------ MODULE Startup -------------------------------
(***************************************************************************)
(* Several daemons, one for each repository, start on one SQLite file:     *)
(* SqliteStore opens and migrates it, daemon.run settles whose limits      *)
(* govern it (resolve_budget), the watermarks of an older release are      *)
(* adopted and the missing ones seeded, and SIGHUP reloads the             *)
(* configuration of a daemon that runs.                                    *)
(*                                                                         *)
(* The daemons are processes.  A step is one transaction, or one statement *)
(* outside of any; the operator edits the files between any two.           *)
(***************************************************************************)
EXTENDS Integers, FiniteSets

CONSTANTS
  Repo,            \* the daemons
  Limits,          \* the limits a file may state
  Latest,          \* the number of migrations
  Adds,            \* those that add a column
  Installed,       \* the migrations the file has had, and
  Legacy,          \* the watermarks it holds, before the first start
  Sections,        \* the budget sections an operator writes
  MaxEdits,        \* edits of a file
  MaxDeaths,       \* kills, and transactions that wait too long for the lock
  Broken,          \* a file that does not parse
  Nothing          \* no policy, no watermark

VARIABLES
  version,         \* PRAGMA user_version
  columns,         \* the migrations whose columns the tables have
  policy,          \* the row of table budget_policy
  legacy,          \* rows of table watermarks that name no repository
  marks,           \* the others, by repository
  file,            \* each daemon's config.yaml
  proc,            \* each daemon's process
  edits, deaths,   \* bookkeeping: bound the operator, and what goes wrong
  first            \* bookkeeping: the first to look for legacy watermarks

schema == <<version, columns>>
water  == <<legacy, marks, first>>
vars   == <<schema, policy, water, file, proc, edits, deaths>>

Stem == {"pull_requests", "comments"}
Migration == 1 .. Latest
Section == [authority : BOOLEAN, comply : BOOLEAN, limits : Limits]

TablesAssumption ==
  /\ Latest \in Nat
  /\ Adds \subseteq Migration
  /\ Installed \in 0 .. Latest
  /\ Legacy \subseteq Stem
  /\ Sections # {} /\ Sections \subseteq Section
  /\ MaxEdits \in Nat
  /\ MaxDeaths \in Nat
ASSUME TablesAssumption

\* `config' is what the process made of the file, its role pinned;  `cut' that
\* its last publication was; `from', `next' are the migrations in hand: the
\* slice of the list, and the number the next one of it is given.
Process ==
  [pc : {"down", "slice", "number", "migrate", "resolve", "adopt", "seed", "up"},
   config : Section, from : 0 .. Latest, next : 0 .. Latest + 1, cut : BOOLEAN]
Down == [pc |-> "down", config |-> CHOOSE s \in Sections : TRUE,
         from |-> 0, next |-> 0, cut |-> FALSE]

Policy == [repo : Repo, limits : Limits]
NothingAssumption == Nothing \notin Policy \cup Repo \cup {"inherited", "seeded"}
ASSUME NothingAssumption

Mine(r, section) == [repo |-> r, limits |-> section.limits]

At(r, place) == proc[r].pc = place
Go(r, place) == proc' = [proc EXCEPT ![r].pc = place]
\* An exception that leaves `run': the process ends and its unit starts it
\* again.
Fails(r)     == proc' = [proc EXCEPT ![r] = Down]

-----------------------------------------------------------------------------
(* SqliteStore.__init__ and _migrate.                                      *)

Open(r) ==
  /\ At(r, "down")
  /\ file[r] # Broken
  /\ proc' = [proc EXCEPT ![r].pc = "slice", ![r].config = file[r]]
  /\ UNCHANGED <<schema, policy, water, file, edits, deaths>>

\* The list is sliced at one reading of user_version and numbered from a
\* second, neither in a transaction.
Slice(r) ==
  /\ At(r, "slice")
  /\ proc' = [proc EXCEPT ![r].pc = "number", ![r].from = version]
  /\ UNCHANGED <<schema, policy, water, file, edits, deaths>>

Number(r) ==
  /\ At(r, "number")
  /\ proc' = [proc EXCEPT ![r].pc = "migrate", ![r].next = version + 1]
  /\ UNCHANGED <<schema, policy, water, file, edits, deaths>>

\* Fault: a migration that adds a column is let through a second time.
AppliesAgain(m) == m \in Migration

\* CREATE is IF NOT EXISTS; ALTER TABLE ADD COLUMN has no such form.
Applies(m) == m \in Adds => m \notin columns

\* The next migration of the slice and its version bump, in one transaction.
\* One that fails is rolled back and ends the process.
Migrate(r) ==
  LET m == proc[r].from + 1 IN
  /\ At(r, "migrate")
  /\ m <= Latest
  /\ IF Applies(m)
       THEN /\ columns' = columns \cup ({m} \cap Adds)
            /\ version' = proc[r].next
            /\ proc' = [proc EXCEPT ![r].from = m, ![r].next = @ + 1]
       ELSE Fails(r) /\ UNCHANGED schema
  /\ UNCHANGED <<policy, water, file, edits, deaths>>

Migrated(r) ==
  /\ At(r, "migrate")
  /\ proc[r].from >= Latest
  /\ Go(r, "resolve")
  /\ UNCHANGED <<schema, policy, water, file, edits, deaths>>

-----------------------------------------------------------------------------
(* resolve_budget, one transaction.                                        *)

Governs(r) == proc[r].config.authority
Complies(r) == ~Governs(r) /\ proc[r].config.comply

\* Fault: an authority is refused by its own row.
RefusedByAny(r) == policy # Nothing /\ r \in Repo

\* Two authorities are two opinions about one allowance.
Refused(r) == policy # Nothing /\ policy.repo # r

Publish(r) ==
  /\ At(r, "resolve") /\ Governs(r)
  /\ IF Refused(r)
       THEN Fails(r) /\ UNCHANGED policy
       ELSE Go(r, "adopt") /\ policy' = Mine(r, proc[r].config)
  /\ UNCHANGED <<schema, water, file, edits, deaths>>

\* A complier that finds no policy fails, and is started again.
Comply(r) ==
  /\ At(r, "resolve") /\ ~Governs(r)
  /\ IF Complies(r) /\ policy = Nothing THEN Fails(r) ELSE Go(r, "adopt")
  /\ UNCHANGED <<schema, policy, water, file, edits, deaths>>

-----------------------------------------------------------------------------
(* Daemon.seed_watermarks.                                                 *)

Qualified == \E r \in Repo, s \in Stem : marks[r][s] # Nothing

\* Fault: the rows are renamed in a transaction each, and the guard stops the second.
AdoptOneByOne(r) ==
  /\ At(r, "adopt")
  /\ IF Qualified
       THEN UNCHANGED <<legacy, marks>>
       ELSE \E s \in legacy :
              /\ marks' = [marks EXCEPT ![r][s] = "inherited"]
              /\ legacy' = legacy \ {s}
  /\ first' = IF first = Nothing THEN r ELSE first
  /\ Go(r, "seed")
  /\ UNCHANGED <<schema, policy, file, edits, deaths>>

\* adopt_legacy_watermarks, one transaction: once per store.
Adopt(r) ==
  /\ At(r, "adopt")
  /\ IF Qualified
       THEN UNCHANGED <<legacy, marks>>
       ELSE /\ marks' = [marks EXCEPT ![r] =
                           [s \in Stem |-> IF s \in legacy THEN "inherited" ELSE @[s]]]
            /\ legacy' = {}
  /\ first' = IF first = Nothing THEN r ELSE first
  /\ Go(r, "seed")
  /\ UNCHANGED <<schema, policy, file, edits, deaths>>

\* _since: a stem that has no watermark is bounded to now.
Seed(r, s) ==
  /\ At(r, "seed")
  /\ marks[r][s] = Nothing
  /\ marks' = [marks EXCEPT ![r][s] = "seeded"]
  /\ UNCHANGED <<schema, policy, legacy, first, file, proc, edits, deaths>>

Seeded(r) ==
  /\ At(r, "seed")
  /\ \A s \in Stem : marks[r][s] # Nothing
  /\ Go(r, "up")
  /\ UNCHANGED <<schema, policy, water, file, edits, deaths>>

-----------------------------------------------------------------------------
(* SIGHUP, edits, deaths.                                                  *)

\* Fault: the role is reloaded with the limits.
AdoptedRole(r) == file[r]

\* Which daemon governs is settled once, in `resolve_budget': the role is
\* pinned, the limits reload.
Adopted(r) == [proc[r].config EXCEPT !.limits = file[r].limits]

\* The publication is a statement of its own: it may meet another daemon's
\* write lock, after the configuration was replaced.
Reload(r) ==
  /\ At(r, "up")
  /\ file[r] # Broken
  /\ \E cut \in IF Adopted(r).authority /\ deaths < MaxDeaths THEN BOOLEAN ELSE {FALSE} :
       /\ proc' = [proc EXCEPT ![r].config = Adopted(r), ![r].cut = cut]
       /\ policy' = IF Adopted(r).authority /\ ~cut THEN Mine(r, Adopted(r)) ELSE policy
       /\ deaths' = IF cut THEN deaths + 1 ELSE deaths
  /\ UNCHANGED <<schema, water, file, edits>>

Edit(r) ==
  /\ edits < MaxEdits
  /\ edits' = edits + 1
  /\ \E f \in (Sections \cup {Broken}) \ {file[r]} : file' = [file EXCEPT ![r] = f]
  /\ UNCHANGED <<schema, policy, water, proc, deaths>>

Die(r) ==
  /\ ~At(r, "down")
  /\ deaths < MaxDeaths
  /\ deaths' = deaths + 1
  /\ Fails(r)
  /\ UNCHANGED <<schema, policy, water, file, edits>>

-----------------------------------------------------------------------------
Init ==
  /\ version = Installed
  /\ columns = Adds \cap 1 .. Installed
  /\ policy = Nothing
  /\ legacy = Legacy
  /\ marks = [r \in Repo |-> [s \in Stem |-> Nothing]]
  /\ file \in [Repo -> Sections]
  /\ proc = [r \in Repo |-> Down]
  /\ edits = 0 /\ deaths = 0
  /\ first = Nothing

\* What the process of one daemon does by itself.
Starts(r) ==
  \/ Open(r) \/ Slice(r) \/ Number(r) \/ Migrate(r) \/ Migrated(r)
  \/ Publish(r) \/ Comply(r)
  \/ Adopt(r) \/ Seeded(r)
  \/ \E s \in Stem : Seed(r, s)

Next == \E r \in Repo : Starts(r) \/ Reload(r) \/ Edit(r) \/ Die(r)

Spec     == Init /\ [][Next]_vars
FairSpec == Spec /\ \A r \in Repo : WF_vars(Starts(r))

-----------------------------------------------------------------------------
TypeOK ==
  /\ version \in 0 .. Latest
  /\ columns \subseteq Adds
  /\ policy \in Policy \cup {Nothing}
  /\ legacy \in {Legacy, {}}
  /\ marks \in [Repo -> [Stem -> {"inherited", "seeded", Nothing}]]
  /\ file \in [Repo -> Sections \cup {Broken}]
  /\ proc \in [Repo -> Process]
  /\ edits \in 0 .. MaxEdits /\ deaths \in 0 .. MaxDeaths
  /\ first \in Repo \cup {Nothing}

\* The version is a count of the migrations the tables have had, whoever
\* applied them and wherever it was cut off.
SchemaIsCounted ==
  \A m \in Adds : m \in columns <=> m <= version

\* A daemon that runs as authority is the one the policy names, and the policy
\* is its own limits, unless its last reload was cut short; one that complies
\* has something to comply with.  So no two authorities run on one store.
PoolIsGoverned ==
  \A r \in Repo : proc[r].pc \in {"adopt", "seed", "up"} =>
    /\ Governs(r) => policy # Nothing /\ policy.repo = r
    /\ Governs(r) /\ ~proc[r].cut => policy = Mine(r, proc[r].config)
    /\ Complies(r) => policy # Nothing

\* The watermarks of an older release go to one repository, all of them and
\* through whatever cuts its start short: to the first that looks for them.
\* The others start from their own now, and pay for no backlog.
LegacyGoesToOne ==
  \A r \in Repo, s \in Stem :
    /\ marks[r][s] = "inherited" => r = first
    /\ marks[r][s] = "seeded" => ~(r = first /\ s \in Legacy)

\* What an operator has to see to: files that parse, one authority among them,
\* none recorded before it, and a restart where a role was changed.
Settled ==
  /\ \A r \in Repo : file[r] # Broken
  /\ \A r \in Repo : At(r, "up") => Adopted(r) = file[r]
  /\ \E a \in Repo :
       /\ \A r \in Repo : file[r].authority <=> r = a
       /\ policy = Nothing \/ policy.repo = a

\* Whatever the order of the starts, whoever dies in between: once the files
\* are right every daemon comes up, and comes up again.
StartsConverge ==
  <>[]Settled => \A r \in Repo : []<>At(r, "up")

=============================================================================
