-------------------------- MODULE Startup_proofs ---------------------------
(***************************************************************************)
(* Proofs about the start of any number of daemons on one store, whatever  *)
(* the files say, however often they are edited and whoever dies.          *)
(***************************************************************************)
EXTENDS Startup, TLAPS

USE TablesAssumption, NothingAssumption DEF TablesAssumption, NothingAssumption

Place == {"down", "slice", "number", "migrate", "resolve", "adopt", "seed", "up"}
\* The numbers of migrations may be any here: only SchemaIsCounted is about them.
AnyProcess == [pc : Place, config : Section, from : Int, next : Int, cut : BOOLEAN]

Shape ==
  /\ version \in Int
  /\ proc \in [Repo -> AnyProcess]
  /\ file \in [Repo -> Sections \cup {Broken}]
  /\ policy \in Policy \cup {Nothing}

-----------------------------------------------------------------------------
LEMMA DownShape == Down \in AnyProcess /\ Down.pc = "down"
<1>1. (CHOOSE s \in Sections : TRUE) \in Section
  <2>1. PICK s \in Sections : TRUE
    OBVIOUS
  <2> QED
    BY <2>1
<1> QED
  BY <1>1 DEF Down, AnyProcess, Place

\* What a daemon makes of its file when it reloads: its role as before.
LEMMA AdoptedShape ==
  ASSUME Shape, NEW r \in Repo, file[r] # Broken
  PROVE  /\ Adopted(r) \in Section
         /\ Adopted(r).authority = proc[r].config.authority
         /\ Adopted(r).comply = proc[r].config.comply
<1>1. file[r] \in Section /\ proc[r].config \in Section
  BY DEF Shape, AnyProcess
<1> QED
  BY <1>1 DEF Adopted, Section

LEMMA InitShape == Init => Shape
BY DownShape DEF Init, Shape, AnyProcess

LEMMA ShapeStep ==
  ASSUME Shape, [Next]_vars
  PROVE  Shape'
<1> USE DEF Shape, At, Go
<1>1. ASSUME NEW r \in Repo, Open(r) PROVE Shape'
  <2>1. file[r] \in Section
    BY <1>1 DEF Open
  <2>2. [proc[r] EXCEPT !.pc = "slice", !.config = file[r]] \in AnyProcess
    BY <2>1 DEF AnyProcess, Place
  <2>3. proc' = [proc EXCEPT ![r] = [proc[r] EXCEPT !.pc = "slice", !.config = file[r]]]
    BY <1>1 DEF Open
  <2> QED
    BY <1>1, <2>2, <2>3 DEF Open, schema
<1>2. ASSUME NEW r \in Repo, Slice(r) PROVE Shape'
  BY <1>2 DEF Slice, AnyProcess, Place, schema
<1>3. ASSUME NEW r \in Repo, Number(r) PROVE Shape'
  <2>1. version + 1 \in Int
    OBVIOUS
  <2>2. [proc[r] EXCEPT !.pc = "migrate", !.next = version + 1] \in AnyProcess
    BY <2>1 DEF AnyProcess, Place
  <2>3. proc' = [proc EXCEPT ![r] = [proc[r] EXCEPT !.pc = "migrate", !.next = version + 1]]
    BY <1>3 DEF Number
  <2> QED
    BY <1>3, <2>2, <2>3 DEF Number, schema
<1>4. ASSUME NEW r \in Repo, Migrate(r) PROVE Shape'
  BY <1>4, DownShape DEF Migrate, Fails, AnyProcess, Place, schema
<1>5. ASSUME NEW r \in Repo, Migrated(r) \/ Seeded(r) PROVE Shape'
  BY <1>5 DEF Migrated, Seeded, AnyProcess, Place, schema
<1>6. ASSUME NEW r \in Repo, Publish(r) PROVE Shape'
  <2>1. proc[r].config \in Section
    BY DEF AnyProcess
  <2>2. Mine(r, proc[r].config) \in Policy
    BY <2>1 DEF Mine, Policy, Section
  <2> QED
    BY <1>6, <2>2, DownShape DEF Publish, Fails, AnyProcess, Place, schema
<1>7. ASSUME NEW r \in Repo, Comply(r) PROVE Shape'
  BY <1>7, DownShape DEF Comply, Fails, AnyProcess, Place, schema
<1>8. ASSUME NEW r \in Repo, Adopt(r) PROVE Shape'
  BY <1>8 DEF Adopt, AnyProcess, Place, schema
<1>9. ASSUME NEW r \in Repo, NEW s \in Stem, Seed(r, s) PROVE Shape'
  BY <1>9 DEF Seed, schema
<1>10. ASSUME NEW r \in Repo, Reload(r) PROVE Shape'
  <2>1. Adopted(r) \in Section
    BY <1>10, AdoptedShape DEF Reload
  <2>2. Mine(r, Adopted(r)) \in Policy
    BY <2>1 DEF Mine, Policy, Section
  <2>3. PICK cut \in BOOLEAN :
          /\ proc' = [proc EXCEPT ![r].config = Adopted(r), ![r].cut = cut]
          /\ policy' = IF Adopted(r).authority /\ ~cut THEN Mine(r, Adopted(r)) ELSE policy
    BY <1>10 DEF Reload
  <2>4. [proc[r] EXCEPT !.config = Adopted(r), !.cut = cut] \in AnyProcess
    BY <2>1 DEF AnyProcess
  <2>5. proc' = [proc EXCEPT ![r] = [proc[r] EXCEPT !.config = Adopted(r), !.cut = cut]]
    BY <2>3
  <2>6. policy' \in Policy \cup {Nothing}
    BY <2>2, <2>3
  <2> QED
    BY <1>10, <2>4, <2>5, <2>6 DEF Reload, schema
<1>11. ASSUME NEW r \in Repo, Edit(r) PROVE Shape'
  BY <1>11 DEF Edit, schema
<1>12. ASSUME NEW r \in Repo, Die(r) PROVE Shape'
  BY <1>12, DownShape DEF Die, Fails, schema
<1>13. CASE UNCHANGED vars
  BY <1>13 DEF vars, schema
<1> QED
  BY <1>1, <1>2, <1>3, <1>4, <1>5, <1>6, <1>7, <1>8, <1>9, <1>10, <1>11, <1>12, <1>13
     DEF Next, Starts

-----------------------------------------------------------------------------
(* Whose limits govern.                                                    *)

\* A daemon that has been let through resolve_budget.
Through(r) == proc[r].pc \in {"adopt", "seed", "up"}

\* A step that lets nobody through, and touches neither the policy nor what a
\* daemon that is through goes by.
LEMMA GovernedFrame ==
  ASSUME PoolIsGoverned, policy' = policy,
         \A r \in Repo : Through(r)' =>
           /\ Through(r)
           /\ proc'[r].config = proc[r].config
           /\ proc'[r].cut = proc[r].cut
  PROVE  PoolIsGoverned'
BY DEF PoolIsGoverned, Through, Governs, Complies

LEMMA GovernedStep ==
  ASSUME Shape, PoolIsGoverned, [Next]_vars
  PROVE  PoolIsGoverned'
<1> USE DEF At, Go
<1>0. proc \in [Repo -> AnyProcess]
  BY DEF Shape
<1>1. ASSUME NEW r \in Repo, Open(r) PROVE PoolIsGoverned'
  BY <1>0, <1>1, GovernedFrame DEF Open, Through, AnyProcess
<1>2. ASSUME NEW r \in Repo, Slice(r) \/ Number(r) PROVE PoolIsGoverned'
  BY <1>0, <1>2, GovernedFrame DEF Slice, Number, Through, AnyProcess
<1>3. ASSUME NEW r \in Repo, Migrate(r) PROVE PoolIsGoverned'
  BY <1>0, <1>3, DownShape, GovernedFrame DEF Migrate, Fails, Through, AnyProcess
<1>4. ASSUME NEW r \in Repo, Migrated(r) PROVE PoolIsGoverned'
  BY <1>0, <1>4, GovernedFrame DEF Migrated, Through, AnyProcess
<1>5. ASSUME NEW r \in Repo, Publish(r) PROVE PoolIsGoverned'
  <2>1. CASE Refused(r)
    BY <1>0, <1>5, <2>1, DownShape, GovernedFrame DEF Publish, Fails, Through, AnyProcess
  <2>2. CASE ~Refused(r)
    <3>1. /\ policy' = Mine(r, proc[r].config)
          /\ proc' = [proc EXCEPT ![r].pc = "adopt"]
      BY <1>5, <2>2 DEF Publish
    <3>2. policy' # Nothing /\ policy'.repo = r
      <4>1. Mine(r, proc[r].config) \in Policy
        BY <1>0 DEF Mine, Policy, AnyProcess, Section
      <4> QED
        BY <3>1, <4>1 DEF Mine
    <3>3. \A q \in Repo \ {r} : proc'[q] = proc[q]
      BY <1>0, <3>1
    <3>4. proc'[r].config = proc[r].config
      BY <1>0, <3>1 DEF AnyProcess
    \* Another authority that is through would have refused this one.
    <3>5. \A q \in Repo \ {r} : Through(q) => ~Governs(q)
      BY <2>2 DEF Refused, PoolIsGoverned, Through
    <3> QED
      BY <3>1, <3>2, <3>3, <3>4, <3>5 DEF PoolIsGoverned, Through, Governs, Complies
  <2> QED
    BY <2>1, <2>2
<1>6. ASSUME NEW r \in Repo, Comply(r) PROVE PoolIsGoverned'
  <2>1. CASE Complies(r) /\ policy = Nothing
    BY <1>0, <1>6, <2>1, DownShape, GovernedFrame DEF Comply, Fails, Through, AnyProcess
  <2>2. CASE ~(Complies(r) /\ policy = Nothing)
    <3>1. policy' = policy /\ proc' = [proc EXCEPT ![r].pc = "adopt"] /\ ~Governs(r)
      BY <1>6, <2>2 DEF Comply
    <3>2. \A q \in Repo \ {r} : proc'[q] = proc[q]
      BY <1>0, <3>1
    <3>3. proc'[r].config = proc[r].config
      BY <1>0, <3>1 DEF AnyProcess
    <3> QED
      BY <2>2, <3>1, <3>2, <3>3 DEF PoolIsGoverned, Governs, Complies
  <2> QED
    BY <2>1, <2>2
<1>7. ASSUME NEW r \in Repo, Adopt(r) \/ Seeded(r) PROVE PoolIsGoverned'
  BY <1>0, <1>7, GovernedFrame DEF Adopt, Seeded, Through, AnyProcess
<1>8. ASSUME NEW r \in Repo, NEW s \in Stem, Seed(r, s) PROVE PoolIsGoverned'
  BY <1>8, GovernedFrame DEF Seed, Through
<1>9. ASSUME NEW r \in Repo, Reload(r) PROVE PoolIsGoverned'
  <2>1. PICK cut \in BOOLEAN :
          /\ proc' = [proc EXCEPT ![r].config = Adopted(r), ![r].cut = cut]
          /\ policy' = IF Adopted(r).authority /\ ~cut THEN Mine(r, Adopted(r)) ELSE policy
    BY <1>9 DEF Reload
  <2>2. Through(r) /\ file[r] # Broken
    BY <1>9 DEF Reload, Through
  <2>3. /\ Adopted(r) \in Section
        /\ Adopted(r).authority = proc[r].config.authority
        /\ Adopted(r).comply = proc[r].config.comply
    BY <2>2, AdoptedShape
  <2>4. /\ proc'[r].config = Adopted(r) /\ proc'[r].cut = cut /\ proc'[r].pc = proc[r].pc
        /\ \A q \in Repo \ {r} : proc'[q] = proc[q]
    BY <1>0, <2>1 DEF AnyProcess
  <2>5. CASE Governs(r)
    <3>1. policy # Nothing /\ policy.repo = r
      BY <2>2, <2>5 DEF PoolIsGoverned, Through
    <3>2. policy' # Nothing /\ policy'.repo = r
      <4>1. Mine(r, Adopted(r)) \in Policy
        BY <2>3 DEF Mine, Policy, Section
      <4> QED
        BY <2>1, <3>1, <4>1 DEF Mine
    <3>3. \A q \in Repo \ {r} : Through(q) => ~Governs(q)
      BY <3>1 DEF PoolIsGoverned, Through
    <3> QED
      BY <2>1, <2>3, <2>4, <2>5, <3>2, <3>3
         DEF PoolIsGoverned, Through, Governs, Complies
  <2>6. CASE ~Governs(r)
    <3>1. policy' = policy
      BY <2>1, <2>3, <2>6 DEF Governs
    <3> QED
      BY <2>2, <2>3, <2>4, <2>6, <3>1 DEF PoolIsGoverned, Through, Governs, Complies
  <2> QED
    BY <2>5, <2>6
<1>10. ASSUME NEW r \in Repo, Edit(r) PROVE PoolIsGoverned'
  BY <1>10, GovernedFrame DEF Edit, Through
<1>11. ASSUME NEW r \in Repo, Die(r) PROVE PoolIsGoverned'
  BY <1>0, <1>11, DownShape, GovernedFrame DEF Die, Fails, Through
<1>12. CASE UNCHANGED vars
  BY <1>12, GovernedFrame DEF vars, Through
<1> QED
  BY <1>1, <1>2, <1>3, <1>4, <1>5, <1>6, <1>7, <1>8, <1>9, <1>10, <1>11, <1>12
     DEF Next, Starts

\* The daemons that run go by the store's policy: one authority at most, whose
\* limits are the policy, and no complier without one (resolve_budget, and the
\* role that a reload does not change, in daemon.py).
THEOREM Governed == Spec => []PoolIsGoverned
<1>1. Init => PoolIsGoverned
  BY DownShape DEF Init, PoolIsGoverned
<1>2. Shape /\ PoolIsGoverned /\ [Next]_vars => (Shape /\ PoolIsGoverned)'
  BY ShapeStep, GovernedStep
<1> QED
  BY <1>1, <1>2, InitShape, PTL DEF Spec

-----------------------------------------------------------------------------
(* Where the watermarks of an older release go.                            *)

\* A daemon that has looked for them.
Looked(r) == proc[r].pc \in {"seed", "up"}

\* Until somebody looks they are all there and no repository has any; then the
\* first has them all, and has had nothing else in their place.
LegacyInv ==
  /\ marks \in [Repo -> [Stem -> {"inherited", "seeded", Nothing}]]
  /\ first \in Repo \cup {Nothing}
  /\ first = Nothing => /\ legacy = Legacy
                        /\ \A r \in Repo : \A s \in Stem : marks[r][s] = Nothing
                        /\ \A r \in Repo : ~Looked(r)
  /\ first # Nothing => /\ legacy = {}
                        /\ \A s \in Legacy : marks[first][s] = "inherited"
  /\ \A r \in Repo : \A s \in Stem : marks[r][s] = "inherited" => r = first

\* A step that leaves the watermarks alone, and takes nobody past the look.
LEMMA LegacyFrame ==
  ASSUME LegacyInv, UNCHANGED water, \A r \in Repo : Looked(r)' => Looked(r)
  PROVE  LegacyInv'
BY DEF LegacyInv, water, Looked

LEMMA AdoptInv ==
  ASSUME Shape, LegacyInv, NEW r \in Repo, Adopt(r)
  PROVE  LegacyInv'
<1>1. first' = (IF first = Nothing THEN r ELSE first) /\ first' \in Repo
  BY DEF Adopt, LegacyInv
<1>2. CASE Qualified
  <2>1. first # Nothing
    BY <1>2 DEF Qualified, LegacyInv
  <2> QED
    BY <1>1, <1>2, <2>1 DEF Adopt, LegacyInv
<1>3. CASE ~Qualified
  <2>1. /\ marks' = [marks EXCEPT ![r] =
                       [s \in Stem |-> IF s \in legacy THEN "inherited" ELSE marks[r][s]]]
        /\ legacy' = {}
    BY <1>3 DEF Adopt
  <2>2. /\ marks' \in [Repo -> [Stem -> {"inherited", "seeded", Nothing}]]
        /\ \A q \in Repo \ {r} : marks'[q] = marks[q]
        /\ \A s \in Stem : marks'[r][s] = IF s \in legacy THEN "inherited" ELSE Nothing
    BY <1>3, <2>1 DEF LegacyInv, Qualified
  <2>3. CASE first = Nothing
    BY <1>1, <2>1, <2>2, <2>3 DEF LegacyInv
  <2>4. CASE first # Nothing
    BY <1>1, <2>1, <2>2, <2>4 DEF LegacyInv
  <2> QED
    BY <2>3, <2>4
<1> QED
  BY <1>2, <1>3

\* Bounding a stem to now puts nothing in the place of an old watermark.
LEMMA SeedInv ==
  ASSUME Shape, LegacyInv, NEW r \in Repo, NEW s \in Stem, Seed(r, s)
  PROVE  LegacyInv'
<1>1. /\ marks' = [marks EXCEPT ![r][s] = "seeded"]
      /\ marks[r][s] = Nothing
      /\ UNCHANGED <<legacy, first, proc>>
  BY DEF Seed
<1>2. first # Nothing
  BY DEF Seed, At, Looked, LegacyInv
<1>3. /\ marks' \in [Repo -> [Stem -> {"inherited", "seeded", Nothing}]]
      /\ \A q \in Repo, t \in Stem :
           marks'[q][t] = IF q = r /\ t = s THEN "seeded" ELSE marks[q][t]
  BY <1>1 DEF LegacyInv
<1> QED
  BY <1>1, <1>2, <1>3 DEF LegacyInv

LEMMA LegacyStep ==
  ASSUME Shape, LegacyInv, [Next]_vars
  PROVE  LegacyInv'
<1> USE DEF At, Go, Looked
<1>0. proc \in [Repo -> AnyProcess]
  BY DEF Shape
<1>1. ASSUME NEW r \in Repo, Open(r) PROVE LegacyInv'
  BY <1>0, <1>1, LegacyFrame DEF Open, AnyProcess
<1>2. ASSUME NEW r \in Repo, Slice(r) \/ Number(r) \/ Migrated(r) PROVE LegacyInv'
  BY <1>0, <1>2, LegacyFrame DEF Slice, Number, Migrated, AnyProcess
<1>3. ASSUME NEW r \in Repo, Migrate(r) PROVE LegacyInv'
  BY <1>0, <1>3, DownShape, LegacyFrame DEF Migrate, Fails, AnyProcess
<1>4. ASSUME NEW r \in Repo, Publish(r) \/ Comply(r) PROVE LegacyInv'
  BY <1>0, <1>4, DownShape, LegacyFrame DEF Publish, Comply, Fails, AnyProcess
<1>5. ASSUME NEW r \in Repo, Adopt(r) PROVE LegacyInv'
  BY <1>5, AdoptInv
<1>6. ASSUME NEW r \in Repo, Seeded(r) PROVE LegacyInv'
  BY <1>0, <1>6, LegacyFrame DEF Seeded, AnyProcess
<1>7. ASSUME NEW r \in Repo, NEW s \in Stem, Seed(r, s) PROVE LegacyInv'
  BY <1>7, SeedInv
<1>8. ASSUME NEW r \in Repo, Reload(r) PROVE LegacyInv'
  <2>1. PICK cut \in BOOLEAN :
          proc' = [proc EXCEPT ![r].config = Adopted(r), ![r].cut = cut]
    BY <1>8 DEF Reload
  <2>2. \A q \in Repo : proc'[q].pc = proc[q].pc
    BY <1>0, <2>1 DEF AnyProcess
  <2> QED
    BY <1>8, <2>2, LegacyFrame DEF Reload
<1>9. ASSUME NEW r \in Repo, Edit(r) PROVE LegacyInv'
  BY <1>9, LegacyFrame DEF Edit
<1>10. ASSUME NEW r \in Repo, Die(r) PROVE LegacyInv'
  BY <1>0, <1>10, DownShape, LegacyFrame DEF Die, Fails
<1>11. CASE UNCHANGED vars
  BY <1>11, LegacyFrame DEF vars
<1> QED
  BY <1>1, <1>2, <1>3, <1>4, <1>5, <1>6, <1>7, <1>8, <1>9, <1>10, <1>11 DEF Next, Starts

\* The old watermarks go to the first daemon that looks for them, all of them,
\* and nothing is seeded in the place of one (adopt_legacy_watermarks of
\* store.py, seed_watermarks of daemon.py).
THEOREM LegacyTogether == Spec => []LegacyGoesToOne
<1>1. Init => LegacyInv
  BY DownShape DEF Init, LegacyInv, Looked
<1>2. Shape /\ LegacyInv /\ [Next]_vars => (Shape /\ LegacyInv)'
  BY ShapeStep, LegacyStep
<1>3. LegacyInv => LegacyGoesToOne
  BY DEF LegacyInv, LegacyGoesToOne
<1> QED
  BY <1>1, <1>2, <1>3, InitShape, PTL DEF Spec
-----------------------------------------------------------------------------
(* The count of the migrations.                                            *)

\* What the count needs: migrations that refuse a second application, as they
\* are from a release on, or a store that is opened by one daemon.
Lone    == \A a, b \in Repo : a = b
Orderly == Installed + 1 .. Latest \subseteq Adds \/ Lone

\* The migration that a daemon has in hand is none that the file is short of,
\* and the number that it would be given is none that would be new; where the
\* daemon is alone, both are the next.
SchemaInv ==
  /\ version \in Installed .. Latest
  /\ columns = {m \in Adds : m <= version}
  /\ \A r \in Repo :
       /\ proc[r].from \in 0 .. Latest
       /\ proc[r].next \in 0 .. Latest + 1
       /\ proc[r].pc \in {"number", "migrate"} =>
            /\ Installed <= proc[r].from /\ proc[r].from <= version
            /\ Lone => proc[r].from = version
       /\ proc[r].pc = "migrate" =>
            /\ proc[r].from < proc[r].next /\ proc[r].next <= version + 1
            /\ Lone => proc[r].next = version + 1

LEMMA SchemaInit == Init => SchemaInv
<1> SUFFICES ASSUME Init PROVE SchemaInv
  OBVIOUS
<1>0. version = Installed /\ columns = Adds \cap 1 .. Installed
  BY DEF Init
<1>1. columns = {m \in Adds : m <= version}
  <2>1. \A m \in Adds : m \in 1 .. Installed <=> m <= Installed
    BY DEF Migration
  <2> QED
    BY <1>0, <2>1
<1>2. \A r \in Repo : proc[r].pc = "down" /\ proc[r].from = 0 /\ proc[r].next = 0
  BY DEF Init, Down
<1> QED
  BY <1>0, <1>1, <1>2 DEF SchemaInv

\* A step that leaves the tables alone, and takes a daemon's migrations out of
\* its hand or leaves them there.
LEMMA SchemaFrame ==
  ASSUME SchemaInv, UNCHANGED schema,
         \A r \in Repo :
           \/ proc'[r].pc = "down" /\ proc'[r].from = 0 /\ proc'[r].next = 0
           \/ /\ proc'[r].from = proc[r].from /\ proc'[r].next = proc[r].next
              /\ proc'[r].pc \in {"number", "migrate"} => proc'[r].pc = proc[r].pc
  PROVE  SchemaInv'
<1>1. version' = version /\ columns' = columns
  BY DEF schema
<1>2. \A r \in Repo :
       /\ proc'[r].from \in 0 .. Latest
       /\ proc'[r].next \in 0 .. Latest + 1
       /\ proc'[r].pc \in {"number", "migrate"} =>
            /\ Installed <= proc'[r].from /\ proc'[r].from <= version
            /\ Lone => proc'[r].from = version
       /\ proc'[r].pc = "migrate" =>
            /\ proc'[r].from < proc'[r].next /\ proc'[r].next <= version + 1
            /\ Lone => proc'[r].next = version + 1
  BY DEF SchemaInv
<1> QED
  BY <1>1, <1>2 DEF SchemaInv, Lone

\* One migration and its version bump.
LEMMA MigrateInv ==
  ASSUME Orderly, Shape, SchemaInv, NEW r \in Repo, Migrate(r)
  PROVE  SchemaInv'
<1> DEFINE m == proc[r].from + 1
           w == [proc[r] EXCEPT !.from = m, !.next = @ + 1]
<1>0. /\ proc \in [Repo -> AnyProcess] /\ proc[r] \in AnyProcess
      /\ proc[r].from \in Nat /\ proc[r].next \in Nat /\ version \in Nat
      /\ Installed <= proc[r].from /\ proc[r].from <= version /\ version <= Latest
      /\ proc[r].from < proc[r].next /\ proc[r].next <= version + 1
      /\ Lone => proc[r].from = version /\ proc[r].next = version + 1
      /\ m <= Latest
  BY DEF Shape, SchemaInv, Migrate, At
<1>1. CASE ~Applies(m)
  <2>1. proc' = [proc EXCEPT ![r] = Down] /\ UNCHANGED schema
    BY <1>1 DEF Migrate, Fails
  <2>2. \A q \in Repo : proc'[q] = IF q = r THEN Down ELSE proc[q]
    BY <1>0, <2>1
  <2> QED
    BY <2>1, <2>2, SchemaFrame DEF Down
<1>2. CASE Applies(m)
  <2>1. /\ columns' = columns \cup ({m} \cap Adds) /\ version' = proc[r].next
        /\ proc' = [proc EXCEPT ![r] = w]
    BY <1>2 DEF Migrate
  <2>2. version = proc[r].from
    <3>1. CASE Lone
      BY <1>0, <3>1
    <3>2. CASE ~Lone
      <4>1. m \in Adds
        BY <1>0, <3>2 DEF Orderly
      <4>2. m \notin columns
        BY <1>2, <4>1 DEF Applies
      <4>3. ~ (m <= version)
        BY <4>1, <4>2 DEF SchemaInv
      <4> QED
        BY <1>0, <4>3
    <3> QED
      BY <3>1, <3>2
  <2>3. version' = m /\ m = version + 1
    BY <1>0, <2>1, <2>2
  <2>4. columns' = {k \in Adds : k <= m}
    <3>1. ASSUME NEW k \in Adds PROVE k <= m <=> k <= version \/ k = m
      BY <1>0, <2>3 DEF Migration
    <3> QED
      BY <2>1, <3>1 DEF SchemaInv
  <2>5. /\ w.from = m /\ w.next = m + 1 /\ w.pc = proc[r].pc
        /\ \A q \in Repo : proc'[q] = IF q = r THEN w ELSE proc[q]
    BY <1>0, <2>1, <2>2, <2>3 DEF AnyProcess
  <2> HIDE DEF w, m
  <2>6. m \in Installed .. Latest /\ m \in 0 .. Latest /\ m + 1 \in 0 .. Latest + 1
    BY <1>0, <2>3 DEF m
  <2>7. ASSUME NEW q \in Repo, q # r
        PROVE  /\ proc[q].from \in 0 .. Latest
               /\ proc[q].next \in 0 .. Latest + 1
               /\ proc[q].pc \in {"number", "migrate"} =>
                    Installed <= proc[q].from /\ proc[q].from <= m
               /\ proc[q].pc = "migrate" =>
                    proc[q].from < proc[q].next /\ proc[q].next <= m + 1
               /\ ~Lone
    BY <1>0, <2>3, <2>7 DEF SchemaInv, Lone
  <2>8. \A q \in Repo :
       /\ proc'[q].from \in 0 .. Latest
       /\ proc'[q].next \in 0 .. Latest + 1
       /\ proc'[q].pc \in {"number", "migrate"} =>
            /\ Installed <= proc'[q].from /\ proc'[q].from <= m
            /\ Lone => proc'[q].from = m
       /\ proc'[q].pc = "migrate" =>
            /\ proc'[q].from < proc'[q].next /\ proc'[q].next <= m + 1
            /\ Lone => proc'[q].next = m + 1
    BY <2>5, <2>6, <2>7
  <2> QED
    BY <2>3, <2>4, <2>6, <2>8 DEF SchemaInv, Lone
<1> QED
  BY <1>1, <1>2

LEMMA SchemaStep ==
  ASSUME Orderly, Shape, SchemaInv, [Next]_vars
  PROVE  SchemaInv'
<1> USE DEF At, Go
<1>0. proc \in [Repo -> AnyProcess] /\ version \in 0 .. Latest
  BY DEF Shape, SchemaInv
<1>1. ASSUME NEW r \in Repo, Open(r) PROVE SchemaInv'
  BY <1>0, <1>1, SchemaFrame DEF Open, AnyProcess
<1>2. ASSUME NEW r \in Repo, Slice(r) PROVE SchemaInv'
  <2> DEFINE w == [proc[r] EXCEPT !.pc = "number", !.from = version]
  <2>1. /\ w.pc = "number" /\ w.from = version /\ w.next = proc[r].next
        /\ UNCHANGED <<version, columns>>
    BY <1>0, <1>2 DEF AnyProcess, Slice, schema
  <2>2. proc' = [proc EXCEPT ![r] = w]
    BY <1>2 DEF Slice
  <2> HIDE DEF w
  <2>3. \A q \in Repo : proc'[q] = IF q = r THEN w ELSE proc[q]
    BY <1>0, <2>2
  <2> QED
    BY <1>0, <2>1, <2>3 DEF SchemaInv, Lone
<1>3. ASSUME NEW r \in Repo, Number(r) PROVE SchemaInv'
  <2> DEFINE w == [proc[r] EXCEPT !.pc = "migrate", !.next = version + 1]
  <2>1. /\ w.pc = "migrate" /\ w.from = proc[r].from /\ w.next = version + 1
        /\ UNCHANGED <<version, columns>>
    BY <1>0, <1>3 DEF AnyProcess, Number, schema
  <2>2. proc' = [proc EXCEPT ![r] = w]
    BY <1>3 DEF Number
  <2> HIDE DEF w
  <2>3. \A q \in Repo : proc'[q] = IF q = r THEN w ELSE proc[q]
    BY <1>0, <2>2
  <2>4. /\ proc[r].pc = "number" /\ proc[r].from \in 0 .. Latest
        /\ Installed <= proc[r].from /\ proc[r].from <= version
        /\ Lone => proc[r].from = version
    BY <1>3 DEF SchemaInv, Number
  <2>5. proc[r].from < version + 1 /\ version + 1 \in 0 .. Latest + 1
    BY <1>0, <2>4
  <2> QED
    BY <1>0, <2>1, <2>3, <2>4, <2>5 DEF SchemaInv, Lone
<1>4. ASSUME NEW r \in Repo, Migrate(r) PROVE SchemaInv'
  BY <1>4, MigrateInv
<1>5. ASSUME NEW r \in Repo, Migrated(r) \/ Seeded(r) \/ Adopt(r) PROVE SchemaInv'
  BY <1>0, <1>5, SchemaFrame DEF Migrated, Seeded, Adopt, AnyProcess
<1>6. ASSUME NEW r \in Repo, Publish(r) \/ Comply(r) PROVE SchemaInv'
  <2>1. /\ UNCHANGED schema
        /\ proc' \in {[proc EXCEPT ![r].pc = "adopt"], [proc EXCEPT ![r] = Down]}
    BY <1>6 DEF Publish, Comply, Fails
  <2>2. CASE proc' = [proc EXCEPT ![r].pc = "adopt"]
    BY <1>0, <2>1, <2>2, SchemaFrame DEF AnyProcess
  <2>3. CASE proc' = [proc EXCEPT ![r] = Down]
    BY <1>0, <2>1, <2>3, SchemaFrame DEF Down
  <2> QED
    BY <2>1, <2>2, <2>3
<1>7. ASSUME NEW r \in Repo, NEW s \in Stem, Seed(r, s) PROVE SchemaInv'
  BY <1>7, SchemaFrame DEF Seed
<1>8. ASSUME NEW r \in Repo, Reload(r) PROVE SchemaInv'
  <2>1. PICK cut \in BOOLEAN :
          proc' = [proc EXCEPT ![r].config = Adopted(r), ![r].cut = cut]
    BY <1>8 DEF Reload
  <2>2. \A q \in Repo : /\ proc'[q].pc = proc[q].pc /\ proc'[q].from = proc[q].from
                        /\ proc'[q].next = proc[q].next
    BY <1>0, <2>1 DEF AnyProcess
  <2> QED
    BY <1>8, <2>2, SchemaFrame DEF Reload
<1>9. ASSUME NEW r \in Repo, Edit(r) PROVE SchemaInv'
  BY <1>9, SchemaFrame DEF Edit
<1>10. ASSUME NEW r \in Repo, Die(r) PROVE SchemaInv'
  BY <1>0, <1>10, SchemaFrame DEF Die, Fails, Down
<1>11. CASE UNCHANGED vars
  BY <1>11, SchemaFrame DEF vars
<1> QED
  BY <1>1, <1>2, <1>3, <1>4, <1>5, <1>6, <1>7, <1>8, <1>9, <1>10, <1>11 DEF Next, Starts

\* The version counts the migrations that the tables have had, whoever applied
\* them and wherever a start was cut off: where all that the file is short of
\* add columns, or one daemon opens the file.  Elsewhere the count may be put
\* back (_migrate of store.py reads it twice, outside of any transaction).
THEOREM Counted ==
  ASSUME Orderly
  PROVE  Spec => []SchemaIsCounted
<1>1. Shape /\ SchemaInv /\ [Next]_vars => (Shape /\ SchemaInv)'
  BY ShapeStep, SchemaStep
<1>2. SchemaInv => SchemaIsCounted
  BY DEF SchemaInv, SchemaIsCounted
<1> QED
  BY <1>1, <1>2, InitShape, SchemaInit, PTL DEF Spec

\* What the bookkeeping bounds, and what is adopted of an older release.
Counters ==
  /\ legacy \in {Legacy, {}}
  /\ edits \in 0 .. MaxEdits /\ deaths \in 0 .. MaxDeaths

LEMMA CountersStep ==
  ASSUME Counters, [Next]_vars
  PROVE  Counters'
<1>1. legacy' \in {Legacy, {}}
  BY DEF Counters, Next, Starts, Open, Slice, Number, Migrate, Migrated, Publish, Comply, Adopt,
     Seed, Seeded, Reload, Edit, Die, vars, water
<1>2. edits' \in {edits, edits + 1} /\ (edits' # edits => edits < MaxEdits)
  BY DEF Counters, Next, Starts, Open, Slice, Number, Migrate, Migrated, Publish, Comply, Adopt,
     Seed, Seeded, Reload, Edit, Die, vars
<1>3. deaths' \in {deaths, deaths + 1} /\ (deaths' # deaths => deaths < MaxDeaths)
  BY DEF Counters, Next, Starts, Open, Slice, Number, Migrate, Migrated, Publish, Comply, Adopt,
     Seed, Seeded, Reload, Edit, Die, vars
<1> QED
  BY <1>1, <1>2, <1>3 DEF Counters

\* The state keeps its shape, under the same condition: a count that is put
\* back may also be numbered past the last migration.
THEOREM Typing ==
  ASSUME Orderly
  PROVE  Spec => []TypeOK
<1>1. Shape /\ SchemaInv /\ LegacyInv /\ Counters /\ [Next]_vars
        => (Shape /\ SchemaInv /\ LegacyInv /\ Counters)'
  BY ShapeStep, SchemaStep, LegacyStep, CountersStep
<1>2. Init => LegacyInv /\ Counters
  BY DownShape DEF Init, LegacyInv, Looked, Counters
<1>3. Shape /\ SchemaInv /\ LegacyInv /\ Counters => TypeOK
  <2> SUFFICES ASSUME Shape, SchemaInv, LegacyInv, Counters PROVE TypeOK
    OBVIOUS
  <2>1. proc \in [Repo -> Process]
    <3>1. ASSUME NEW r \in Repo PROVE proc[r] \in Process
      BY DEF Shape, SchemaInv, AnyProcess, Process, Place
    <3> QED
      BY <3>1 DEF Shape
  <2>2. version \in 0 .. Latest /\ columns \subseteq Adds
    BY DEF SchemaInv
  <2> QED
    BY <2>1, <2>2 DEF TypeOK, Shape, LegacyInv, Counters
<1> QED
  BY <1>1, <1>2, <1>3, InitShape, SchemaInit, PTL DEF Spec
=============================================================================
