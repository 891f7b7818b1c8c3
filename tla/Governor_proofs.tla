-------------------------- MODULE Governor_proofs --------------------------
(***************************************************************************)
(* Proofs about the ledger's reservations, its windows, the pacer and the  *)
(* breaker's recovery, for any triggers, workers, durations and sections.  *)
(***************************************************************************)
EXTENDS Governor, SequenceTheorems, FiniteSetTheorems, WellFoundedInduction, TLAPS

\* A trip counts from where the hold does.
HoldAndTrip == hold > 0 => sinceTrip + hold <= Session

-----------------------------------------------------------------------------
(* Lemmas about the operators.                                             *)

\* A ledger that is rewritten row by row is one of the same length.
LEMMA Rewritten ==
  ASSUME NEW s \in Seq(Row), NEW f \in [DOMAIN s -> Row]
  PROVE  f \in Seq(Row) /\ Len(f) = Len(s) /\ DOMAIN f = DOMAIN s
<1>1. Len(s) \in Nat /\ DOMAIN s = 1 .. Len(s)
  OBVIOUS
<1>2. f \in Seq(Row)
  BY <1>1, SeqDef
<1> QED
  BY <1>1, <1>2

LEMMA SpentRow ==
  ASSUME NEW row \in Row, NEW used \in Nat
  PROVE  /\ Spent(row, used) \in Row
         /\ Spent(row, used).key = row.key /\ Spent(row, used).age = row.age
         /\ Spent(row, used).reserved = row.reserved
         /\ Spent(row, used).settled /\ Spent(row, used).used = used
BY DEF Spent, Row

\* The cost of a call is measured, or nothing, or not known.
LEMMA EndsCosts ==
  \A e \in E!Ends : e.cost \in {"measured", "zero", "unknown"}
<1>1. ASSUME NEW a \in E!Answer
      PROVE  E!Review(a).cost \in {"measured", "zero", "unknown"}
  <2>1. a.exit \in {"zero", "nonzero", "killed"}
    BY DEF E!Answer
  <2>2. E!Failure(a).cost \in {"measured", "zero", "unknown"}
    BY DEF E!Failure, E!Ended
  <2>3. E!Parsed(a).cost \in {"measured", "zero", "unknown"}
    BY DEF E!Parsed, E!Ended
  <2> QED
    BY <2>1, <2>2, <2>3 DEF E!Review, E!Ended
<1> QED
  BY <1>1 DEF E!Ends

LEMMA ChargesAreCosts ==
  ASSUME NEW o \in Owner, run[o].ceiling \in Nat
  PROVE  \A used \in Charges(o) : used \in Nat
<1>1. Costs(run[o].pc = "limited") \subseteq {"measured", "zero", "unknown"}
  BY EndsCosts DEF Costs, E!LimitEnds
<1>2. run[o].ceiling + Overruns \in Nat
  BY BoundsAssumption
<1>3. \A cost \in {"measured", "zero", "unknown"}, used \in {0, run[o].ceiling + Overruns} :
        E!Charged(cost, used, run[o].ceiling) \in Nat
  BY <1>2 DEF E!Charged
<1> QED
  BY <1>1, <1>3 DEF Charges

\* A section's numbers, whoever's they are.
LEMMA EffectiveRun ==
  ASSUME config \in Configs, policy \in Configs
  PROVE  Effective.maxRun \in Nat
BY ConfigsAssumption DEF Effective, Config, Pool

LEMMA CalibrationRange ==
  ASSUME calibrated \in 1..Full, sinceTrip \in Nat
  PROVE  Calibration \in 1..Full /\ Calibration >= calibrated
<1>1. sinceTrip \div Session \in Nat
  BY DurationsAssumption
<1>2. RecoveryPoints * (sinceTrip \div Session) \in Nat
  BY <1>1, BoundsAssumption
<1> QED
  BY <1>2 DEF Calibration, Full

LEMMA DecayRange ==
  ASSUME NEW c \in 1..Full
  PROVE  Decay(c) \in 1..Full
BY DEF Decay, Full

-----------------------------------------------------------------------------
(* Statements of the ledger.                                               *)

\* What is written over an open row closes it, and nothing else is touched.
LEMMA SettledLedger ==
  ASSUME ledger \in Seq(Row), NEW o \in Owner, NEW used \in Nat
  PROVE  /\ Settled(o, used) \in Seq(Row)
         /\ Len(Settled(o, used)) = Len(ledger)
         /\ \A i \in 1 .. Len(ledger) :
              \/ Settled(o, used)[i] = ledger[i]
              \/ /\ Open(i, run[o].key) /\ ledger[i].owner = o
                 /\ Settled(o, used)[i] = Spent(ledger[i], used)
<1>1. \A i \in DOMAIN ledger : ledger[i] \in Row /\ Spent(ledger[i], used) \in Row
  BY SpentRow
<1>2. Settled(o, used) \in [DOMAIN ledger -> Row]
  BY <1>1 DEF Settled, Rows
<1> QED
  BY <1>2, Rewritten DEF Settled, Rows

LEMMA LostLedger ==
  ASSUME ledger \in Seq(Row), NEW k \in Key
  PROVE  /\ Lost(k) \in Seq(Row)
         /\ Len(Lost(k)) = Len(ledger)
         /\ \A i \in 1 .. Len(ledger) :
              Lost(k)[i] = IF Open(i, k) THEN Spent(ledger[i], ledger[i].reserved)
                                         ELSE ledger[i]
<1>1. \A i \in DOMAIN ledger :
        ledger[i] \in Row /\ Spent(ledger[i], ledger[i].reserved) \in Row
  <2> SUFFICES ASSUME NEW i \in DOMAIN ledger
               PROVE  ledger[i] \in Row /\ Spent(ledger[i], ledger[i].reserved) \in Row
    OBVIOUS
  <2>1. ledger[i] \in Row
    OBVIOUS
  <2>2. ledger[i].reserved \in Nat
    BY <2>1 DEF Row
  <2> QED
    BY <2>1, <2>2, SpentRow
<1>2. Lost(k) \in [DOMAIN ledger -> Row]
  BY <1>1 DEF Lost, Rows
<1> QED
  BY <1>2, Rewritten DEF Lost, Rows

\* Time changes ages and nothing else.
LEMMA AgedLedger ==
  ASSUME ledger \in Seq(Row), Tick
  PROVE  /\ ledger' \in Seq(Row) /\ Len(ledger') = Len(ledger)
         /\ \A i \in 1 .. Len(ledger) :
              \E age \in 0..Weekly : ledger'[i] = [ledger[i] EXCEPT !.age = age]
<1> DEFINE Older(row) == [row EXCEPT !.age = IF @ < Weekly THEN @ + 1 ELSE @]
<1>1. ASSUME NEW row \in Row
      PROVE  /\ Older(row) \in Row
             /\ \E age \in 0..Weekly : Older(row) = [row EXCEPT !.age = age]
  <2>1. (IF row.age < Weekly THEN row.age + 1 ELSE row.age) \in 0..Weekly
    BY DurationsAssumption DEF Row
  <2> QED
    BY <2>1 DEF Row
<1>2. ledger' = [i \in DOMAIN ledger |-> Older(ledger[i])]
  BY DEF Tick, Rows
<1>3. \A i \in DOMAIN ledger : ledger[i] \in Row
  OBVIOUS
<1>4. ledger' \in [DOMAIN ledger -> Row]
  BY <1>1, <1>2, <1>3
<1> HIDE DEF Older
<1>5. ledger' \in Seq(Row) /\ Len(ledger') = Len(ledger)
  BY <1>4, Rewritten
<1> QED
  BY <1>1, <1>2, <1>3, <1>5

\* A reservation that follows the closing of the lost ones is the only one.
LEMMA AdmitLedger ==
  ASSUME TypeOK, NEW o \in Owner, NEW k \in Key, Admit(o, k)
  PROVE  /\ ledger' \in Seq(Row) /\ Len(ledger') = Len(ledger) + 1
         /\ \A i \in 1 .. Len(ledger) : ledger'[i] = Lost(k)[i]
         /\ ledger'[Len(ledger) + 1] = Reservation(o, k)
<1>1. Reservation(o, k) \in Row
  BY EffectiveRun, DurationsAssumption DEF Reservation, Row, TypeOK
<1>2. Lost(k) \in Seq(Row) /\ Len(Lost(k)) = Len(ledger)
  BY LostLedger DEF TypeOK
<1>3. ledger' = Append(Lost(k), Reservation(o, k))
  BY DEF Admit
<1> QED
  BY <1>1, <1>2, <1>3, AppendProperties

-----------------------------------------------------------------------------
(* Types.                                                                  *)

LEMMA InitType == Init => TypeOK
<1>1. Idle \in Run
  BY DEF Idle, Run
<1>2. <<>> \in Seq(Row) /\ Len(<<>>) = 0
  BY EmptySeq
<1> QED
  BY <1>1, <1>2, BoundsAssumption, DurationsAssumption DEF Init, TypeOK, Full

\* A step that writes to the ledger as Settled does.
LEMMA SettleType ==
  ASSUME TypeOK, NEW o \in Owner, NEW used \in Nat, Settle(o, used)
  PROVE  TypeOK'
<1>1. Idle \in Run
  BY DEF Idle, Run
<1> QED
  BY <1>1, SettledLedger DEF Settle, breakerVars, TypeOK

LEMMA StepType ==
  ASSUME TypeOK, [Next]_vars
  PROVE  TypeOK'
<1>1. CASE Tick
  <2>1. ledger' \in Seq(Row) /\ Len(ledger') = Len(ledger)
    BY <1>1, AgedLedger DEF TypeOK
  <2>2. hold' \in 0..Session /\ sinceTrip' \in Nat
    BY <1>1, DurationsAssumption DEF Tick, TypeOK
  <2> QED
    BY <1>1, <2>1, <2>2 DEF Tick, TypeOK
<1>2. ASSUME NEW o \in Owner, NEW k \in Key, Admit(o, k) PROVE TypeOK'
  <2>1. ledger' \in Seq(Row) /\ Len(ledger') <= MaxRows
    <3>1. Len(ledger) \in Nat /\ Len(ledger) < MaxRows
      BY <1>2 DEF Admit, TypeOK
    <3>2. ledger' \in Seq(Row) /\ Len(ledger') = Len(ledger) + 1
      BY <1>2, AdmitLedger
    <3> QED
      BY <3>1, <3>2, BoundsAssumption
  <2>2. [Idle EXCEPT !.pc = "claimed", !.key = k] \in Run
    BY DEF Idle, Run
  <2> QED
    BY <1>2, <2>1, <2>2 DEF Admit, breakerVars, TypeOK
<1>3. ASSUME NEW o \in Owner, Attempt(o) PROVE TypeOK'
  <2>1. config.maxRun \in Nat
    BY ConfigsAssumption DEF TypeOK, Config
  <2>2. [run[o] EXCEPT !.pc = "engine", !.ceiling = config.maxRun] \in Run
    BY <2>1 DEF TypeOK, Run
  <2>3. run' = [run EXCEPT ![o] = [run[o] EXCEPT !.pc = "engine", !.ceiling = config.maxRun]]
    BY <1>3 DEF Attempt
  <2> QED
    BY <1>3, <2>2, <2>3 DEF Attempt, breakerVars, TypeOK
<1>4. ASSUME NEW o \in Owner, EndFree(o) PROVE TypeOK'
  BY <1>4, SettleType DEF EndFree
<1>5. ASSUME NEW o \in Owner, EndRun(o) PROVE TypeOK'
  <2>1. run[o].ceiling \in Nat
    BY DEF TypeOK, Run
  <2> QED
    BY <1>5, <2>1, ChargesAreCosts, SettleType DEF EndRun
<1>6. ASSUME NEW o \in Owner, Trip(o) PROVE TypeOK'
  <2>1. calibrated' \in 1..Full
    BY <1>6, CalibrationRange, DecayRange DEF Trip, TypeOK
  <2>2. [run[o] EXCEPT !.pc = "limited"] \in Run
    BY DEF TypeOK, Run
  <2>3. run' = [run EXCEPT ![o] = [run[o] EXCEPT !.pc = "limited"]]
    BY <1>6 DEF Trip
  <2>4. hold' \in 0..Session /\ sinceTrip' \in Nat /\ trips' \in 0..MaxTrips
    BY <1>6, DurationsAssumption, BoundsAssumption DEF Trip, TypeOK
  <2> QED
    BY <1>6, <2>1, <2>2, <2>3, <2>4 DEF Trip, TypeOK
<1>7. ASSUME NEW o \in Owner, Crash(o) PROVE TypeOK'
  <2>1. Idle \in Run
    BY DEF Idle, Run
  <2> QED
    BY <1>7, <2>1 DEF Crash, breakerVars, TypeOK
<1>8. ASSUME NEW c \in Configs, Reload(c) \/ Publish(c) PROVE TypeOK'
  BY <1>8 DEF Reload, Publish, breakerVars, TypeOK
<1>9. CASE UNCHANGED vars
  BY <1>9 DEF vars, TypeOK
<1> QED
  BY <1>1, <1>2, <1>3, <1>4, <1>5, <1>6, <1>7, <1>8, <1>9 DEF Next

\* Every variable keeps its shape: the calibration stays a percentage however
\* it decays and recovers.
THEOREM Typing == Spec => []TypeOK
BY InitType, StepType, PTL DEF Spec

-----------------------------------------------------------------------------
(* One open reservation for a trigger.                                     *)

\* A ledger in which rows are only closed has as few open ones as before.
LEMMA FewerOpen ==
  ASSUME TypeOK, OneOpenReservation, ledger' \in Seq(Row), Len(ledger') = Len(ledger),
         \A i \in 1 .. Len(ledger) :
           /\ ledger'[i].key = ledger[i].key
           /\ ~ledger'[i].settled => ~ledger[i].settled
  PROVE  OneOpenReservation'
<1>1. DOMAIN ledger = 1 .. Len(ledger) /\ DOMAIN ledger' = 1 .. Len(ledger)
  BY DEF TypeOK
<1> QED
  BY <1>1 DEF OneOpenReservation, Rows

LEMMA OneOpenStep ==
  ASSUME TypeOK, OneOpenReservation, [Next]_vars
  PROVE  OneOpenReservation'
<1>0. \A i \in 1 .. Len(ledger) : ledger[i] \in Row
  BY DEF TypeOK
<1>1. CASE Tick
  <2>1. \A i \in 1 .. Len(ledger) :
          ledger'[i].key = ledger[i].key /\ ledger'[i].settled = ledger[i].settled
    BY <1>0, <1>1, AgedLedger DEF TypeOK, Row
  <2> QED
    BY <1>1, <2>1, AgedLedger, FewerOpen DEF TypeOK
<1>2. ASSUME NEW o \in Owner, NEW k \in Key, Admit(o, k) PROVE OneOpenReservation'
  <2>1. \A i \in 1 .. Len(ledger) :
          /\ ledger'[i].key = ledger[i].key
          /\ ~ledger'[i].settled => ~ledger[i].settled
          /\ ledger[i].key = k => ledger'[i].settled
    <3> SUFFICES ASSUME NEW i \in 1 .. Len(ledger)
                 PROVE  /\ ledger'[i].key = ledger[i].key
                        /\ ~ledger'[i].settled => ~ledger[i].settled
                        /\ ledger[i].key = k => ledger'[i].settled
      OBVIOUS
    <3>1. ledger'[i] = IF Open(i, k) THEN Spent(ledger[i], ledger[i].reserved) ELSE ledger[i]
      BY <1>2, AdmitLedger, LostLedger DEF TypeOK
    <3>2. ledger[i].reserved \in Nat
      BY <1>0 DEF Row
    <3>3. CASE Open(i, k)
      <4>1. /\ Spent(ledger[i], ledger[i].reserved).key = ledger[i].key
            /\ Spent(ledger[i], ledger[i].reserved).settled
        BY <1>0, <3>2, SpentRow
      <4> QED
        BY <3>1, <3>3, <4>1
    <3>4. CASE ~Open(i, k)
      BY <3>1, <3>4 DEF Open
    <3> QED
      BY <3>3, <3>4
  <2>2. ledger'[Len(ledger) + 1].key = k
    <3>1. ledger'[Len(ledger) + 1] = Reservation(o, k)
      BY <1>2, AdmitLedger
    <3> QED
      BY <3>1 DEF Reservation
  <2>3. /\ DOMAIN ledger' = 1 .. (Len(ledger) + 1)
        /\ DOMAIN ledger = 1 .. Len(ledger) /\ Len(ledger) \in Nat
    BY <1>2, AdmitLedger DEF TypeOK
  <2>4. ASSUME NEW i \in Rows', NEW j \in Rows', ledger'[i].key = ledger'[j].key,
               ~ledger'[i].settled, ~ledger'[j].settled, i # j
        PROVE  FALSE
    <3>1. CASE i = Len(ledger) + 1
      BY <2>1, <2>2, <2>3, <2>4, <3>1 DEF Rows
    <3>2. CASE j = Len(ledger) + 1
      BY <2>1, <2>2, <2>3, <2>4, <3>2 DEF Rows
    <3>3. CASE i # Len(ledger) + 1 /\ j # Len(ledger) + 1
      <4>1. i \in Rows /\ j \in Rows
        BY <2>3, <3>3 DEF Rows
      <4> QED
        BY <2>1, <2>3, <2>4, <4>1 DEF OneOpenReservation, Rows
    <3> QED
      BY <3>1, <3>2, <3>3
  <2> QED
    BY <2>4 DEF OneOpenReservation
<1>3. ASSUME NEW o \in Owner, NEW used \in Nat, Settle(o, used) PROVE OneOpenReservation'
  <2>1. \A i \in 1 .. Len(ledger) :
          /\ ledger'[i].key = ledger[i].key
          /\ ~ledger'[i].settled => ~ledger[i].settled
    <3> SUFFICES ASSUME NEW i \in 1 .. Len(ledger)
                 PROVE  /\ ledger'[i].key = ledger[i].key
                        /\ ~ledger'[i].settled => ~ledger[i].settled
      OBVIOUS
    <3>1. \/ ledger'[i] = ledger[i]
          \/ Open(i, run[o].key) /\ ledger'[i] = Spent(ledger[i], used)
      BY <1>3, SettledLedger DEF Settle, TypeOK
    <3>2. CASE ledger'[i] = ledger[i]
      BY <3>2
    <3>3. CASE ledger'[i] = Spent(ledger[i], used)
      <4>1. Spent(ledger[i], used).key = ledger[i].key /\ Spent(ledger[i], used).settled
        BY <1>0, SpentRow
      <4> QED
        BY <3>3, <4>1
    <3> QED
      BY <3>1, <3>2, <3>3
  <2> QED
    BY <1>3, <2>1, SettledLedger, FewerOpen DEF Settle, TypeOK
<1>4. ASSUME NEW o \in Owner, EndFree(o) \/ EndRun(o) PROVE OneOpenReservation'
  <2>1. run[o].ceiling \in Nat
    BY DEF TypeOK, Run
  <2> QED
    BY <1>3, <1>4, <2>1, ChargesAreCosts DEF EndFree, EndRun
<1>5. ASSUME UNCHANGED ledger PROVE OneOpenReservation'
  BY <1>5 DEF OneOpenReservation, Rows
<1> QED
  BY <1>1, <1>2, <1>4, <1>5
     DEF Next, Attempt, Trip, Crash, Reload, Publish, vars

\* The insertion of an admission never meets the ledger_open index: _SETTLE_LOST
\* of budget.py is run before _RESERVE, in one transaction.
THEOREM OneOpen == Spec => []OneOpenReservation
<1>1. Init => OneOpenReservation
  BY EmptySeq DEF Init, OneOpenReservation, Rows
<1>2. TypeOK /\ OneOpenReservation /\ [Next]_vars => OneOpenReservation'
  BY OneOpenStep
<1> QED
  BY <1>1, <1>2, Typing, PTL DEF Spec

-----------------------------------------------------------------------------
(* The breaker.                                                            *)

\* No period has passed since the trip while the hold lasts.
THEOREM HeldBack == Spec => []NoRecoveryWhileTripped
<1>1. Init => HoldAndTrip
  BY DEF Init, HoldAndTrip
<1>2. TypeOK /\ HoldAndTrip /\ [Next]_vars => HoldAndTrip'
  <2> SUFFICES ASSUME TypeOK, HoldAndTrip, [Next]_vars PROVE HoldAndTrip'
    OBVIOUS
  <2>1. CASE Tick
    BY <2>1, DurationsAssumption DEF Tick, HoldAndTrip, TypeOK
  <2>2. ASSUME NEW o \in Owner, Trip(o) PROVE HoldAndTrip'
    BY <2>2, DurationsAssumption DEF Trip, HoldAndTrip
  <2>3. ASSUME UNCHANGED <<hold, sinceTrip>> PROVE HoldAndTrip'
    BY <2>3 DEF HoldAndTrip
  <2> QED
    BY <2>1, <2>2, <2>3
       DEF Next, Admit, Attempt, EndFree, EndRun, Settle, Crash, Reload, Publish,
           breakerVars, vars
<1>3. TypeOK /\ HoldAndTrip => NoRecoveryWhileTripped
  <2> SUFFICES ASSUME TypeOK, HoldAndTrip, hold > 0 PROVE Calibration = calibrated
    BY DEF NoRecoveryWhileTripped
  <2>1. sinceTrip \in 0 .. (Session - 1)
    BY DurationsAssumption DEF TypeOK, HoldAndTrip
  <2>2. sinceTrip \div Session = 0
    BY <2>1, DurationsAssumption
  <2>3. RecoveryPoints * (sinceTrip \div Session) = 0
    BY <2>2, BoundsAssumption
  <2> QED
    BY <2>3 DEF Calibration, TypeOK, Full
<1> QED
  BY <1>1, <1>2, <1>3, Typing, PTL DEF Spec

-----------------------------------------------------------------------------
(* Charges.                                                                *)

\* A reservation is charged once, by its own worker or as lost.
THEOREM SingleCharge == Spec => ChargedOnce
<1> DEFINE Step(i) ==
       LET row == ledger[i]
           row2 == ledger'[i]
       IN IF row.settled THEN [row2 EXCEPT !.age = row.age] = row
          ELSE row2.settled =>
                 \/ run[row.owner].key = row.key /\ run'[row.owner] = Idle
                 \/ row2.used = row.reserved /\ Len(ledger') > Len(ledger)
<1>1. ASSUME TypeOK, [Next]_vars, NEW i \in Rows
      PROVE  Step(i)
  <2>0. i \in 1 .. Len(ledger) /\ ledger[i] \in Row /\ Len(ledger) \in Nat
    BY <1>1 DEF Rows, TypeOK
  <2>1. CASE Tick
    BY <1>1, <2>0, <2>1, AgedLedger DEF TypeOK, Row
  <2>2. ASSUME NEW o \in Owner, NEW k \in Key, Admit(o, k) PROVE Step(i)
    <3>1. ledger'[i] = Lost(k)[i] /\ Len(ledger') = Len(ledger) + 1
      BY <1>1, <2>0, <2>2, AdmitLedger
    <3>2. CASE Open(i, k)
      <4>1. ledger'[i] = Spent(ledger[i], ledger[i].reserved)
        BY <1>1, <2>0, <3>1, <3>2, LostLedger DEF TypeOK
      <4>2. ledger'[i].used = ledger[i].reserved
        BY <4>1 DEF Spent, Row
      <4>3. Len(ledger') > Len(ledger) /\ ~ledger[i].settled
        BY <2>0, <3>1, <3>2 DEF Open
      <4> QED
        BY <4>2, <4>3
    <3>3. CASE ~Open(i, k)
      BY <1>1, <2>0, <3>1, <3>3, LostLedger DEF TypeOK, Row
    <3> QED
      BY <3>2, <3>3
  <2>3. ASSUME NEW o \in Owner, NEW used \in Nat, Settle(o, used) PROVE Step(i)
    <3>1. CASE ledger'[i] = ledger[i]
      BY <2>0, <3>1 DEF Row
    <3>2. CASE Open(i, run[o].key) /\ ledger[i].owner = o
      BY <1>1, <2>0, <2>3, <3>2 DEF Open, Settle, TypeOK
    <3> QED
      BY <1>1, <2>0, <2>3, <3>1, <3>2, SettledLedger DEF Settle, TypeOK
  <2>4. ASSUME NEW o \in Owner, EndFree(o) \/ EndRun(o) PROVE Step(i)
    <3>1. run[o].ceiling \in Nat
      BY <1>1 DEF TypeOK, Run
    <3> QED
      BY <2>3, <2>4, <3>1, ChargesAreCosts DEF EndFree, EndRun
  <2>5. ASSUME UNCHANGED ledger PROVE Step(i)
    BY <2>0, <2>5 DEF Row
  <2> QED
    BY <1>1, <2>1, <2>2, <2>4, <2>5
       DEF Next, Attempt, Trip, Crash, Reload, Publish, vars
<1>2. TypeOK /\ [Next]_vars => [\A i \in Rows : Step(i)]_vars
  BY <1>1
<1> QED
  BY <1>2, Typing, PTL DEF Spec, ChargedOnce

-----------------------------------------------------------------------------
(* Least and greatest numbers.                                             *)

\* A set of numbers that is not empty has a least one.
LEMMA Least ==
  ASSUME NEW S \in SUBSET Nat, S # {}
  PROVE  \E n \in S : \A m \in S : n <= m
<1> DEFINE Before == OpToRel(<, Nat)
<1>1. IsWellFoundedOn(Before, Nat) BY NatLessThanWellFounded
<1>2. \A m, n \in Nat : m < n => <<m, n>> \in Before BY DEF OpToRel
<1> HIDE DEF Before
<1>3. PICK n \in S : \A m \in S : <<m, n>> \notin Before BY <1>1, WFMin
<1>4. \A m \in S : ~ (m < n) BY <1>2, <1>3, Zenon
<1> QED BY <1>4

\* One that has a bound has a greatest one.
LEMMA Greatest ==
  ASSUME NEW S \in SUBSET Nat, S # {}, NEW b \in Nat, \A m \in S : m <= b
  PROVE  \E n \in S : \A m \in S : m <= n
<1> DEFINE B == {c \in Nat : \A m \in S : m <= c}
<1>1. PICK c \in B : \A d \in B : c <= d
  <2>1. B \in SUBSET Nat /\ b \in B OBVIOUS
  <2> HIDE DEF B
  <2> QED BY <2>1, Least
<1>2. CASE c = 0
  <2>1. PICK m \in S : TRUE OBVIOUS
  <2>2. m = 0 /\ \A k \in S : k <= 0 BY <1>1, <1>2, <2>1
  <2> QED BY <2>1, <2>2
<1>3. CASE c # 0
  <2>1. c - 1 \in Nat /\ c - 1 \notin B BY <1>1, <1>3
  <2>2. PICK m \in S : ~(m <= c - 1) BY <2>1
  <2>3. m = c BY <2>2, <1>1
  <2> QED BY <2>3, <1>1
<1> QED BY <1>2, <1>3

\* A sequence of numbers has a bound.
LEMMA SequenceBounded ==
  ASSUME NEW n \in Nat, NEW f \in [1 .. n -> Nat]
  PROVE  \E b \in Nat : \A i \in 1 .. n : f[i] <= b
<1> DEFINE Below(k) == \E b \in Nat : \A i \in 1 .. k : f[i] <= b
           Without == {k \in 0 .. n : ~Below(k)}
<1>1. Below(0)
  <2>1. \A i \in 1 .. 0 : f[i] <= 0 OBVIOUS
  <2> QED BY <2>1
<1>2. ASSUME NEW k \in 1 .. n, Below(k - 1) PROVE Below(k)
  <2>1. PICK b \in Nat : \A i \in 1 .. k - 1 : f[i] <= b BY <1>2
  <2>2. f[k] \in Nat OBVIOUS
  <2>3. \A i \in 1 .. k : f[i] <= b + f[k]
    <3> TAKE i \in 1 .. k
    <3>1. CASE i = k BY <3>1, <2>2
    <3>2. CASE i # k
      <4>1. i \in 1 .. k - 1 /\ i \in 1 .. n BY <3>2
      <4>2. f[i] <= b /\ f[i] \in Nat BY <4>1, <2>1
      <4> QED BY <4>2, <2>2
    <3> QED BY <3>1, <3>2
  <2>4. b + f[k] \in Nat BY <2>2
  <2> QED BY <2>3, <2>4
<1> HIDE DEF Below
<1>3. Without = {}
  <2> SUFFICES ASSUME Without # {} PROVE FALSE OBVIOUS
  <2>1. PICK k \in Without : \A j \in Without : k <= j
    <3>1. Without \in SUBSET Nat OBVIOUS
    <3> HIDE DEF Without
    <3> QED BY <3>1, Least
  <2>2. k \in 1 .. n /\ k - 1 \in 0 .. n /\ ~(k <= k - 1) BY <1>1, <2>1
  <2> QED BY <1>2, <2>1, <2>2
<1>4. Below(n) BY <1>3
<1> QED BY <1>4 DEF Below

\* A finite set of numbers has a bound.
LEMMA FiniteBounded ==
  ASSUME NEW S \in SUBSET Nat, IsFiniteSet(S)
  PROVE  \E b \in Nat : \A m \in S : m <= b
<1> DEFINE n == Cardinality(S)
<1>0. n \in Nat /\ ExistsBijection(1 .. n, S) BY FS_CardinalityType
<1> HIDE DEF n
<1>1. PICK f \in [1 .. n -> S] : \A x \in S : \E i \in 1 .. n : f[i] = x
  BY <1>0 DEF ExistsBijection, Bijection, Surjection
<1>2. f \in [1 .. n -> Nat] OBVIOUS
<1>3. PICK b \in Nat : \A i \in 1 .. n : f[i] <= b BY <1>0, <1>2, SequenceBounded
<1> QED BY <1>1, <1>3

LEMMA MinIs ==
  ASSUME NEW S \in SUBSET Nat, S # {}
  PROVE  Min(S) \in S /\ \A m \in S : Min(S) <= m
<1>1. \E n \in S : \A m \in S : n <= m BY Least
<1> QED BY <1>1, Zenon DEF Min

LEMMA MaxIs ==
  ASSUME NEW S \in SUBSET Nat, S # {}, IsFiniteSet(S)
  PROVE  Max(S) \in S /\ \A m \in S : m <= Max(S)
<1>1. \E n \in S : \A m \in S : m <= n
  BY FiniteBounded, Greatest
<1>2. \E n \in S : \A m \in S : n >= m BY <1>1
<1>3. Max(S) \in S /\ \A m \in S : Max(S) >= m BY <1>2, Zenon DEF Max
<1> DEFINE n == Max(S)
<1> HIDE DEF n
<1>4. n \in S /\ \A m \in S : m <= n BY <1>3 DEF n
<1> QED BY <1>4 DEF n

-----------------------------------------------------------------------------
(* Sums.                                                                   *)

\* The running sums of a column, up to a row.
Running(s, column, n) ==
  s = [m \in 0 .. n |-> IF m = 0 THEN 0 ELSE s[m - 1] + column[m]]

LEMMA RunningAt ==
  ASSUME NEW column, NEW n \in Nat, NEW s, Running(s, column, n)
  PROVE  /\ s[0] = 0
         /\ \A m \in 1 .. n : s[m] = s[m - 1] + column[m]
<1>1. 0 \in 0 .. n /\ \A m \in 1 .. n : m \in 0 .. n /\ m # 0
  OBVIOUS
<1>2. \A m \in 0 .. n : s[m] = IF m = 0 THEN 0 ELSE s[m - 1] + column[m]
  BY Zenon DEF Running
<1> QED
  BY <1>1, <1>2

LEMMA RunningExists ==
  ASSUME NEW column, NEW n \in Nat
  PROVE  \E s : Running(s, column, n)
<1> DEFINE Without == {m \in Nat : ~ \E s : Running(s, column, m)}
<1> SUFFICES ASSUME Without # {} PROVE FALSE
  BY Zenon
<1>1. PICK m \in Without : \A k \in Without : m <= k
  <2>1. Without \in SUBSET Nat OBVIOUS
  <2> HIDE DEF Without
  <2> QED BY <2>1, Least
<1>2. CASE m = 0
  <2> DEFINE s == [k \in 0 .. 0 |-> 0]
  <2>1. s = [k \in 0 .. 0 |-> IF k = 0 THEN 0 ELSE s[k - 1] + column[k]] OBVIOUS
  <2>2. Running(s, column, 0) BY <2>1 DEF Running
  <2> QED BY <1>1, <1>2, <2>2
<1>3. CASE m # 0
  <2>1. m \in Nat /\ m - 1 \in Nat /\ ~(m <= m - 1) BY <1>1, <1>3
  <2>2. m - 1 \notin Without
    <3> HIDE DEF Without
    <3> QED BY <1>1, <2>1
  <2>3. PICK r : Running(r, column, m - 1) BY <2>1, <2>2
  <2> DEFINE s == [k \in 0 .. m |-> IF k = 0 THEN 0 ELSE r[k - 1] + column[k]]
  <2>4. ASSUME NEW k \in 0 .. m, k # 0
        PROVE  r[k - 1] = s[k - 1]
    <3>1. k - 1 \in 0 .. m - 1 /\ k - 1 \in 0 .. m BY <2>1, <2>4
    <3>2. r[k - 1] = IF k - 1 = 0 THEN 0 ELSE r[k - 1 - 1] + column[k - 1]
      BY <2>3, <3>1, Zenon DEF Running
    <3>3. s[k - 1] = IF k - 1 = 0 THEN 0 ELSE r[k - 1 - 1] + column[k - 1]
      BY <3>1, Zenon
    <3> QED BY <3>2, <3>3
  <2>5. s = [k \in 0 .. m |-> IF k = 0 THEN 0 ELSE s[k - 1] + column[k]]
    <3>1. \A k \in 0 .. m :
            (IF k = 0 THEN 0 ELSE r[k - 1] + column[k])
              = (IF k = 0 THEN 0 ELSE s[k - 1] + column[k])
      <4> HIDE DEF s
      <4> QED BY <2>4
    <3>2. PICK u : u = s OBVIOUS
    <3>3. u = [k \in 0 .. m |-> IF k = 0 THEN 0 ELSE u[k - 1] + column[k]]
      BY <3>1, <3>2
    <3> QED BY <3>2, <3>3
  <2> HIDE DEF s
  <2>6. Running(s, column, m) BY <2>5 DEF Running
  <2> QED BY <1>1, <2>6
<1> QED BY <1>2, <1>3

LEMMA RunningAgree ==
  ASSUME NEW column, NEW m \in Nat, NEW n \in Nat, m <= n,
         NEW r, Running(r, column, m), NEW s, Running(s, column, n)
  PROVE  r[m] = s[m]
<1> DEFINE Wrong == {k \in 0 .. m : r[k] # s[k]}
<1>1. Wrong = {}
  <2> SUFFICES ASSUME Wrong # {} PROVE FALSE OBVIOUS
  <2>1. PICK k \in Wrong : \A j \in Wrong : k <= j
    <3>1. Wrong \in SUBSET Nat OBVIOUS
    <3> HIDE DEF Wrong
    <3> QED BY <3>1, Least
  <2>2. k # 0 BY <2>1, RunningAt
  <2>3. k \in 1 .. m /\ k \in 1 .. n /\ k - 1 \in 0 .. m /\ k - 1 \notin Wrong
    BY <2>1, <2>2
  <2>4. r[k] = r[k - 1] + column[k] /\ s[k] = s[k - 1] + column[k] BY <2>3, RunningAt
  <2> QED BY <2>1, <2>3, <2>4
<1>2. m \in 0 .. m OBVIOUS
<1> QED BY <1>1, <1>2

\* The function that Total names exists.
LEMMA SumsExist ==
  ASSUME NEW column
  PROVE  \E s : s = [m \in Nat |-> IF m = 0 THEN 0 ELSE s[m - 1] + column[m]]
<1> DEFINE Upto(m) == CHOOSE r : Running(r, column, m)
           s == [m \in Nat |-> Upto(m)[m]]
<1>1. \A m \in Nat : Running(Upto(m), column, m)
  BY RunningExists, Zenon
<1> HIDE DEF Upto
<1>2. \A m \in Nat : s[m] = Upto(m)[m]
  BY Zenon
<1>3. s[0] = 0
  BY <1>1, <1>2, RunningAt
<1>4. ASSUME NEW m \in Nat, m # 0
      PROVE  s[m] = s[m - 1] + column[m]
  <2>1. m - 1 \in Nat /\ m - 1 <= m /\ m \in 1 .. m BY <1>4
  <2>2. Upto(m)[m] = Upto(m)[m - 1] + column[m] BY <1>1, <2>1, RunningAt
  <2>3. Upto(m - 1)[m - 1] = Upto(m)[m - 1] BY <1>1, <2>1, RunningAgree
  <2>4. s[m] = Upto(m)[m] /\ s[m - 1] = Upto(m - 1)[m - 1] BY <1>2, <2>1
  <2> QED BY <2>2, <2>3, <2>4
<1>5. PICK u : u = s
  OBVIOUS
<1>6. u = [m \in Nat |-> u[m]]
  BY <1>5
<1> HIDE DEF s
<1>7. \A m \in Nat : u[m] = IF m = 0 THEN 0 ELSE u[m - 1] + column[m]
  BY <1>3, <1>4, <1>5
<1>8. u = [m \in Nat |-> IF m = 0 THEN 0 ELSE u[m - 1] + column[m]]
  BY <1>6, <1>7
<1> QED
  BY <1>8

\* Total is the last of the running sums.
LEMMA TotalIs ==
  ASSUME NEW n \in Nat, NEW column \in [1 .. n -> Nat]
  PROVE  \E s \in [0 .. n -> Nat] :
           /\ s[0] = 0 /\ Total(column) = s[n]
           /\ \A m \in 1 .. n : s[m] = s[m - 1] + column[m]
<1> DEFINE P(s) == s = [m \in Nat |-> IF m = 0 THEN 0 ELSE s[m - 1] + column[m]]
           sum == CHOOSE s : P(s)
           Wrong == {m \in 0 .. n : sum[m] \notin Nat}
           part == [m \in 0 .. n |-> sum[m]]
<1>1. Len(column) = n OBVIOUS
<1>2. Total(column) = sum[n]
  BY <1>1 DEF Total
<1>3. P(sum) BY SumsExist, Zenon
<1> HIDE DEF sum
<1>4. /\ sum[0] = 0
      /\ \A m \in 1 .. n : sum[m] = sum[m - 1] + column[m]
  <2>1. \A m \in Nat : sum[m] = IF m = 0 THEN 0 ELSE sum[m - 1] + column[m]
    BY <1>3, Zenon
  <2>2. \A m \in 1 .. n : m \in Nat /\ m # 0 OBVIOUS
  <2> QED BY <2>1, <2>2
<1>5. Wrong = {}
  <2> SUFFICES ASSUME Wrong # {} PROVE FALSE OBVIOUS
  <2>1. PICK m \in Wrong : \A k \in Wrong : m <= k
    <3>1. Wrong \in SUBSET Nat OBVIOUS
    <3> HIDE DEF Wrong
    <3> QED BY <3>1, Least
  <2>2. m # 0 BY <2>1, <1>4
  <2>3. m \in 1 .. n /\ m - 1 \in 0 .. n /\ m - 1 \notin Wrong BY <2>1, <2>2
  <2>4. sum[m - 1] \in Nat /\ sum[m] = sum[m - 1] + column[m] /\ column[m] \in Nat
    BY <2>3, <1>4
  <2> QED BY <2>1, <2>4
<1>6. part \in [0 .. n -> Nat] BY <1>5
<1>7. \A m \in 0 .. n : part[m] = sum[m] OBVIOUS
<1>8. \A m \in 1 .. n : m \in 0 .. n /\ m - 1 \in 0 .. n OBVIOUS
<1>9. 0 \in 0 .. n /\ n \in 0 .. n OBVIOUS
<1> HIDE DEF part
<1>10. /\ part[0] = 0 /\ Total(column) = part[n]
       /\ \A m \in 1 .. n : part[m] = part[m - 1] + column[m]
  BY <1>2, <1>4, <1>7, <1>8, <1>9
<1> QED BY <1>6, <1>10

\* A column that is nowhere greater has no greater sum.
LEMMA TotalGrows ==
  ASSUME NEW n \in Nat, NEW c \in [1 .. n -> Nat], NEW d \in [1 .. n -> Nat],
         \A i \in 1 .. n : c[i] <= d[i]
  PROVE  Total(c) <= Total(d) /\ Total(c) \in Nat
<1>1. PICK s \in [0 .. n -> Nat] :
        /\ s[0] = 0 /\ Total(c) = s[n]
        /\ \A m \in 1 .. n : s[m] = s[m - 1] + c[m]
  BY TotalIs
<1>2. PICK r \in [0 .. n -> Nat] :
        /\ r[0] = 0 /\ Total(d) = r[n]
        /\ \A m \in 1 .. n : r[m] = r[m - 1] + d[m]
  BY TotalIs
<1> DEFINE Wrong == {m \in 0 .. n : ~(s[m] <= r[m])}
<1>3. Wrong = {}
  <2> SUFFICES ASSUME Wrong # {} PROVE FALSE OBVIOUS
  <2>1. PICK m \in Wrong : \A k \in Wrong : m <= k
    <3>1. Wrong \in SUBSET Nat OBVIOUS
    <3> HIDE DEF Wrong
    <3> QED BY <3>1, Least
  <2>2. m # 0 BY <2>1, <1>1, <1>2
  <2>3. m \in 1 .. n /\ m - 1 \in 0 .. n /\ m - 1 \notin Wrong BY <2>1, <2>2
  <2>4. s[m - 1] <= r[m - 1] BY <2>3
  <2>5. s[m] = s[m - 1] + c[m] BY <2>3, <1>1
  <2>6. r[m] = r[m - 1] + d[m] BY <2>3, <1>2
  <2>7. /\ c[m] <= d[m] /\ c[m] \in Nat /\ d[m] \in Nat
        /\ s[m - 1] \in Nat /\ r[m - 1] \in Nat
    BY <2>3
  <2>8. \A a, b, x, y \in Nat : a <= b /\ x <= y => a + x <= b + y OBVIOUS
  <2>9. s[m] <= r[m]
    <3> HIDE DEF Wrong
    <3> QED BY <2>4, <2>5, <2>6, <2>7, <2>8
  <2> QED BY <2>1, <2>9
<1>4. n \in 0 .. n OBVIOUS
<1> QED BY <1>1, <1>2, <1>3, <1>4

\* A row more adds what it is charged.
LEMMA TotalAppended ==
  ASSUME NEW n \in Nat, NEW c \in [1 .. n -> Nat], NEW d \in [1 .. n + 1 -> Nat],
         \A i \in 1 .. n : d[i] <= c[i]
  PROVE  Total(d) <= Total(c) + d[n + 1] /\ Total(d) \in Nat
<1> DEFINE e == [i \in 1 .. n |-> d[i]]
<1>1. e \in [1 .. n -> Nat] /\ n + 1 \in Nat OBVIOUS
<1>2. PICK r \in [0 .. n + 1 -> Nat] :
        /\ r[0] = 0 /\ Total(d) = r[n + 1]
        /\ \A m \in 1 .. n + 1 : r[m] = r[m - 1] + d[m]
  BY <1>1, TotalIs
<1>3. PICK s \in [0 .. n -> Nat] :
        /\ s[0] = 0 /\ Total(e) = s[n]
        /\ \A m \in 1 .. n : s[m] = s[m - 1] + e[m]
  BY <1>1, TotalIs
<1> DEFINE Wrong == {m \in 0 .. n : s[m] # r[m]}
<1>4. Wrong = {}
  <2> SUFFICES ASSUME Wrong # {} PROVE FALSE OBVIOUS
  <2>1. PICK m \in Wrong : \A k \in Wrong : m <= k
    <3>1. Wrong \in SUBSET Nat OBVIOUS
    <3> HIDE DEF Wrong
    <3> QED BY <3>1, Least
  <2>2. m # 0 BY <2>1, <1>2, <1>3
  <2>3. m \in 1 .. n /\ m - 1 \in 0 .. n /\ m - 1 \notin Wrong /\ m \in 1 .. n + 1
    BY <2>1, <2>2
  <2>4. s[m - 1] = r[m - 1] /\ s[m] = s[m - 1] + d[m] /\ r[m] = r[m - 1] + d[m]
    BY <2>3, <1>2, <1>3
  <2> QED BY <2>1, <2>4
<1>5. n \in 0 .. n /\ n + 1 \in 1 .. n + 1 OBVIOUS
<1>6. r[n + 1] = r[n] + d[n + 1] BY <1>2, <1>5
<1>7. r[n] = s[n] BY <1>4, <1>5
<1>8. Total(e) <= Total(c) /\ Total(e) \in Nat
  <2>1. \A i \in 1 .. n : e[i] <= c[i] OBVIOUS
  <2> HIDE DEF e
  <2> QED BY <1>1, <2>1, TotalGrows
<1>9. Total(c) \in Nat
  <2>1. \A i \in 1 .. n : c[i] <= c[i] OBVIOUS
  <2> QED BY <2>1, TotalGrows
<1>10. d[n + 1] \in Nat BY <1>5
<1> QED BY <1>2, <1>3, <1>6, <1>7, <1>8, <1>9, <1>10

-----------------------------------------------------------------------------
(* The pacer.                                                              *)

\* The interval a section asks for ahead of a trigger.
Interval(k, c) == IF k \in Mentions THEN c.mentionInterval ELSE c.interval

\* What KeepsItsPace says, of any ledger.
Apart(rows) ==
  \A i, j \in DOMAIN rows :
    /\ i < j /\ rows[i].age < Weekly
    /\ PullOf[rows[i].key] = PullOf[rows[j].key]
    => rows[i].age - rows[j].age >= Min({Interval(rows[j].key, c) : c \in Configs})

Today(rows, k) ==
  {i \in DOMAIN rows : PullOf[rows[i].key] = PullOf[k] /\ rows[i].age < Daily}

Capped(rows) ==
  \A k \in Key : Cardinality(Today(rows, k)) <= Max({c.cap : c \in Configs})

LEMMA PaceIs == KeepsItsPace <=> Apart(ledger) /\ Capped(ledger)
<1>1. \A k \in Key : {i \in OfPull(k) : ledger[i].age < Daily} = Today(ledger, k)
  BY DEF OfPull, Rows, Today
<1> QED
  BY <1>1, Zenon DEF KeepsItsPace, Apart, Capped, Interval, Rows

\* The settings of finitely many sections are finitely many.
LEMMA FiniteSettings ==
  ASSUME NEW f \in DOMAIN [session |-> 0, daily |-> 0, weekly |-> 0, contributor |-> 0,
                           cap |-> 0]
  PROVE  {c[f] : c \in Configs} \in SUBSET Nat /\ IsFiniteSet({c[f] : c \in Configs})
<1> DEFINE T == {c[f] : c \in Configs}
           g == [c \in Configs |-> c[f]]
<1>1. T \in SUBSET Nat
  BY ConfigsAssumption DEF Config
<1>2. g \in Surjection(Configs, T)
  BY DEF Surjection
<1>3. IsFiniteSet(Configs)
  BY ConfigsAssumption
<1> HIDE DEF T, g
<1>4. IsFiniteSet(T)
  BY <1>2, <1>3, FS_Surjection
<1> QED
  BY <1>1, <1>4 DEF T

LEMMA LargestCap ==
  ASSUME NEW c \in Configs
  PROVE  c.cap \in Nat /\ c.cap <= Max({d.cap : d \in Configs})
         /\ Max({d.cap : d \in Configs}) \in Nat
<1> DEFINE T == {d.cap : d \in Configs}
<1>1. T \in SUBSET Nat /\ IsFiniteSet(T) /\ T # {}
  BY FiniteSettings
<1>2. c.cap \in T
  OBVIOUS
<1> HIDE DEF T
<1>3. Max(T) \in T /\ c.cap <= Max(T)
  BY <1>1, <1>2, MaxIs
<1>4. Max(T) \in Nat /\ c.cap \in Nat
  BY <1>1, <1>2, <1>3
<1> QED
  BY <1>3, <1>4 DEF T

LEMMA ShortestInterval ==
  ASSUME NEW c \in Configs, NEW k \in Key
  PROVE  /\ Interval(k, c) \in Nat /\ Min({Interval(k, d) : d \in Configs}) \in Nat
         /\ Min({Interval(k, d) : d \in Configs}) <= Interval(k, c)
<1> DEFINE T == {Interval(k, d) : d \in Configs}
<1>1. \A d \in Configs : Interval(k, d) \in Nat
  BY ConfigsAssumption DEF Config, Interval
<1>2. T \in SUBSET Nat /\ Interval(k, c) \in T
  BY <1>1
<1> HIDE DEF T
<1>3. Min(T) \in T /\ Min(T) <= Interval(k, c)
  BY <1>2, MinIs
<1> QED
  BY <1>1, <1>2, <1>3 DEF T

\* The pacing is the daemon's own, whoever publishes the pool.
LEMMA EffectivePace ==
  ASSUME config \in Configs, policy \in Configs
  PROVE  /\ Effective.cap = config.cap /\ Effective.interval = config.interval
         /\ Effective.mentionInterval = config.mentionInterval
BY ConfigsAssumption DEF Effective, Config, Pool

LEMMA TodayFinite ==
  ASSUME NEW rows \in Seq(Row), NEW k \in Key
  PROVE  IsFiniteSet(Today(rows, k)) /\ Cardinality(Today(rows, k)) \in Nat
<1>1. Len(rows) \in Nat /\ DOMAIN rows = 1 .. Len(rows)
  OBVIOUS
<1>2. IsFiniteSet(1 .. Len(rows))
  BY <1>1, FS_Interval
<1>3. Today(rows, k) \in SUBSET (1 .. Len(rows))
  BY <1>1 DEF Today
<1>4. IsFiniteSet(Today(rows, k))
  BY <1>2, <1>3, FS_Subset
<1> QED
  BY <1>4, FS_CardinalityType

\* Rows that keep their triggers and their ages keep their pace.
LEMMA SamePace ==
  ASSUME NEW rows \in Seq(Row), NEW rows2 \in Seq(Row), Len(rows2) = Len(rows),
         \A i \in 1 .. Len(rows) : rows2[i].key = rows[i].key /\ rows2[i].age = rows[i].age
  PROVE  /\ Apart(rows) => Apart(rows2)
         /\ \A k \in Key : Today(rows2, k) = Today(rows, k)
<1>1. DOMAIN rows = 1 .. Len(rows) /\ DOMAIN rows2 = 1 .. Len(rows)
  OBVIOUS
<1>2. ASSUME Apart(rows), NEW i \in 1 .. Len(rows), NEW j \in 1 .. Len(rows),
             i < j, rows2[i].age < Weekly, PullOf[rows2[i].key] = PullOf[rows2[j].key]
      PROVE  rows2[i].age - rows2[j].age
               >= Min({Interval(rows2[j].key, c) : c \in Configs})
  <2>1. /\ rows2[i].key = rows[i].key /\ rows2[i].age = rows[i].age
        /\ rows2[j].key = rows[j].key /\ rows2[j].age = rows[j].age
    OBVIOUS
  <2>2. rows[i].age - rows[j].age >= Min({Interval(rows[j].key, c) : c \in Configs})
    BY <1>1, <1>2, <2>1 DEF Apart
  <2> QED
    BY <2>1, <2>2
<1>3. \A k \in Key : Today(rows2, k) = Today(rows, k)
  BY <1>1 DEF Today
<1>4. Apart(rows) => Apart(rows2)
  BY <1>1, <1>2 DEF Apart
<1> QED
  BY <1>3, <1>4

\* As time passes reservations stay as far apart, and fewer are of today.
LEMMA TickPace ==
  ASSUME TypeOK, KeepsItsPace, Tick
  PROVE  KeepsItsPace'
<1>1. /\ ledger \in Seq(Row) /\ ledger' \in Seq(Row)
      /\ DOMAIN ledger = 1 .. Len(ledger) /\ DOMAIN ledger' = 1 .. Len(ledger)
  BY AgedLedger DEF TypeOK
<1>2. \A i \in 1 .. Len(ledger) :
        /\ ledger'[i].key = ledger[i].key
        /\ ledger'[i].age = IF ledger[i].age < Weekly THEN ledger[i].age + 1 ELSE ledger[i].age
        /\ ledger[i].age \in 0..Weekly /\ ledger[i].key \in Key
  <2> SUFFICES ASSUME NEW i \in 1 .. Len(ledger)
               PROVE  /\ ledger'[i].key = ledger[i].key
                      /\ ledger'[i].age = IF ledger[i].age < Weekly THEN ledger[i].age + 1
                                                                    ELSE ledger[i].age
                      /\ ledger[i].age \in 0..Weekly /\ ledger[i].key \in Key
    OBVIOUS
  <2>1. ledger[i] \in Row
    BY <1>1
  <2>2. ledger'[i] = [ledger[i] EXCEPT !.age = IF @ < Weekly THEN @ + 1 ELSE @]
    BY <1>1 DEF Tick, Rows
  <2> QED
    BY <2>1, <2>2 DEF Row
<1>3. Apart(ledger')
  <2> SUFFICES ASSUME NEW i \in 1 .. Len(ledger), NEW j \in 1 .. Len(ledger),
                      i < j, ledger'[i].age < Weekly,
                      PullOf[ledger[i].key] = PullOf[ledger[j].key]
               PROVE  ledger'[i].age - ledger'[j].age
                        >= Min({Interval(ledger[j].key, c) : c \in Configs})
    BY <1>1, <1>2 DEF Apart
  <2> DEFINE m == Min({Interval(ledger[j].key, c) : c \in Configs})
  <2>1. m \in Nat
    BY <1>2, ShortestInterval DEF TypeOK
  <2>2. ledger[i].age < Weekly /\ ledger'[i].age = ledger[i].age + 1
    BY <1>2, DurationsAssumption
  <2>3. ledger[i].age - ledger[j].age >= m
    BY <1>1, <2>2, PaceIs DEF Apart
  <2> HIDE DEF m
  <2>4. ledger[j].age < Weekly /\ ledger'[j].age = ledger[j].age + 1
    BY <1>2, <2>1, <2>2, <2>3, DurationsAssumption
  <2>5. ledger'[i].age - ledger'[j].age = ledger[i].age - ledger[j].age
    <3>1. PICK x \in Int : x = ledger[i].age
      BY <1>2, DurationsAssumption
    <3>2. PICK y \in Int : y = ledger[j].age
      BY <1>2, DurationsAssumption
    <3>3. ledger'[i].age = x + 1 /\ ledger'[j].age = y + 1
      BY <2>2, <2>4, <3>1, <3>2
    <3> QED
      BY <3>1, <3>2, <3>3
  <2> QED
    BY <2>3, <2>5 DEF m
<1>4. ASSUME NEW k \in Key
      PROVE  Cardinality(Today(ledger', k)) <= Max({c.cap : c \in Configs})
  <2>1. Today(ledger', k) \in SUBSET Today(ledger, k)
    BY <1>1, <1>2, DurationsAssumption DEF Today
  <2>2. Cardinality(Today(ledger', k)) <= Cardinality(Today(ledger, k))
    BY <1>1, <2>1, TodayFinite, FS_Subset
  <2>3. Cardinality(Today(ledger, k)) <= Max({c.cap : c \in Configs})
    BY PaceIs DEF Capped
  <2> DEFINE a == Cardinality(Today(ledger', k))
             b == Cardinality(Today(ledger, k))
             d == Max({c.cap : c \in Configs})
  <2>4. a \in Nat /\ b \in Nat /\ d \in Nat
    BY <1>1, TodayFinite, LargestCap DEF TypeOK
  <2> HIDE DEF a, b, d
  <2>5. a <= b /\ b <= d => a <= d
    BY <2>4
  <2> QED
    BY <2>2, <2>3, <2>5 DEF a, b, d
<1>5. Capped(ledger')
  BY <1>4 DEF Capped
<1>6. (Apart(ledger) /\ Capped(ledger))'
  BY <1>3, <1>5
<1> QED
  BY <1>6, PaceIs, PTL

\* What is written over rows leaves their triggers and their ages.
LEMMA WrittenPace ==
  ASSUME TypeOK, KeepsItsPace, ledger' \in Seq(Row), Len(ledger') = Len(ledger),
         \A i \in 1 .. Len(ledger) :
           ledger'[i].key = ledger[i].key /\ ledger'[i].age = ledger[i].age
  PROVE  KeepsItsPace'
<1>1. Apart(ledger) /\ Capped(ledger) /\ ledger \in Seq(Row)
  BY PaceIs DEF TypeOK
<1>2. Apart(ledger') /\ \A k \in Key : Today(ledger', k) = Today(ledger, k)
  BY <1>1, SamePace
<1>3. Capped(ledger')
  BY <1>1, <1>2 DEF Capped
<1>4. (Apart(ledger) /\ Capped(ledger))'
  BY <1>2, <1>3
<1> QED
  BY <1>4, PaceIs, PTL

\* An admission is an interval after the last, and one of less than a cap.
LEMMA AdmitPace ==
  ASSUME TypeOK, KeepsItsPace, NEW o \in Owner, NEW k \in Key, Admit(o, k)
  PROVE  KeepsItsPace'
<1> DEFINE n == Len(ledger)
           last == n + 1
<1>1. /\ n \in Nat /\ ledger \in Seq(Row) /\ ledger' \in Seq(Row)
      /\ DOMAIN ledger = 1 .. n /\ DOMAIN ledger' = 1 .. last
      /\ config \in Configs
  BY AdmitLedger DEF TypeOK
<1>2. ASSUME NEW i \in 1 .. n
      PROVE  /\ ledger'[i].key = ledger[i].key /\ ledger'[i].age = ledger[i].age
             /\ ledger[i].age \in 0..Weekly /\ ledger[i].key \in Key
  <2>1. ledger[i] \in Row
    BY <1>1
  <2>2. ledger'[i] = IF Open(i, k) THEN Spent(ledger[i], ledger[i].reserved) ELSE ledger[i]
    BY <1>1, AdmitLedger, LostLedger
  <2>3. ledger[i].reserved \in Nat
    BY <2>1 DEF Row
  <2>4. /\ Spent(ledger[i], ledger[i].reserved).key = ledger[i].key
        /\ Spent(ledger[i], ledger[i].reserved).age = ledger[i].age
    BY <2>1, <2>3, SpentRow
  <2> QED
    BY <2>1, <2>2, <2>4 DEF Row
<1>3. ledger'[last].key = k /\ ledger'[last].age = 0
  <2>1. ledger'[last] = Reservation(o, k)
    BY AdmitLedger
  <2> QED
    BY <2>1 DEF Reservation
<1>4. /\ \A i \in OfPull(k) : ledger[i].age >= Interval(k, config)
      /\ Cardinality(Today(ledger, k)) < config.cap
  <2>1. Paced(k)
    BY DEF Admit, Admissible
  <2>2. {i \in OfPull(k) : ledger[i].age < Daily} = Today(ledger, k)
    BY DEF OfPull, Rows, Today
  <2> QED
    BY <2>1, <2>2, EffectivePace DEF Paced, Interval, TypeOK
<1> HIDE DEF n, last
<1>0. last = n + 1
  BY DEF last
<1>5. ASSUME NEW i \in 1 .. last, NEW j \in 1 .. last, i < j, ledger'[i].age < Weekly,
             PullOf[ledger'[i].key] = PullOf[ledger'[j].key]
      PROVE  ledger'[i].age - ledger'[j].age
               >= Min({Interval(ledger'[j].key, c) : c \in Configs})
  <2>1. i \in 1 .. n
    BY <1>0, <1>1, <1>5
  <2>2. CASE j \in 1 .. n
    <3>1. ledger[i].age - ledger[j].age >= Min({Interval(ledger[j].key, c) : c \in Configs})
      BY <1>1, <1>2, <1>5, <2>1, <2>2, PaceIs DEF Apart
    <3> QED
      BY <1>2, <2>1, <2>2, <3>1
  <2>3. CASE j = last
    <3>1. i \in OfPull(k)
      BY <1>1, <1>2, <1>3, <1>5, <2>1, <2>3 DEF OfPull, Rows
    <3>2. ledger[i].age >= Interval(k, config)
      BY <1>4, <3>1
    <3> DEFINE m == Min({Interval(k, c) : c \in Configs})
    <3>3. m \in Nat /\ m <= Interval(k, config) /\ Interval(k, config) \in Nat
      BY <1>1, ShortestInterval
    <3> HIDE DEF m
    <3>4. ledger'[i].age - ledger'[j].age >= m
      BY <1>2, <1>3, <2>1, <2>3, <3>2, <3>3
    <3> QED
      BY <1>3, <2>3, <3>4 DEF m
  <2> QED
    BY <1>0, <1>1, <2>2, <2>3
<1>6. Apart(ledger')
  BY <1>1, <1>5 DEF Apart
<1>7. ASSUME NEW a \in Key
      PROVE  Cardinality(Today(ledger', a)) <= Max({c.cap : c \in Configs})
  <2> DEFINE d == Max({c.cap : c \in Configs})
             was == Today(ledger, a)
             is == Today(ledger', a)
  <2>1. Cardinality(was) <= d
    BY PaceIs DEF Capped
  <2>2. /\ IsFiniteSet(was) /\ Cardinality(was) \in Nat /\ Cardinality(is) \in Nat
        /\ d \in Nat /\ config.cap \in Nat /\ config.cap <= d
    BY <1>1, TodayFinite, LargestCap
  <2>3. CASE PullOf[a] = PullOf[k]
    <3>1. is \in SUBSET (was \cup {last})
      BY <1>0, <1>1, <1>2, <1>3 DEF Today
    <3>2. was = Today(ledger, k)
      BY <2>3 DEF Today
    <3>3. Cardinality(was) < config.cap
      BY <1>4, <3>2
    <3> HIDE DEF was, is, d
    <3>4. /\ IsFiniteSet(was \cup {last})
          /\ Cardinality(was \cup {last}) <= Cardinality(was) + 1
          /\ Cardinality(was \cup {last}) \in Nat
      <4> DEFINE more == was \cup {last}
      <4>1. /\ IsFiniteSet(more)
            /\ Cardinality(more) = IF last \in was THEN Cardinality(was)
                                                   ELSE Cardinality(was) + 1
        BY <2>2, FS_AddElement, Zenon
      <4> QED
        BY <2>2, <4>1
    <3>5. Cardinality(is) <= Cardinality(was \cup {last})
      BY <3>1, <3>4, FS_Subset
    <3>6. Cardinality(is) <= d
      BY <2>2, <3>3, <3>4, <3>5
    <3> QED
      BY <3>6 DEF is, d
  <2>4. CASE PullOf[a] # PullOf[k]
    <3>1. is \in SUBSET was
      BY <1>0, <1>1, <1>2, <1>3, <2>4 DEF Today
    <3> HIDE DEF was, is, d
    <3>2. Cardinality(is) <= Cardinality(was)
      BY <2>2, <3>1, FS_Subset
    <3>3. Cardinality(is) <= d
      BY <2>1, <2>2, <3>2
    <3> QED
      BY <3>3 DEF is, d
  <2> QED
    BY <2>3, <2>4
<1>8. Capped(ledger')
  BY <1>7 DEF Capped
<1>9. (Apart(ledger) /\ Capped(ledger))'
  BY <1>6, <1>8
<1> QED
  BY <1>9, PaceIs, PTL

LEMMA PaceStep ==
  ASSUME TypeOK, KeepsItsPace, [Next]_vars
  PROVE  KeepsItsPace'
<1>1. CASE Tick
  BY <1>1, TickPace
<1>2. ASSUME NEW o \in Owner, NEW k \in Key, Admit(o, k) PROVE KeepsItsPace'
  BY <1>2, AdmitPace
<1>3. ASSUME NEW o \in Owner, NEW used \in Nat, Settle(o, used) PROVE KeepsItsPace'
  <2>1. \A i \in 1 .. Len(ledger) :
          ledger'[i].key = ledger[i].key /\ ledger'[i].age = ledger[i].age
    <3> SUFFICES ASSUME NEW i \in 1 .. Len(ledger)
                 PROVE  ledger'[i].key = ledger[i].key /\ ledger'[i].age = ledger[i].age
      OBVIOUS
    <3>1. ledger[i] \in Row
      BY DEF TypeOK
    <3>2. \/ ledger'[i] = ledger[i]
          \/ ledger'[i] = Spent(ledger[i], used)
      BY <1>3, SettledLedger DEF Settle, TypeOK
    <3>3. Spent(ledger[i], used).key = ledger[i].key /\ Spent(ledger[i], used).age = ledger[i].age
      BY <3>1, SpentRow
    <3> QED
      BY <3>2, <3>3
  <2> QED
    BY <1>3, <2>1, SettledLedger, WrittenPace DEF Settle, TypeOK
<1>4. ASSUME NEW o \in Owner, EndFree(o) \/ EndRun(o) PROVE KeepsItsPace'
  <2>1. run[o].ceiling \in Nat
    BY DEF TypeOK, Run
  <2> QED
    BY <1>3, <1>4, <2>1, ChargesAreCosts DEF EndFree, EndRun
<1>5. ASSUME UNCHANGED ledger PROVE KeepsItsPace'
  BY <1>5, WrittenPace DEF TypeOK
<1> QED
  BY <1>1, <1>2, <1>4, <1>5
     DEF Next, Attempt, Trip, Crash, Reload, Publish, vars

\* Whoever reserves, and whatever is reloaded or lost, the reservations of a pull
\* request are an interval apart and no more in a day than the cap: paced of
\* pacing.py is asked inside the transaction that reserves.
THEOREM Pacing == Spec => []KeepsItsPace
<1>1. ASSUME Init PROVE KeepsItsPace
  <2>1. ledger = <<>> /\ DOMAIN ledger = {} /\ config \in Configs
    BY <1>1, EmptySeq DEF Init
  <2>2. Apart(ledger)
    BY <2>1 DEF Apart
  <2>3. ASSUME NEW k \in Key
        PROVE  Cardinality(Today(ledger, k)) <= Max({c.cap : c \in Configs})
    <3>1. Today(ledger, k) = {}
      BY <2>1 DEF Today
    <3>2. Cardinality(Today(ledger, k)) = 0
      BY <3>1, FS_EmptySet
    <3>3. Max({c.cap : c \in Configs}) \in Nat
      BY <2>1, LargestCap
    <3> QED
      BY <3>2, <3>3
  <2> QED
    BY <2>2, <2>3, PaceIs DEF Capped
<1>2. TypeOK /\ KeepsItsPace /\ [Next]_vars => KeepsItsPace'
  BY PaceStep
<1> QED
  BY <1>1, <1>2, Typing, PTL DEF Spec

-----------------------------------------------------------------------------
(* The windows.                                                            *)

\* What a row counts for: its charge, up to what its run reserved.
Counted(row) == Min({Charge(row), row.reserved})

\* The rows of any ledger that a window measures for an actor, by what they
\* count for and by what they are charged.
InWindow(row, w, a) ==
  /\ row.age < Duration(w)
  /\ w = "contributor" => ActorOf[row.key] = a

CountedIn(rows, w, a) ==
  [i \in DOMAIN rows |-> IF InWindow(rows[i], w, a) THEN Counted(rows[i]) ELSE 0]

ChargedIn(rows, w, a) ==
  [i \in DOMAIN rows |-> IF InWindow(rows[i], w, a) THEN Charge(rows[i]) ELSE 0]

\* The largest limit ever configured, or the least there is.
Largest(w) == Max({1} \cup {c[w] : c \in Configs})

LEMMA WindowsAre ==
  /\ WindowsHold <=>
       \A w \in Window, a \in Actor :
         Total(CountedIn(ledger, w, a)) <= Largest(w)
  /\ \A w, a : UsedSince(w, a) = Total(ChargedIn(ledger, w, a))
<1>1. ASSUME NEW w, NEW a
      PROVE  /\ [i \in Rows |-> IF i \in Within(w, a)
                                THEN Min({Charge(ledger[i]), ledger[i].reserved}) ELSE 0]
                = CountedIn(ledger, w, a)
             /\ [i \in Rows |-> IF i \in Within(w, a) THEN Charge(ledger[i]) ELSE 0]
                = ChargedIn(ledger, w, a)
  <2>1. \A i \in Rows : i \in Within(w, a) <=> InWindow(ledger[i], w, a)
    BY DEF Within, InWindow
  <2> QED
    BY <2>1 DEF CountedIn, ChargedIn, Counted, Rows
<1> QED
  BY <1>1, Zenon DEF WindowsHold, UsedSince, Largest

LEMMA CountedRow ==
  ASSUME NEW row \in Row
  PROVE  /\ Charge(row) \in Nat /\ Counted(row) \in Nat
         /\ Counted(row) <= Charge(row) /\ Counted(row) <= row.reserved
<1> DEFINE S == {Charge(row), row.reserved}
<1>1. Charge(row) \in Nat /\ row.reserved \in Nat
  BY DEF Row, Charge
<1>2. S \in SUBSET Nat /\ S # {} /\ Charge(row) \in S /\ row.reserved \in S
  BY <1>1
<1> HIDE DEF S
<1>3. Min(S) \in S /\ Min(S) <= Charge(row) /\ Min(S) <= row.reserved
  BY <1>2, MinIs
<1> QED
  BY <1>1, <1>2, <1>3 DEF S, Counted

LEMMA ColumnsType ==
  ASSUME NEW rows \in Seq(Row), NEW w, NEW a
  PROVE  /\ CountedIn(rows, w, a) \in [1 .. Len(rows) -> Nat]
         /\ ChargedIn(rows, w, a) \in [1 .. Len(rows) -> Nat]
<1>1. \A i \in 1 .. Len(rows) : Charge(rows[i]) \in Nat /\ Counted(rows[i]) \in Nat
  BY CountedRow
<1> QED
  BY <1>1 DEF CountedIn, ChargedIn

\* Rows that are older, and count for no more, sum to no more.
LEMMA SumsLess ==
  ASSUME NEW rows \in Seq(Row), NEW rows2 \in Seq(Row), Len(rows2) = Len(rows),
         \A i \in 1 .. Len(rows) :
           /\ rows2[i].key = rows[i].key /\ rows2[i].age >= rows[i].age
           /\ Counted(rows2[i]) <= Counted(rows[i]),
         NEW w \in Window, NEW a
  PROVE  Total(CountedIn(rows2, w, a)) <= Total(CountedIn(rows, w, a))
<1> DEFINE n == Len(rows)
<1>1. n \in Nat /\ DOMAIN rows = 1 .. n /\ DOMAIN rows2 = 1 .. n
  OBVIOUS
<1>2. ASSUME NEW i \in 1 .. n
      PROVE  CountedIn(rows2, w, a)[i] <= CountedIn(rows, w, a)[i]
  <2>1. /\ rows[i] \in Row /\ rows2[i] \in Row
        /\ Duration(w) \in Nat
    BY DurationsAssumption DEF Window, Duration
  <2>2. InWindow(rows2[i], w, a) => InWindow(rows[i], w, a)
    <3>0. \A row \in Row : row.age \in Int
      BY DurationsAssumption DEF Row
    <3>1. rows[i].age \in Int /\ rows2[i].age \in Int
      BY <2>1, <3>0
    <3>2. rows2[i].key = rows[i].key /\ rows2[i].age >= rows[i].age
      OBVIOUS
    <3>3. rows2[i].age < Duration(w) => rows[i].age < Duration(w)
      BY <2>1, <3>1, <3>2
    <3> QED
      BY <3>2, <3>3 DEF InWindow
  <2>3. Counted(rows2[i]) \in Nat /\ Counted(rows[i]) \in Nat
    BY <2>1, CountedRow
  <2>4. CountedIn(rows2, w, a)[i] = IF InWindow(rows2[i], w, a) THEN Counted(rows2[i]) ELSE 0
    BY <1>1 DEF CountedIn
  <2>5. CountedIn(rows, w, a)[i] = IF InWindow(rows[i], w, a) THEN Counted(rows[i]) ELSE 0
    BY <1>1 DEF CountedIn
  <2> QED
    BY <2>2, <2>3, <2>4, <2>5
<1>3. /\ CountedIn(rows2, w, a) \in [1 .. n -> Nat]
      /\ CountedIn(rows, w, a) \in [1 .. n -> Nat]
  BY ColumnsType
<1> HIDE DEF n
<1> QED
  BY <1>1, <1>2, <1>3, TotalGrows

\* A limit in force is a limit of some section, and calibration only lowers it.
LEMMA LimitInForce ==
  ASSUME TypeOK, NEW w \in Window
  PROVE  /\ Effective[w] \in Nat /\ Calibrated(Effective[w]) \in Nat
         /\ Calibrated(Effective[w]) <= Largest(w)
         /\ Largest(w) \in Nat
<1> DEFINE C == {c[w] : c \in Configs}
           T == {1} \cup C
<1>1. Effective[w] \in C
  <2>1. config \in Config /\ policy \in Config /\ w \in Pool
    BY ConfigsAssumption DEF TypeOK, Window, Pool
  <2>2. Effective[w] = IF Comply THEN policy[w] ELSE config[w]
    BY <2>1 DEF Effective, Config, Window
  <2> QED
    BY <2>2 DEF TypeOK
<1>2. IsFiniteSet(C) /\ C \in SUBSET Nat
  BY FiniteSettings DEF Window
<1> HIDE DEF C
<1>3. IsFiniteSet(T) /\ T \in SUBSET Nat /\ 1 \in T /\ Effective[w] \in T
  <2>1. T = C \cup {1}
    OBVIOUS
  <2> QED
    BY <1>1, <1>2, <2>1, FS_AddElement
<1>4. PICK l \in Nat : l = Effective[w]
  BY <1>3
<1>5. Calibrated(l) \in Nat /\ Calibrated(l) <= (IF l > 1 THEN l ELSE 1)
  <2>1. PICK p \in Nat : p = Calibration /\ p <= 100
    BY CalibrationRange DEF TypeOK, Full
  <2>2. \A x, y \in Nat : y <= 100 => x * y <= x * 100 /\ x * y \in Nat
    OBVIOUS
  <2>3. PICK q \in Nat : q = l * p /\ q <= l * 100
    BY <2>1, <2>2
  <2>4. q \div 100 \in Nat /\ q \div 100 <= l
    BY <2>3
  <2>5. Calibrated(l) = IF q \div 100 > 1 THEN q \div 100 ELSE 1
    BY <2>1, <2>3 DEF Calibrated, Full
  <2> QED
    BY <2>4, <2>5
<1> HIDE DEF T
<1>6. PICK m \in Nat : m = Max(T) /\ 1 <= m /\ l <= m
  BY <1>3, <1>4, MaxIs
<1>7. PICK d \in Nat : d = Calibrated(l)
  BY <1>5
<1>8. d <= m
  BY <1>5, <1>6, <1>7
<1> QED
  BY <1>4, <1>6, <1>7, <1>8 DEF T, C, Largest

LEMMA TotalOf ==
  ASSUME NEW rows \in Seq(Row), NEW w, NEW a
  PROVE  /\ Total(CountedIn(rows, w, a)) \in Nat
         /\ Total(ChargedIn(rows, w, a)) \in Nat
<1> DEFINE n == Len(rows)
           c == CountedIn(rows, w, a)
           d == ChargedIn(rows, w, a)
<1>1. n \in Nat /\ c \in [1 .. n -> Nat] /\ d \in [1 .. n -> Nat]
  BY ColumnsType
<1> HIDE DEF n, c, d
<1>2. (\A i \in 1 .. n : c[i] <= c[i]) /\ (\A i \in 1 .. n : d[i] <= d[i])
  BY <1>1
<1>3. Total(c) \in Nat /\ Total(d) \in Nat
  BY <1>1, <1>2, TotalGrows
<1> QED
  BY <1>3 DEF c, d

\* Rows that are rewritten and count for no more leave the windows holding.
LEMMA LessHolds ==
  ASSUME TypeOK, WindowsHold, ledger' \in Seq(Row), Len(ledger') = Len(ledger),
         \A i \in 1 .. Len(ledger) :
           /\ ledger'[i].key = ledger[i].key /\ ledger'[i].age >= ledger[i].age
           /\ Counted(ledger'[i]) <= Counted(ledger[i])
  PROVE  WindowsHold'
<1>1. ASSUME NEW w \in Window, NEW a \in Actor
      PROVE  Total(CountedIn(ledger', w, a)) <= Largest(w)
  <2>1. Total(CountedIn(ledger', w, a)) <= Total(CountedIn(ledger, w, a))
    BY SumsLess DEF TypeOK
  <2>2. Total(CountedIn(ledger, w, a)) <= Largest(w)
    BY WindowsAre
  <2>3. PICK x \in Nat : x = Total(CountedIn(ledger', w, a))
    BY TotalOf
  <2>4. PICK y \in Nat : y = Total(CountedIn(ledger, w, a))
    BY TotalOf DEF TypeOK
  <2>5. PICK m \in Nat : m = Largest(w)
    BY LimitInForce
  <2> QED
    BY <2>1, <2>2, <2>3, <2>4, <2>5
<1>2. (\A w \in Window, a \in Actor :
         Total(CountedIn(ledger, w, a)) <= Largest(w))'
  BY <1>1
<1> QED
  BY <1>2, WindowsAre, PTL

\* An admission leaves room: what is charged, and what it reserves on top, is
\* within the limit in force.
LEMMA AdmitHolds ==
  ASSUME TypeOK, WindowsHold, NEW o \in Owner, NEW k \in Key, Admit(o, k)
  PROVE  WindowsHold'
<1> DEFINE n == Len(ledger)
<1>1. /\ n \in Nat /\ ledger \in Seq(Row) /\ ledger' \in Seq(Row)
      /\ DOMAIN ledger = 1 .. n /\ DOMAIN ledger' = 1 .. n + 1 /\ Len(ledger') = n + 1
  BY AdmitLedger DEF TypeOK
<1>2. ASSUME NEW i \in 1 .. n
      PROVE  /\ ledger'[i].key = ledger[i].key /\ ledger'[i].age = ledger[i].age
             /\ Charge(ledger'[i]) = Charge(ledger[i])
             /\ ledger'[i].reserved = ledger[i].reserved
             /\ ledger[i] \in Row /\ ledger'[i] \in Row
  <2>1. ledger[i] \in Row /\ ledger'[i] \in Row
    BY <1>1
  <2>2. ledger'[i] = IF Open(i, k) THEN Spent(ledger[i], ledger[i].reserved) ELSE ledger[i]
    BY <1>1, AdmitLedger, LostLedger
  <2>3. ledger[i].reserved \in Nat
    BY <2>1 DEF Row
  <2>4. /\ Spent(ledger[i], ledger[i].reserved).key = ledger[i].key
        /\ Spent(ledger[i], ledger[i].reserved).age = ledger[i].age
        /\ Spent(ledger[i], ledger[i].reserved).reserved = ledger[i].reserved
        /\ Spent(ledger[i], ledger[i].reserved).settled
        /\ Spent(ledger[i], ledger[i].reserved).used = ledger[i].reserved
    BY <2>1, <2>3, SpentRow
  <2> QED
    BY <2>1, <2>2, <2>4 DEF Open, Charge
<1>3. PICK new \in Row : new = ledger'[n + 1]
  BY <1>1
<1>4. new.key = k /\ new.reserved = Effective.maxRun /\ ~new.settled
  <2>1. ledger'[n + 1] = Reservation(o, k)
    BY AdmitLedger
  <2> QED
    BY <1>3, <2>1 DEF Reservation
<1>5. \A i \in 1 .. n : Counted(ledger'[i]) = Counted(ledger[i])
  BY <1>2 DEF Counted
<1> HIDE DEF n
<1>6. ASSUME NEW w \in Window, NEW a \in Actor
      PROVE  Total(CountedIn(ledger', w, a)) <= Largest(w)
  <2> DEFINE is == CountedIn(ledger', w, a)
             was == CountedIn(ledger, w, a)
             charged == ChargedIn(ledger, w, a)
  <2>1. /\ is \in [1 .. n + 1 -> Nat] /\ was \in [1 .. n -> Nat]
        /\ charged \in [1 .. n -> Nat]
    BY <1>1, ColumnsType DEF n
  <2>2. \A i \in 1 .. n : is[i] = IF InWindow(ledger'[i], w, a) THEN Counted(ledger'[i]) ELSE 0
    BY <1>1 DEF CountedIn
  <2>3. is[n + 1] = IF InWindow(new, w, a) THEN Counted(new) ELSE 0
    BY <1>1, <1>3 DEF CountedIn
  <2>4. \A i \in 1 .. n : InWindow(ledger'[i], w, a) <=> InWindow(ledger[i], w, a)
    BY <1>2 DEF InWindow
  <2>5. PICK m \in Nat : m = Largest(w)
    BY LimitInForce
  <2>6. CASE InWindow(new, w, a)
    <3>1. UsedSince(w, ActorOf[k]) = Total(charged)
      <4>1. w = "contributor" => a = ActorOf[k]
        BY <1>4, <2>6 DEF InWindow
      <4>2. ChargedIn(ledger, w, ActorOf[k]) = charged
        BY <4>1 DEF ChargedIn, InWindow
      <4> QED
        BY <4>2, WindowsAre
    <3>2. PICK l \in Nat : l = Calibrated(Effective[w]) /\ l <= m
      BY <2>5, LimitInForce
    <3>3. PICK u \in Nat : u = Total(charged)
      BY <1>1, TotalOf
    <3>4. PICK r \in Nat : r = Effective.maxRun
      BY EffectiveRun DEF TypeOK
    <3>5. u < l /\ l - u >= r
      BY <3>1, <3>2, <3>3, <3>4 DEF Admit, Admissible, Allows
    <3>6. ASSUME NEW i \in 1 .. n PROVE is[i] <= charged[i]
      <4>1. charged[i] = IF InWindow(ledger[i], w, a) THEN Charge(ledger[i]) ELSE 0
        BY <1>1 DEF ChargedIn
      <4>2. Counted(ledger[i]) <= Charge(ledger[i])
        BY <1>2, CountedRow
      <4> QED
        BY <1>5, <2>2, <2>4, <4>1, <4>2
    <3>7. is[n + 1] \in Nat /\ is[n + 1] <= r
      <4>1. Counted(new) \in Nat /\ Counted(new) <= new.reserved
        BY CountedRow
      <4> QED
        BY <1>4, <2>3, <2>6, <3>4, <4>1
    <3> HIDE DEF is, was, charged
    <3>8. Total(is) <= Total(charged) + is[n + 1] /\ Total(is) \in Nat
      BY <1>1, <2>1, <3>6, TotalAppended
    <3>9. Total(is) <= m
      BY <3>2, <3>3, <3>5, <3>7, <3>8
    <3> QED
      BY <2>5, <3>9 DEF is
  <2>7. CASE ~InWindow(new, w, a)
    <3>1. ASSUME NEW i \in 1 .. n PROVE is[i] <= was[i]
      <4>1. was[i] = IF InWindow(ledger[i], w, a) THEN Counted(ledger[i]) ELSE 0
        BY <1>1 DEF CountedIn
      <4>2. Counted(ledger[i]) \in Nat
        BY <1>2, CountedRow
      <4> QED
        BY <1>5, <2>2, <2>4, <4>1, <4>2
    <3>2. PICK y \in Nat : y = Total(was)
      BY <1>1, TotalOf
    <3>3. y <= m
      BY <2>5, <3>2, WindowsAre
    <3>4. is[n + 1] = 0
      BY <2>3, <2>7
    <3> HIDE DEF is, was, charged
    <3>5. Total(is) <= Total(was) + is[n + 1] /\ Total(is) \in Nat
      BY <1>1, <2>1, <3>1, TotalAppended
    <3>6. Total(is) <= m
      BY <3>2, <3>3, <3>4, <3>5
    <3> QED
      BY <2>5, <3>6 DEF is
  <2> QED
    BY <2>6, <2>7
<1>7. (\A w \in Window, a \in Actor :
         Total(CountedIn(ledger, w, a)) <= Largest(w))'
  BY <1>6
<1> QED
  BY <1>7, WindowsAre, PTL

LEMMA WindowsStep ==
  ASSUME TypeOK, WindowsHold, [Next]_vars
  PROVE  WindowsHold'
<1>0. \A i \in 1 .. Len(ledger) : ledger[i] \in Row
  BY DEF TypeOK
<1>1. CASE Tick
  <2>1. ledger' \in Seq(Row) /\ Len(ledger') = Len(ledger)
    BY <1>1, AgedLedger DEF TypeOK
  <2>2. ASSUME NEW i \in 1 .. Len(ledger)
        PROVE  /\ ledger'[i].key = ledger[i].key /\ ledger'[i].age >= ledger[i].age
               /\ Counted(ledger'[i]) <= Counted(ledger[i])
    <3>1. ledger[i] \in Row /\ Counted(ledger[i]) \in Nat
      BY <1>0, CountedRow
    <3>2. ledger'[i] = [ledger[i] EXCEPT !.age = IF @ < Weekly THEN @ + 1 ELSE @]
      <4>1. i \in DOMAIN ledger
        BY DEF TypeOK
      <4> QED
        BY <1>1, <4>1 DEF Tick, Rows
    <3>3. /\ ledger'[i].key = ledger[i].key /\ ledger'[i].reserved = ledger[i].reserved
          /\ ledger'[i].used = ledger[i].used /\ ledger'[i].settled = ledger[i].settled
      BY <3>1, <3>2 DEF Row
    <3>4. ledger'[i].age >= ledger[i].age
      BY <3>1, <3>2, DurationsAssumption DEF Row
    <3>5. Counted(ledger'[i]) = Counted(ledger[i])
      BY <3>3 DEF Counted, Charge
    <3> QED
      BY <3>1, <3>3, <3>4, <3>5
  <2> QED
    BY <2>1, <2>2, LessHolds
<1>2. ASSUME NEW o \in Owner, NEW k \in Key, Admit(o, k) PROVE WindowsHold'
  BY <1>2, AdmitHolds
<1>3. ASSUME NEW o \in Owner, NEW used \in Nat, Settle(o, used) PROVE WindowsHold'
  <2>1. ledger' \in Seq(Row) /\ Len(ledger') = Len(ledger)
    BY <1>3, SettledLedger DEF Settle, TypeOK
  <2>2. ASSUME NEW i \in 1 .. Len(ledger)
        PROVE  /\ ledger'[i].key = ledger[i].key /\ ledger'[i].age >= ledger[i].age
               /\ Counted(ledger'[i]) <= Counted(ledger[i])
    <3>1. ledger[i] \in Row /\ Counted(ledger[i]) \in Nat /\ ledger[i].age \in Int
      BY <1>0, CountedRow, DurationsAssumption DEF Row
    <3>2. CASE ledger'[i] = ledger[i]
      BY <3>1, <3>2
    <3>3. CASE Open(i, run[o].key) /\ ledger'[i] = Spent(ledger[i], used)
      <4>1. /\ Spent(ledger[i], used) \in Row
            /\ Spent(ledger[i], used).key = ledger[i].key
            /\ Spent(ledger[i], used).age = ledger[i].age
            /\ Spent(ledger[i], used).reserved = ledger[i].reserved
        BY <3>1, SpentRow
      <4>2. Counted(ledger[i]) = ledger[i].reserved
        <5>1. Counted(ledger[i]) = Min({ledger[i].reserved})
          BY <3>3 DEF Counted, Charge, Open
        <5>2. {ledger[i].reserved} \in SUBSET Nat
          BY <3>1 DEF Row
        <5> QED
          BY <5>1, <5>2, MinIs
      <4>3. Counted(ledger'[i]) <= ledger'[i].reserved
        BY <3>3, <4>1, CountedRow
      <4> QED
        BY <3>1, <3>3, <4>1, <4>2, <4>3
    <3> QED
      BY <1>3, <3>2, <3>3, SettledLedger DEF Settle, TypeOK
  <2> QED
    BY <2>1, <2>2, LessHolds
<1>4. ASSUME NEW o \in Owner, EndFree(o) \/ EndRun(o) PROVE WindowsHold'
  <2>1. run[o].ceiling \in Nat
    BY DEF TypeOK, Run
  <2> QED
    BY <1>3, <1>4, <2>1, ChargesAreCosts DEF EndFree, EndRun
<1>5. ASSUME UNCHANGED ledger PROVE WindowsHold'
  <2>1. (\A w \in Window, a \in Actor :
           Total(CountedIn(ledger, w, a)) <= Largest(w))'
    BY <1>5, WindowsAre
  <2> QED
    BY <2>1, WindowsAre, PTL
<1> QED
  BY <1>1, <1>2, <1>4, <1>5
     DEF Next, Attempt, Trip, Crash, Reload, Publish, vars

\* The windows hold: admit of budget.py reads what they are charged and reserves
\* in the transaction of the claim, so no race, crash, reload or overrun makes a
\* window hold more than was ever configured for it.
THEOREM WindowsKept == Spec => []WindowsHold
<1>1. ASSUME Init PROVE WindowsHold
  <2>1. ledger = <<>> /\ DOMAIN ledger = {} /\ ledger \in Seq(Row) /\ Len(ledger) = 0
    BY <1>1, EmptySeq DEF Init
  <2>2. ASSUME NEW w \in Window, NEW a \in Actor
        PROVE  Total(CountedIn(ledger, w, a)) <= Largest(w)
    <3>1. CountedIn(ledger, w, a) \in [1 .. 0 -> Nat]
      BY <2>1, ColumnsType
    <3>2. Total(CountedIn(ledger, w, a)) = 0
      BY <3>1, TotalIs
    <3>3. Largest(w) \in Nat
      BY <1>1, InitType, LimitInForce
    <3> QED
      BY <3>2, <3>3
  <2> QED
    BY <2>2, WindowsAre
<1>2. TypeOK /\ WindowsHold /\ [Next]_vars => WindowsHold'
  BY WindowsStep
<1> QED
  BY <1>1, <1>2, Typing, PTL DEF Spec
=============================================================================
