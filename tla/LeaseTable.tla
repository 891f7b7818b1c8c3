----------------------------- MODULE LeaseTable -----------------------------
(***************************************************************************)
(* What the review queue promises, with no row, owner guard, clock or      *)
(* attempt count in sight: a piece of work is waiting, held by one worker, *)
(* or closed; at most one piece of work of a pull request is held at once; *)
(* a holder keeps what it holds until it gives it up or its lease lapses;  *)
(* and closed work is never offered again.                                 *)
(***************************************************************************)
CONSTANTS Key, Owner, Pull, PullOf, NoOwner

VARIABLES state, holder

vars == <<state, holder>>

State == {"absent", "waiting", "held", "closed"}

HeldPulls == {PullOf[k] : k \in {j \in Key : state[j] = "held"}}

Waiting == {k \in Key : state[k] = "waiting"}

Init ==
  /\ state = [k \in Key |-> "absent"]
  /\ holder = [k \in Key |-> NoOwner]

\* New work arrives.
Add(k) ==
  /\ state[k] = "absent"
  /\ state' = [state EXCEPT ![k] = "waiting"]
  /\ UNCHANGED holder

\* Waiting work that is given up on, or answered along with other work.
Dismiss(S) ==
  /\ S \subseteq Waiting
  /\ state' = [k \in Key |-> IF k \in S THEN "closed" ELSE state[k]]
  /\ UNCHANGED holder

\* Worker o takes k, while what is out of attempts is given up on.
Take(o, k, S) ==
  /\ S \subseteq Waiting
  /\ k \in Waiting \ S
  /\ PullOf[k] \notin HeldPulls
  /\ state' = [j \in Key |-> CASE j = k -> "held"
                               [] j \in S -> "closed"
                               [] OTHER -> state[j]]
  /\ holder' = [holder EXCEPT ![k] = o]

\* The holder hands k back, or closes it.
GiveUp(o, k, to) ==
  /\ holder[k] = o
  /\ state[k] = "held"
  /\ state' = [state EXCEPT ![k] = to]
  /\ holder' = [holder EXCEPT ![k] = NoOwner]

\* Leases run out.
Lapse(S) ==
  /\ S # {}
  /\ \A k \in S : state[k] = "held"
  /\ state' = [k \in Key |-> IF k \in S THEN "waiting" ELSE state[k]]
  /\ holder' = [k \in Key |-> IF k \in S THEN NoOwner ELSE holder[k]]

Next ==
  \/ \E k \in Key : Add(k)
  \/ \E S \in SUBSET Key : Dismiss(S) \/ Lapse(S)
  \/ \E o \in Owner, k \in Key, S \in SUBSET Key : Take(o, k, S)
  \/ \E o \in Owner, k \in Key, to \in {"waiting", "closed"} : GiveUp(o, k, to)

Spec == Init /\ [][Next]_vars
=============================================================================
