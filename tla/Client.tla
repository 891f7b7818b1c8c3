------------------------------- MODULE Client -------------------------------
(***************************************************************************)
(* A write to GitHub, as poller/client.py makes it: what may come of the   *)
(* request and its retries, and what the caller is told.                   *)
(***************************************************************************)
EXTENDS Naturals, Sequences, FiniteSets

MaxRetries == 2

\* What becomes of one request.  A rate-limited one that names a cooldown
\* short enough was not carried out; one whose answer is lost, unreadable or
\* a server's error may have been.
Response == {"made", "made_unheard", "cooldown", "refused", "lost"}

CarriedOut == {"made", "made_unheard"}

\* Fault: a request that was not answered is sent again.
RetriedUnheard(r) == r \in {"cooldown", "made_unheard", "lost"}

\* The one response that is retried.
Retried(r) == r = "cooldown"

\* The requests of one write: each but the last is retried, and the last is
\* not, or retries have run out.
Requests ==
  {s \in UNION {[1..n -> Response] : n \in 1..(MaxRetries + 1)} :
     /\ \A i \in 1..(Len(s) - 1) : Retried(s[i])
     /\ Retried(s[Len(s)]) => Len(s) = MaxRetries + 1}

\* How often the write was carried out, and whether the caller knows.
Written(s) ==
  [times |-> Cardinality({i \in DOMAIN s : s[i] \in CarriedOut}),
   heard |-> s[Len(s)] = "made"]

Writes == {Written(s) : s \in Requests}
=============================================================================
