------------------------------- MODULE Engine -------------------------------
(***************************************************************************)
(* One call of the review engine: what the `claude' command may do, what   *)
(* its adapter makes of it (claude.py over cli.py), and what the worker    *)
(* makes of that: the verb that closes the row, what the run settles at,   *)
(* whether the pull request is told.  ReviewPipeline and Governor take the *)
(* ends of a run from here.                                                *)
(***************************************************************************)

\* The result envelope on the command's stdout.  `limit' is whether the fields
\* it reports errors in name a usage limit, `output' its structured_output.
Envelope ==
  [subtype : {"success", "error_max_turns", "error_during_execution", "unheard_of"},
   isError : BOOLEAN,
   limit : BOOLEAN,
   output : {"absent", "unfit", "fit"}]

\* What one call meets.  `checked' is the latch of the adapter, which is set
\* by the first call, whatever that call then finds.
Answer ==
  [checked : BOOLEAN,
   probes : {"fine", "silent", "flag_missing"},   \* --version and --help
   started : BOOLEAN,
   exit : {"zero", "nonzero", "killed"},
   stderrLimit : BOOLEAN,                         \* stderr names a usage limit
   printed : BOOLEAN,                             \* stdout is a result envelope
   envelope : Envelope]

\* How a call ends, and how well its cost is known.
Ended(kind, cost) == [kind |-> kind, cost |-> cost]

-----------------------------------------------------------------------------
\* preflight: an adapter that was never asked before probes its command.
Refuses(a) == ~a.checked /\ a.probes # "fine"

\* Nothing of the review was executed.
Unavailable(a) == Refuses(a) \/ ~a.started

Errored(e) == e.isError \/ e.subtype \in {"error_max_turns", "error_during_execution"}

\* The command itself says that the account is out of quota: an envelope that
\* reports no error is not asked.
LimitReached(e) == Errored(e) /\ e.limit

\* Which of the three ways an envelope says the run ended.
Outcome(e) ==
  CASE e.subtype = "error_max_turns" -> "truncated"
    [] e.subtype = "success" /\ e.output # "absent" -> "completed"
    [] OTHER -> "failed"

\* Output that a completed run cannot be read from.
Unfit(e) == Outcome(e) = "completed" /\ e.output = "unfit"

\* A nonzero exit.  The envelope measured the run even so, unless it is stderr
\* that names the limit: that is taken as a refusal ahead of any work.
Failure(a) ==
  LET limited == a.printed /\ LimitReached(a.envelope)
  IN CASE limited -> Ended("usage_limited", "measured")
       [] ~limited /\ a.stderrLimit -> Ended("usage_limited", "zero")
       [] OTHER -> Ended("protocol", IF a.printed THEN "measured" ELSE "unknown")

\* A zero exit.  Output that does not fit its schema is an error that carries
\* no usage, though the envelope measured it.
Parsed(a) ==
  LET e == a.envelope
      limited == a.printed /\ LimitReached(e)
  IN CASE limited -> Ended("usage_limited", "measured")
       [] ~a.printed \/ (~limited /\ Unfit(e)) -> Ended("protocol", "unknown")
       [] OTHER -> Ended(Outcome(e), "measured")

\* review: the pre-flight, the command under its wall clock, its output.
Review(a) ==
  CASE Unavailable(a) -> Ended("unavailable", "zero")
    [] OTHER -> CASE a.exit = "killed" -> Ended("timeout", "unknown")
                  [] a.exit = "nonzero" -> Failure(a)
                  [] a.exit = "zero" -> Parsed(a)

Ends == {Review(a) : a \in Answer}

LimitEnds == {e \in Ends : e.kind = "usage_limited"}

Failures == {e.kind : e \in Ends \ LimitEnds} \ {"completed"}

-----------------------------------------------------------------------------
(* The worker's side; "too_large", "payload", "github" and "workspace" are *)
(* failures ahead of the engine.                                           *)

\* The verb that closes the row.  What fails the same way again is abandoned;
\* a usage limit is the account's and not the trigger's.
Finish(kind) ==
  CASE kind = "completed" -> "complete"
    [] kind \in {"failed", "too_large", "payload"} -> "abandon"
    [] kind = "usage_limited" -> "unattempted"
    [] OTHER -> "release"

\* What a pull request is told of when its last attempt failed this way.
Announced(kind) == kind \in {"unavailable", "timeout", "protocol"}

\* What the run settles at, from what the command says it used and what is
\* charged for a run that nothing measured.
Charged(cost, used, ceiling) ==
  CASE cost = "measured" -> used [] cost = "zero" -> 0 [] cost = "unknown" -> ceiling
=============================================================================
