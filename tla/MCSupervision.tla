--------------------------- MODULE MCSupervision ----------------------------
(***************************************************************************)
(* Two workers: the fewest that contend for the mirror's lock.             *)
(***************************************************************************)
EXTENDS Supervision
=============================================================================
