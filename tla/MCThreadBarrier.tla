-------------------------- MODULE MCThreadBarrier --------------------------
(***************************************************************************)
(* Three threads that meet five times on a barrier whose generation has    *)
(* three values, so that it wraps while they do.                           *)
(***************************************************************************)
EXTENDS ThreadBarrier

CONSTANTS t1, t2, t3

MCThreads == {t1, t2, t3}
=============================================================================
