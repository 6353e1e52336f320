---------------------------- MODULE MCThreadPool ----------------------------
(***************************************************************************)
(* The thread pool with three threads and two regions of up to two rounds. *)
(***************************************************************************)
EXTENDS ThreadPool
=============================================================================
