----------------------------- MODULE MCRestart -----------------------------
(***************************************************************************)
(* Two processes, jobs of all kinds with up to two moves, checkpoints      *)
(* never or after every second SCF step, and two crashes.                  *)
(***************************************************************************)
EXTENDS Restart
=============================================================================
