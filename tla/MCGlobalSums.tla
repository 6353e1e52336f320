--------------------------- MODULE MCGlobalSums ---------------------------
(***************************************************************************)
(* Two processes with two threads, which run up to three regions of up to  *)
(* three rounds, but not more than four rounds in all.  The pool of three  *)
(* communicators is enough for one round in a region; in a longer one the  *)
(* tasks begin with the barrier.  The run global_sums_long_region has      *)
(* those that do not.                                                      *)
(***************************************************************************)
EXTENDS GlobalSums

MCInit == Init /\ CommsSuffice /\ rounds * regions <= 4

MCSpec == /\ MCInit /\ [][Next]_vars
          /\ \A w \in Workers : WF_vars(Worker(w))
          /\ \A p \in Procs : WF_vars(NextRegion(p))
=============================================================================
