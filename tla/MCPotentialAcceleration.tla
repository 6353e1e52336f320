---------------------- MODULE MCPotentialAcceleration ----------------------
(***************************************************************************)
(* NoStraddle leaves out the calls without queue mode in which a round of  *)
(* orbitals does not lie in one slot.  They do not end: one thread waits   *)
(* for the slot before its own, and the thread that has that one waits for *)
(* it in the barrier of the halo exchange.  Small bounds the instances:    *)
(* three threads and up to seven orbitals in one process, or two threads   *)
(* in each of two processes and up to eight orbitals, which are two slots. *)
(***************************************************************************)
EXTENDS PotentialAcceleration

NoStraddle == mpi_queue_mode \/ dvh_skip % active_threads = 0

Small == IF coalesce_factor = 1 THEN nstates <= 7 ELSE active_threads <= 2

MCInit == Init /\ NoStraddle /\ Small

MCSpec == /\ MCInit /\ [][Next]_vars
          /\ WF_vars(NextVcycle)
          /\ \A p \in 0..(MaxStates - 1), t \in 0..(MaxStates - 1) :
                WF_vars(<<p, t>> \in Workers /\ Worker(<<p, t>>))
=============================================================================
