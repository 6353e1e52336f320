------------------------- MODULE MCHamiltonianBlock -------------------------
(***************************************************************************)
(* All calls with up to eight orbitals and up to three threads.  MCSpec    *)
(* leaves out the calls in queue mode whose block is not a whole number of *)
(* rounds, for which the run nonlocal_block_overwritten shows that the     *)
(* promises are broken.                                                    *)
(***************************************************************************)
EXTENDS HamiltonianBlock

WholeRounds ==
    mpi_queue_mode => \/ non_local_block_size % active_threads = 0
                      \/ num_states <= non_local_block_size

MCInit == Init /\ WholeRounds

MCSpec == MCInit /\ [][Next]_vars
=============================================================================
