-------------------------- MODULE HamiltonianBlock --------------------------
(***************************************************************************)
(* ApplyHamiltonianBlock (RMG/Common/ApplyHamiltonianBlock.cpp): the main  *)
(* program applies the Hamiltonian to num_states orbitals, a few at a time *)
(* in the threads of the pool.  The non-local part of the operators is     *)
(* prepared beforehand, for non_local_block_size orbitals at a time, in    *)
(* the buffer nv; a task is queued with the place in nv where the part for *)
(* its orbital is.  ComputeHcore and HSmatrix have the same loops.         *)
(*                                                                         *)
(* A region of the pool is one step here: ThreadPool shows that main shares*)
(* nothing with running threads outside of a region, and that every queued *)
(* task has been run when the region ends.                                 *)
(***************************************************************************)
EXTENDS Naturals, FiniteSets

CONSTANTS
    MaxStates,      \* bound: orbitals
    MaxThreads,     \* bound: active threads
    QueueModes      \* the values of ct.mpi_queue_mode to look at

ASSUME BoundsAssumption == /\ MaxStates \in Nat \ {0}
                           /\ MaxThreads \in Nat \ {0}
                           /\ QueueModes \subseteq BOOLEAN

VARIABLES
    \* parameters of the call
    num_states, active_threads, non_local_block_size, mpi_queue_mode,
    \* locals
    phase,          \* "threads", "drain" (the last region), "serial", "done"
    st1,            \* next orbital
    first_nls,      \* next place in nv
    \* shared with the threads
    nv,             \* per place: the orbital whose non-local part is there
    Queued,         \* tasks queued and not run: an orbital and a place in nv
    applied         \* per orbital: the part its operator was applied with

params == <<num_states, active_threads, non_local_block_size, mpi_queue_mode>>
vars == <<params, phase, st1, first_nls, nv, Queued, applied>>

Orbitals == 0..(MaxStates - 1)
NONE == MaxStates           \* the operator has not been applied
UNPREPARED == MaxStates + 1 \* what is in nv where nothing has been prepared

Least(a, b) == IF a <= b THEN a ELSE b

\* The places in use are inside of the buffer.
TypeOK ==
    /\ num_states \in 1..MaxStates
    /\ active_threads \in 1..MaxThreads
    /\ non_local_block_size \in 1..MaxStates
    /\ mpi_queue_mode \in QueueModes
    /\ phase \in {"threads", "drain", "serial", "done"}
    /\ st1 \in 0..num_states
    /\ first_nls \in 0..non_local_block_size
    /\ nv \in [Orbitals -> Orbitals \cup {UNPREPARED}]
    /\ Queued \subseteq [state : Orbitals, place : 0..(non_local_block_size - 1)]
    /\ applied \in [Orbitals -> Orbitals \cup {NONE, UNPREPARED}]

\* nv after AppNls for count orbitals from first on
AppNls(first, count) ==
    [p \in Orbitals |-> IF p < count THEN first + p ELSE nv[p]]

\* istop: the orbitals that come in full rounds of active_threads
Istop == (num_states \div active_threads) * active_threads

\* The block size is at least the 64 of the input file's range, and so not less
\* than the number of threads, or it is cut to the number of orbitals.
Init ==
    /\ num_states \in 1..MaxStates
    /\ active_threads \in 1..MaxThreads
    /\ non_local_block_size \in 1..MaxStates
    /\ non_local_block_size >= Least(active_threads, num_states)
    /\ mpi_queue_mode \in QueueModes
    /\ phase = "threads"
    /\ st1 = 0
    /\ first_nls = 0
    /\ nv = [p \in Orbitals |->
               IF p < Least(non_local_block_size, num_states) THEN p ELSE UNPREPARED]
    /\ Queued = {}
    /\ applied = [s \in Orbitals |-> NONE]
-----------------------------------------------------------------------------
\* What a region makes of applied, given what is in nv: each task has used the
\* part it found at its place.
AfterRegion(tasks, buffer) ==
    [s \in Orbitals |-> IF \E t \in tasks : t.state = s
                        THEN buffer[(CHOOSE t \in tasks : t.state = s).place]
                        ELSE applied[s]]

\* the tasks of one round, with their places in nv from first on
Round(first) ==
    {[state |-> st1 + ist, place |-> first + ist] : ist \in 0..(active_threads - 1)}

\* Mutations: what a slip in the code would make of a step

\* the check forgets the threads: the block may end in the middle of a round
QueueRoundOffByRound ==
    /\ phase = "threads"
    /\ st1 < Istop
    /\ LET check   == first_nls
           refill  == check > non_local_block_size
           first   == IF refill THEN 0 ELSE first_nls
           buffer  == IF refill THEN AppNls(st1, Least(non_local_block_size, num_states - st1))
                      ELSE nv
           tasks   == Queued \cup Round(first)
       IN  /\ nv' = buffer
           /\ first_nls' = first + active_threads
           /\ Queued' = {}
           /\ applied' = AfterRegion(tasks, buffer)
    /\ st1' = st1 + active_threads
    /\ UNCHANGED <<params, phase>>

\* the place in nv is not set back when the block has been prepared
SerialWithoutReset ==
    /\ phase = "serial"
    /\ st1 < num_states
    /\ LET refill == first_nls + 1 > non_local_block_size
           buffer == IF refill THEN AppNls(st1, Least(non_local_block_size, num_states - st1))
                     ELSE nv
       IN  /\ nv' = buffer
           /\ applied' = [applied EXCEPT ![st1] = buffer[Least(first_nls, MaxStates - 1)]]
           /\ first_nls' = first_nls + 1
    /\ st1' = st1 + 1
    /\ UNCHANGED <<params, phase, Queued>>

\* the orbitals that are left over are forgotten
EndThreadsForgetsRest ==
    /\ phase = "drain"
    /\ applied' = AfterRegion(Queued, nv)
    /\ Queued' = {}
    /\ phase' = "done"
    /\ UNCHANGED <<params, st1, first_nls, nv>>
-----------------------------------------------------------------------------
\* One turn of the threaded loop: prepare the next block if this round does not
\* fit, queue the round, and run the region.  In queue mode regions are put off
\* until the block is used up.
QueueRound ==
    /\ phase = "threads"
    /\ st1 < Istop
    /\ LET check   == first_nls + active_threads
           refill  == check > non_local_block_size
           first   == IF refill THEN 0 ELSE first_nls
           buffer  == IF refill THEN AppNls(st1, Least(non_local_block_size, num_states - st1))
                      ELSE nv
           tasks   == Queued \cup Round(first)
           run     == ~ mpi_queue_mode \/ check >= non_local_block_size
       IN  /\ nv' = buffer
           /\ first_nls' = first + active_threads
           /\ Queued' = IF run THEN {} ELSE tasks
           /\ applied' = IF run THEN AfterRegion(tasks, buffer) ELSE applied
    /\ st1' = st1 + active_threads
    /\ UNCHANGED <<params, phase>>

EndThreads ==
    /\ phase = "threads"
    /\ st1 >= Istop
    /\ phase' = IF mpi_queue_mode THEN "drain" ELSE "serial"
    /\ UNCHANGED <<params, st1, first_nls, nv, Queued, applied>>

\* the region that runs what is still queued
Drain ==
    /\ phase = "drain"
    /\ applied' = AfterRegion(Queued, nv)
    /\ Queued' = {}
    /\ phase' = "serial"
    /\ UNCHANGED <<params, st1, first_nls, nv>>

\* the orbitals that do not fill a round, one by one, in main itself
Serial ==
    /\ phase = "serial"
    /\ st1 < num_states
    /\ LET refill == first_nls + 1 > non_local_block_size
           first  == IF refill THEN 0 ELSE first_nls
           buffer == IF refill THEN AppNls(st1, Least(non_local_block_size, num_states - st1))
                     ELSE nv
       IN  /\ nv' = buffer
           /\ applied' = [applied EXCEPT ![st1] = buffer[first]]
           /\ first_nls' = first + 1
    /\ st1' = st1 + 1
    /\ UNCHANGED <<params, phase, Queued>>

Finish ==
    /\ phase = "serial"
    /\ st1 >= num_states
    /\ phase' = "done"
    /\ UNCHANGED <<params, st1, first_nls, nv, Queued, applied>>

Finished == phase = "done" /\ UNCHANGED vars

Next == QueueRound \/ EndThreads \/ Drain \/ Serial \/ Finish \/ Finished

Spec == Init /\ [][Next]_vars
-----------------------------------------------------------------------------
\* Each orbital gets the operator with its own non-local part: nothing prepares
\* the next block over a part that a queued task has yet to use.
OwnNonlocalPart ==
    \A s \in Orbitals : applied[s] \in {s, NONE}

\* In the end the operator has been applied to every orbital.
AllApplied ==
    phase = "done" => \A s \in 0..(num_states - 1) : applied[s] # NONE
=============================================================================
