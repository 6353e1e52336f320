----------------------- MODULE PotentialAcceleration -----------------------
(***************************************************************************)
(* Potential acceleration (RMG/Common/PotentialAcceleration.cpp, called by *)
(* MgEigState for the tasks that MgridSubspace queues): the potential vtot *)
(* is updated while the orbitals of a multigrid cycle are worked on.  The  *)
(* orbitals are divided into slots of dvh_skip.  Each adds its part to the *)
(* slot's sum in dvh; the last orbital of the slot waits for the others,   *)
(* updates vtot, and lets the orbitals of the next slot start.  The atomic *)
(* numbers counter and skipper order all of this.                          *)
(*                                                                         *)
(* With coalesced grids the orbitals of a slot are spread over             *)
(* coalesce_factor processes, which add up their sums with a reduction.    *)
(* Each process has a counter, a skipper, a dvh and a vtot of its own.     *)
(*                                                                         *)
(* MgridSubspace queues the tasks in rounds, one orbital per thread, and in*)
(* queue mode runs them in regions of the pool of one block each.  The     *)
(* tasks of the last round that have no orbital work on padding ones.      *)
(***************************************************************************)
EXTENDS Naturals, FiniteSets

CONSTANTS
    MaxStates,      \* bound: orbitals
    Threads,        \* the numbers of active threads to look at
    Coalesce,       \* the values of coalesce_factor to look at
    Skips,          \* the values of dvh_skip without coalescing
    QueueModes,     \* the values of mpi_queue_mode to look at
    Blocks,         \* the rounds of a block to look at
    MaxVcycles      \* bound: multigrid cycles

ASSUME BoundsAssumption ==
    /\ MaxStates \in Nat \ {0} /\ MaxVcycles \in Nat
    /\ Threads \subseteq Nat \ {0} /\ Coalesce \subseteq Nat \ {0}
    /\ Skips \subseteq Nat \ {0} /\ Blocks \subseteq Nat \ {0} /\ QueueModes \subseteq BOOLEAN

VARIABLES
    nstates, active_threads, coalesce_factor, dvh_skip, mpi_queue_mode,
    block_rounds,   \* block_size, in rounds
    vcycle,         \* cycles run
    round,          \* per thread: rounds of orbitals begun
    pc,             \* per thread
    counter, skipper,   \* per process
    version,        \* per process: updates of vtot in this cycle
    dvh,            \* per process: the orbitals that have added to each slot
    summed          \* per process: slots whose reduction is made or asked for

params == <<nstates, active_threads, coalesce_factor, dvh_skip, mpi_queue_mode,
            block_rounds>>
atomics == <<counter, skipper>>
vars == <<params, vcycle, round, pc, atomics, version, dvh, summed>>

Processes == 0..(coalesce_factor - 1)
Workers == Processes \X (0..(active_threads - 1))

\* orbitals of a round in all processes, and the number of rounds that
\* MgridSubspace makes of nstates (mstates is the number of them all)
Stride == active_threads * coalesce_factor
Rounds == (nstates + Stride - 1) \div Stride

\* the orbital that a thread is at
State(w) == (round[w] - 1) * Stride + w[1] * active_threads + w[2]
Slot(w) == State(w) \div dvh_skip

\* the orbitals from check on are in no slot
Check == (nstates \div dvh_skip) * dvh_skip
InSlot(w) == State(w) < Check
Slots == 0..(MaxStates - 1)

Places == {"pick", "wait", "barrier", "compute", "add", "check", "skip",
           "gather", "sum", "summing", "update", "reset", "advance"}

TypeOK ==
    /\ nstates \in 1..MaxStates
    /\ active_threads \in Threads /\ coalesce_factor \in Coalesce
    /\ mpi_queue_mode \in QueueModes /\ block_rounds \in Blocks
    /\ dvh_skip \in Nat \ {0}
    /\ vcycle \in 0..MaxVcycles
    /\ round \in [Workers -> 0..Rounds]
    /\ pc \in [Workers -> Places]
    /\ counter \in [Processes -> 0..(2 * MaxStates + 2 * Stride + dvh_skip)]
    /\ skipper \in [Processes -> 0..MaxStates]
    /\ version \in [Processes -> 0..MaxStates]
    /\ dvh \in [Processes -> [Slots -> SUBSET (0..(MaxStates - 1))]]
    /\ summed \in [Processes -> SUBSET Slots]

\* PotentialAccelerationReset by MgridSubspace at the begin of a cycle
ResetCounter(p) == p * active_threads + dvh_skip \div coalesce_factor

\* Init.cpp: with coalesced states a slot is a round.  They require queue mode, and
\* Kpoint.cpp makes nstates a multiple of coalesce_factor.
Init ==
    /\ nstates \in 1..MaxStates
    /\ active_threads \in Threads
    /\ coalesce_factor \in Coalesce
    /\ nstates % coalesce_factor = 0
    /\ dvh_skip \in (IF coalesce_factor > 1 THEN {Stride} ELSE Skips)
    /\ mpi_queue_mode \in QueueModes /\ block_rounds \in Blocks
    /\ coalesce_factor > 1 => mpi_queue_mode
    /\ vcycle = 0
    /\ round = [w \in Workers |-> 0]
    /\ pc = [w \in Workers |-> "pick"]
    /\ counter = [p \in Processes |-> ResetCounter(p)]
    /\ skipper = [p \in Processes |-> 0]
    /\ version = [p \in Processes |-> 0]
    /\ dvh = [p \in Processes |-> [i \in Slots |-> {}]]
    /\ summed = [p \in Processes |-> {}]
-----------------------------------------------------------------------------
Goto(w, place) == pc' = [pc EXCEPT ![w] = place]

\* Mutation: a round too many
PickOneMore(w) ==
    /\ pc[w] = "pick"
    /\ round[w] <= Rounds
    /\ round' = [round EXCEPT ![w] = @ + 1]
    /\ Goto(w, "wait")
    /\ UNCHANGED <<params, vcycle, atomics, version, dvh, summed>>

\* A region of the pool begins with the round: that of a block, or without queue
\* mode of the round alone.
RegionBegins(w) == mpi_queue_mode => round[w] % block_rounds = 0

\* The thread takes its task of the next round.  Before a region all threads of the
\* process have finished the last one.
Pick(w) ==
    /\ pc[w] = "pick"
    /\ round[w] < Rounds
    /\ RegionBegins(w) => \A u \in Workers : u[1] = w[1] =>
           round[u] >= round[w] /\ (round[u] = round[w] => pc[u] = "pick")
    /\ round' = [round EXCEPT ![w] = @ + 1]
    /\ Goto(w, "wait")
    /\ UNCHANGED <<params, vcycle, atomics, version, dvh, summed>>

\* Mutation: wait until the counter reaches the orbital
WaitOffByOne(w) ==
    /\ pc[w] = "wait"
    /\ InSlot(w) => State(w) <= counter[w[1]]
    /\ Goto(w, "barrier")
    /\ UNCHANGED <<params, vcycle, round, atomics, version, dvh, summed>>

\* PotentialAccelerationWait
Wait(w) ==
    /\ pc[w] = "wait"
    /\ InSlot(w) => State(w) < counter[w[1]]
    /\ Goto(w, "barrier")
    /\ UNCHANGED <<params, vcycle, round, atomics, version, dvh, summed>>

\* ApplyHamiltonian begins.  Without queue mode the threads of the round meet in
\* the barrier of trade_imagesx.  (Not so if the grid has only one process.)
Barrier(w) ==
    /\ pc[w] = "barrier"
    /\ mpi_queue_mode \/ \A u \in Workers : round[u] = round[w] /\ pc[u] # "wait"
    /\ Goto(w, "compute")
    /\ UNCHANGED <<params, vcycle, round, atomics, version, dvh, summed>>

\* ApplyHamiltonian has read vtot for the last time
Compute(w) ==
    /\ pc[w] = "compute"
    /\ Goto(w, IF InSlot(w) THEN "add" ELSE "pick")
    /\ UNCHANGED <<params, vcycle, round, atomics, version, dvh, summed>>

\* Under vtot_sync_mutex: dvh += ...
Add(w) ==
    /\ pc[w] = "add"
    /\ dvh' = [dvh EXCEPT ![w[1]][Slot(w)] = @ \cup {State(w)}]
    /\ Goto(w, "check")
    /\ UNCHANGED <<params, vcycle, round, atomics, version, summed>>

\* if(istate == counter - 1)
CheckLast(w) ==
    /\ pc[w] = "check"
    /\ Goto(w, IF State(w) = counter[w[1]] - 1 THEN "gather" ELSE "skip")
    /\ UNCHANGED <<params, vcycle, round, atomics, version, dvh, summed>>

\* skipper.fetch_add(1)
Skip(w) ==
    /\ pc[w] = "skip"
    /\ skipper' = [skipper EXCEPT ![w[1]] = @ + 1]
    /\ Goto(w, "pick")
    /\ UNCHANGED <<params, vcycle, round, counter, version, dvh, summed>>

\* Mutation: the last one does not wait for the others of its slot
GatherAtOnce(w) ==
    /\ pc[w] = "gather"
    /\ Goto(w, IF coalesce_factor > 1 THEN "sum" ELSE "update")
    /\ UNCHANGED <<params, vcycle, round, atomics, version, dvh, summed>>

\* The last one waits for the others of its slot
Gather(w) ==
    /\ pc[w] = "gather"
    /\ skipper[w[1]] = dvh_skip \div coalesce_factor - 1
    /\ Goto(w, IF coalesce_factor > 1 THEN "sum" ELSE "update")
    /\ UNCHANGED <<params, vcycle, round, atomics, version, dvh, summed>>

\* the reduction of the slot over the processes is pushed ...
PushSum(w) ==
    /\ pc[w] = "sum"
    /\ summed' = [summed EXCEPT ![w[1]] = @ \cup {Slot(w)}]
    /\ Goto(w, "summing")
    /\ UNCHANGED <<params, vcycle, round, atomics, version, dvh>>

\* ... and is complete when all of them have taken part
EndSum(w) ==
    /\ pc[w] = "summing"
    /\ \A p \in Processes : Slot(w) \in summed[p]
    /\ dvh' = [dvh EXCEPT ![w[1]][Slot(w)] = UNION {dvh[p][Slot(w)] : p \in Processes}]
    /\ Goto(w, "update")
    /\ UNCHANGED <<params, vcycle, round, atomics, version, summed>>

\* vtot += dvh, which takes from "update" to here
Update(w) ==
    /\ pc[w] = "update"
    /\ version' = [version EXCEPT ![w[1]] = @ + 1]
    /\ Goto(w, "reset")
    /\ UNCHANGED <<params, vcycle, round, atomics, dvh, summed>>

\* Mutation: skipper is not set back
ResetForgotten(w) ==
    /\ pc[w] = "reset"
    /\ Goto(w, "advance")
    /\ UNCHANGED <<params, vcycle, round, atomics, version, dvh, summed>>

\* skipper.store(0)
ResetSkipper(w) ==
    /\ pc[w] = "reset"
    /\ skipper' = [skipper EXCEPT ![w[1]] = 0]
    /\ Goto(w, "advance")
    /\ UNCHANGED <<params, vcycle, round, counter, version, dvh, summed>>

\* by how much the counter moves on: less at the end of coalesced states
Increment(w) ==
    IF coalesce_factor > 1
    THEN dvh_skip - coalesce_factor *
           Cardinality({n \in 1..active_threads :
              (round[w] - 1) * Stride + 2 * n * coalesce_factor > nstates})
    ELSE dvh_skip

\* Mutation: the counter moves on by the orbitals of one process
AdvanceByOwn(w) ==
    /\ pc[w] = "advance"
    /\ counter' = [counter EXCEPT ![w[1]] = @ + dvh_skip \div coalesce_factor]
    /\ Goto(w, "pick")
    /\ UNCHANGED <<params, vcycle, round, skipper, version, dvh, summed>>

\* counter.fetch_add(skip): the next slot starts
Advance(w) ==
    /\ pc[w] = "advance"
    /\ counter' = [counter EXCEPT ![w[1]] = @ + Increment(w)]
    /\ Goto(w, "pick")
    /\ UNCHANGED <<params, vcycle, round, skipper, version, dvh, summed>>

Worker(w) == \/ Pick(w) \/ Wait(w) \/ Barrier(w) \/ Compute(w) \/ Add(w)
             \/ CheckLast(w) \/ Skip(w) \/ Gather(w) \/ PushSum(w) \/ EndSum(w)
             \/ Update(w) \/ ResetSkipper(w) \/ Advance(w)

\* All regions of the cycle have ended: MgridSubspace begins the next one.
NextVcycle ==
    /\ \A w \in Workers : round[w] = Rounds /\ pc[w] = "pick"
    /\ vcycle < MaxVcycles
    /\ vcycle' = vcycle + 1
    /\ round' = [w \in Workers |-> IF vcycle' < MaxVcycles THEN 0 ELSE Rounds]
    /\ counter' = [p \in Processes |-> ResetCounter(p)]
    /\ version' = [p \in Processes |-> 0]
    /\ dvh' = [p \in Processes |-> [i \in Slots |-> {}]]
    /\ summed' = [p \in Processes |-> {}]
    /\ UNCHANGED <<params, pc, skipper>>

Finished == vcycle = MaxVcycles /\ UNCHANGED vars

Next == (\E w \in Workers : Worker(w)) \/ NextVcycle \/ Finished

Spec == Init /\ [][Next]_vars

\* every thread runs, and main goes on
FairSpec == /\ Spec
            /\ WF_vars(NextVcycle)
            /\ \A p \in 0..(MaxStates - 1), t \in 0..(MaxStates - 1) :
                  WF_vars(<<p, t>> \in Workers /\ Worker(<<p, t>>))
-----------------------------------------------------------------------------
\* An orbital of a slot is worked on with the potential that all slots before it
\* have updated, and nobody updates it meanwhile.
ReadsSettledPotential ==
    \A w \in Workers : pc[w] = "compute" /\ InSlot(w) =>
        /\ version[w[1]] = Slot(w)
        /\ \A u \in Workers : u[1] = w[1] => pc[u] # "update"

\* The potential is updated with the parts of all orbitals of the slot, from
\* every process, and of no other.
UpdatesAreComplete ==
    \A w \in Workers : pc[w] = "update" =>
        dvh[w[1]][Slot(w)] =
            {s \in 0..(nstates - 1) : s \div dvh_skip = Slot(w)}

\* The number that the last orbital of a slot waits for is reached exactly: it is
\* compared with #, so once passed it would never be seen.
SkipperIsExact ==
    \A p \in Processes : skipper[p] <= dvh_skip \div coalesce_factor - 1

\* Every cycle ends: no orbital waits for a slot that waits for it.
CyclesEnd == <>(vcycle = MaxVcycles)
=============================================================================
