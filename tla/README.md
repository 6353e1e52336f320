# A verification project for RMG

RMG is a real-space multigrid density functional code.  A run is a set of MPI
processes; each process has a main thread, a pool of long lived worker threads
and, in *queue mode* (`mpi_queue_mode`), a manager thread that is the only one
to call MPI while the workers run.  This project models the part of the code
in which those threads depend on each other, checks it with TLC on small
instances, and proves the theorems that the rest leans on with TLAPS.

Paths below are relative to the root of the repository.  `PROJECT.json` maps
every definition to its lines.

## The parts of the system

| part | source | state it keeps | operations | what makes it correct |
|---|---|---|---|---|
| thread barrier | `RmgLib/src/ThreadBarrier.cpp` | `spaces`, `generation` | `wait_for_threads` | nobody leaves before all have come; everybody leaves; it can be used again at once |
| thread pool | `RmgLib/src/BaseThread.cpp`, `RMG/Common/RmgThread.cpp` | task queues, `jobs`, `in_threaded_region`, the barrier, two condition variables | `QueueThreadTask`, `run_thread_tasks`, `thread_sleep`, `thread_exit`, `RmgTerminateThreads` | a region runs every task and then ends; outside of it nothing runs |
| MPI queue | `RmgLib/src/MpiQueue.cpp` | a queue per thread, the queue of posted requests, `running`, `exitflag` | push, the manager's loop, `run_manager`, `stop_manager`, `waitgroup` | each request is served once; flags are written while they live; the manager wakes when it is needed |
| its clients | `RmgLib/src/TradeImages.cpp`, `Misc/GlobalSums.cpp`, `Misc/remap.cpp`, `RMG/Common/GatherScatter.cpp` | flags, counts and buffers on the stack | halo exchange, reduction, FFT remap, gathering of coalesced orbitals | they return when their data has come; ranks match each other's messages |
| application of the Hamiltonian | `ApplyHamiltonianBlock.cpp`, with copies of its loops in `ComputeHcore.cpp`, `HSmatrix.cpp` | the buffer `nv`, the position in it | rounds of tasks, refills | each orbital is given its own non-local part |
| multigrid cycles | `MgridSubspace.cpp`, `MgEigState.cpp`, `PotentialAcceleration.cpp` | `counter`, `skipper`, `dvh`, `vtot` | rounds of tasks, wait, update | each orbital sees the potential that its predecessors have left |
| SCF, relaxation, MD | `Quench.cpp`, `Scf.cpp`, `Relax.cpp`, `MolecularDynamics.cpp` | convergence flags, step counters | the loops | they end, with a restart file of the last step |
| nudged elastic band | `Neb.cpp` | coordinates, energies and forces of the images | exchange, quench, decide | all images stop at the same step |
| restart files | `WriteRestart.cpp`, `WriteData.cpp`, `ReadData.cpp` | two generations of files per process | rename, write, read | a crash leaves something that can be read |
| process layout | `InitPe4image.cpp`, `InitPe4kpspin.cpp`, `BaseGrid.cpp` | communicators, grid offsets | partition | every process has one place, every grid point one owner |
| numerics | `Mgrid.cpp`, `FiniteDiff.cpp`, `Davidson.cpp`, `Diagonalization/`, `Force/`, `XC/`, `US_PP/` | arrays | | out of scope |
| other programs | `ON/`, `NEGF/`, `TDDFT/` | | | use the same library; not modelled |
| vendored | `scalapack`, `spglib`, `zfp`, `dftd3`, `Tiled-MM`, XC tables | | | not modelled |

How they interact: main queues tasks for the pool, calls `run_thread_tasks`,
which wakes the manager and the workers and waits until each worker has found
its queue empty.  Workers meet in the pool's barrier (without queue mode) or
push requests for the manager and spin on flags (with it).  The multigrid
tasks pace each other with the two atomic numbers of potential acceleration.
Between regions main uses the workers' data without any lock: that is sound
only because of what the pool promises, and it is the reason why the pool
comes first here.

What is hard about it: interleavings of atomics, condition variables with and
without predicates, objects on the stack of one thread that another writes to,
lost wakeups, counters that two sides keep, barriers with the wrong number of
participants, divisions that do not go even, data prepared ahead of the tasks
that use it; between processes, matching of messages, agreement on
convergence, crashes between two renames.  `PROJECT.json` lists the hazards
one by one, at their lines.

## The modules

| module | models | with |
|---|---|---|
| `PhaseBarrier` | what a barrier promises, with no mechanism | |
| `ThreadBarrier` | `Thread_barrier_t`, one step per access to an atomic | implements `PhaseBarrier` |
| `ThreadPool` | `BaseThread` and the thread function | a barrier as in `PhaseBarrier` |
| `MpiQueue` | the manager, the queues, main's calls, three kinds of client | regions as `ThreadPool` proves them |
| `HamiltonianBlock` | the loops of `ApplyHamiltonianBlock` | a region is one step, as `ThreadPool` proves |
| `PotentialAcceleration` | the multigrid tasks of a cycle and their two counters | a process may be one of several coalesced ones |
| `Neb` | the steps of the images of an elastic band | MPI between images |
| `Restart` | `WriteRestart` by the processes of an image, with `Quench`, `Relax` and `MolecularDynamics` around it; crashes and restarts | the file system as its calls leave it |
| `GlobalSums` | the sums of the threads over the processes of a grid, in both modes | the manager as one step per request (`MpiQueue`), the barrier as one meeting |
| `ThreadBarrierProof`, `ThreadPoolProof`, `MpiQueueProof`, `GlobalSumsProof`, `HamiltonianBlockProof`, `PotentialAccelerationProof`, `NebProof`, `RestartProof` | proofs about the module of that name | |
| `MC...` | instances for TLC | |

**ThreadBarrier.**  `Enter`, `Decrement`, `Reset`, `Bump` and `StopSpinning`
are the five accesses of `wait_for_threads(true)`.  `my_generation` is the
local of that name, `rounds` is a history variable.  `GenMod` stands for 2^32,
so that the wrap can happen.  `bbarrier` (the other branch) is Boost's and is
taken to be a `PhaseBarrier`.

**ThreadPool.**  What happens under `thread_mutex` is one step; the queue,
`in_threaded_region` and the barrier are used without it and have steps of
their own.  `pc[t] = "asleep"` is a thread in `thread_cv.wait`.  The body of a
task is reduced to one barrier.  Main queues rounds of work or of skipped
tasks as `MgridSubspace` does, for any number of active threads, and ends with
`RmgTerminateThreads`.  The constant `ParkedAtStart` describes what the code
leaves to chance: have the new threads reached `thread_sleep` before main's
first region?  Notifications are the only wakeups of a condition variable:
`thread_cv.wait` has no predicate, and would not survive a spurious one.

**MpiQueue.**  A worker's exchange is a *frame*: the flags and the count are
locals of the function that waits for them, so `frame` numbers the calls and a
request carries the number of its own.  `Begin` leaves the flags as the last
call left them.  The manager's loop has one step per pop, per test, and per
store that another thread can see (`Mark` and `Count` are two).  `Predicate`
and `Block` are the two halves of `cv.wait`, and a notification may fall between
them, for `run_manager` does not take the mutex.  Kinds of exchange: `trade`
(`trade_imagesx_*_managed`), `sum` (`GlobalSums`), `remap` (`remap_3d`); which
of them a program makes is chosen at the start (`kinds`).

**HamiltonianBlock.**  `nv` maps a place to the orbital whose non-local part is
there, a task is an orbital and a place, and `applied` is the part it was given.

**PotentialAcceleration.**  A worker walks through the orbitals of its rounds;
`dvh` is the set of orbitals that have contributed to a slot and `version` the
number of updates of `vtot`.  Each load or store of `counter` and `skipper`
is a step.  In queue mode a region is a block of several rounds, which main
begins when the one before is done (`RegionBegins`, `Pick`).

**Neb.**  One process per image walks through the body of `Neb::relax`.  The
four `MPI_Sendrecv` are in `Calls`; each is a `Send` and a `Receive`, on a
channel per pair of images that keeps the order.  A message is a kind, an image
and a step: what is received can be told from what should have been.
`meetings` counts the barriers and reductions that an image has come to, `Met`
that all have.  The forces of an image are a choice in `QuenchImage`.  `file`
is the step of the restart file of an image and of the one kept with `_1`, which
each call of `WriteRestart` moves on: `Quench` makes it at any number of
checkpoints (`Checkpoint`) and at its end (`QuenchImage`), `Neb` right after it
(`SaveImage`) and when the ions have moved (`Move`).

**Restart.**  Each process of one image walks through `WriteRestart`: process 0
renames, opens and closes the head file (`SaveHead`, `OpenHead`, `CloseHead`),
all meet in the barrier (`MeetInWrite`), and each renames, opens and writes its
wave file.  `call` says for whom: `"init"` is the set with which `Quench` begins,
`"check"` a checkpoint, `"quench"` the set at the end of `Quench`, `"step"` the
one its caller writes once more.  What lies between the calls is one step for
all processes (`ScfStep`, `LowerMix`, `FinishQuench`, `Move`,
`ExtrapolateOrbitals`, `LastQuench`, `End`), for it is full of collective calls.
A file is empty, cut off (`"atoms"`: the part of the head file that is there
before the velocities) or complete, with the step it holds; orbitals are
identified by the ionic and the SCF step that made them.  `Crash` may come at
any step and keeps what the system calls have done, `Resume` reads the set as
`InitIo` and `Init` do, `Rescue` is the user who puts a kept file in the place
of one that is cut off, `StartOver` the user who has no set yet.

**GlobalSums.**  A summand is the region, the orbital and the number of the sum
it is for, so that what is added up shows for whom.  `begun` is, per process and
communicator, the list of reductions begun; MPI takes the k-th of each process
for the same, and a call is over when all processes have begun theirs.  In queue
mode `Post` and `Complete` stand for the thread's request and the manager's work
on it.  The tasks of a region may be `paced`: those of `GetNewRho` come to the
barrier of the pool first (`GetNewRho.cpp:213`, here `Start`), so that the
threads of a process never begin sums of different rounds; those of `MgridSubspace` and
`DavPreconditioner` do not.  (A task of `GetNewRho` for an unoccupied orbital
returns after the barrier and sums nothing, on all processes alike: that is a
task with fewer sums, and not in the model.)  Without queue mode a region is one
round; there `Fill`, `AfterFirst`, `Reduce` and `Fetch` are the parts of the
call between the two barriers.

## The runs

| run | instance | shows |
|---|---|---|
| `thread_barrier` | 3 threads, 5 meetings, 3 generations (wraps) | type, `NobodyPassesAlone`, `OneGenerationBehind`, `EveryoneReturns`, refinement of `PhaseBarrier` |
| `thread_pool` | 3 threads, 2 regions, 2 rounds | `JobsCountsBusy`, `QuietOutside`, `ReturnsWhenAllDone`, `SleepsOnlyWithoutTask`, `RegionsEnd`, `AllJoined` |
| `mpi_queue` | 2 threads, 2 regions, an exchange each; trades and sums, or remaps and sums | `GroupsOutliveWrites`, `NoRequestLost`, `SleepsOnlyWhenIdle`, `ReturnsAfterCompletion`; regions end and the manager returns unless the wakeup was lost (`OnlyLostWakeupStops`, `ManagerReturns`) |
| `hamiltonian_block` | all calls up to 8 orbitals, 3 threads | `OwnNonlocalPart` and, from inside the buffer, `TypeOK`; `AllApplied` |
| `nonlocal_block_overwritten` | the same in queue mode, any block | **finding** |
| `acceleration` | up to 7 orbitals in one process, up to 8 over two; slots of 1 to 4; blocks of one or two rounds | `ReadsSettledPotential`, `UpdatesAreComplete`, `SkipperIsExact`, `CyclesEnd` |
| `neb` | 2 to 4 images, 3 steps, the last image never alone with a large force | `BetweenItsNeighbours`, `StopTogether`, `RestartsAreClose`, `AllDone` |
| `neb_last_image` | 3 images, 2 steps, any forces | **finding** |
| `restart` | 2 processes, up to 2 moves, 3 SCF steps in a quench and 2 crashes; quench, relaxation, dynamics; with and without checkpoints | `EveryFileHasACopy`, `RestartIsClose`, `HalfStepIsShort`, `EndsWell`, `ResetFindsStart`, `JobEnds` |
| `extrapolation_same_step` | quench, relaxation, dynamics, no crash | **finding** |
| `global_sums` | 2 processes, 2 threads, 2 sums per task, a pool of 3; both modes; at most 3 regions, 3 rounds, 4 rounds in all | `SumsMatch`, `AllSummed` |
| `global_sums_long_region` | the same in queue mode, one sum, one region of 2 rounds that is not paced | **finding** |

*Bounds.*  Three threads are the least with which the barrier and the pool
have a first, a last and one in between; two regions the least in which
something may be left over from the one before.  Three generations and five
meetings make the generation wrap while threads of two rounds are about.  The
queue needs two threads for its polling order and `breakcount` to matter, and
two regions for a stale flag, a stale count and a second wakeup.  Eight
orbitals with up to three threads give every way in which orbitals, threads
and block do and do not divide each other, with at least two refills.  Seven
orbitals with slots of up to three are at least two full slots and a rest;
eight over two processes with two threads each are two slots, each of which is
summed over the processes while the other's orbitals wait.  Two images are the
ring in which left and right are one, three the least with one in the middle,
four the least in which two images share no message; three steps have a step
before and one after.  Two processes and one that writes the head file are
enough for a crash between any two files; two moves are the least with a step
before the last, three SCF steps leave room for a checkpoint and for lower
mixing after it, and the second crash hits a job that was restarted.  The pool of
three communicators is enough for one round of two threads and too small for two,
as the pool of RMG is for a region of more than about twenty rounds; three
regions and two sums per task let one process be a region, or a sum, ahead of
the other; three rounds bring a paced region back to a communicator that it has
used.  Rounds and regions are four at most together, which keeps the run short.

*Deadlock* is checked except in `mpi_queue` (a lost wakeup really stops the
process) and in `neb_last_image`, whose point is that the program may stop.

*Fairness.*  Weak fairness of each thread: the operating system schedules all
of them, and none waits for a lock that another may take again and again (the
waits are on flags and counters that stay as they are once they are right).
Weak fairness of main: its computations end.  Weak fairness of `Complete`: MPI
completes what both sides have posted as long as somebody tests, and the
manager tests.  Weak fairness of each image: its processes run, and a message
or a barrier that all have come to is not put off for ever.  In `Restart`, weak
fairness of `Job` (its processes run) and of `User` (somebody sees to a job that
has crashed); a job ends because its loops have limits and crashes are finitely
many.  In `GlobalSums`, weak fairness of each worker, whose step `Complete`
stands for the manager that polls, and of each main.

### What the runs leave out, and what would happen there

These are restrictions of the instances, each for a behaviour of the code that
would spoil every other property; it can be seen when the restriction is taken
away.

- `thread_pool`: threads are parked before the first region (`ParkedAtStart`).
  The code does not enforce it: main may notify before a new thread has reached
  `thread_cv.wait`, which then sleeps through its first task while `jobs` waits
  for it.  The pool then stops.
- `mpi_queue`: the manager can miss a notification that falls between its look
  at `running` and its sleep (`MpiQueue.cpp:207` notifies without the mutex).
  The window is in the model; `OnlyLostWakeupStops` says that nothing else keeps
  a region from ending.
- `mpi_queue`: a program that remaps makes no trades in the same run.
  `remap_3d` returns without `waitgroup`, and what the manager writes to its
  count after that may hit the count of a later trade.
- `mpi_queue`: no queue is ever full.  A trade has at most 26 receives and 26
  sends, and a thread's queue 64 places.  `remap_3d` pushes a receive for every
  partner of its plan, and looks neither at their number nor at what `push`
  returns (`remap.cpp:139`): with more partners than places it would wait for
  ever.  Nothing is claimed about that.
- `global_sums`: in queue mode the tasks are paced, or the pool has a
  communicator for each orbital of the region (`CommsSuffice`);
  `global_sums_long_region` has the rest.
- `hamiltonian_block`: in queue mode the block is a whole number of rounds, or
  there is only one block; `nonlocal_block_overwritten` has the rest.
- `acceleration`: without queue mode a round lies within a slot (`NoStraddle`).
  Otherwise one thread waits for the slot before its own while the thread that
  has that slot waits for it in the barrier of the halo exchange.
- `neb`: the last image is not the only one whose force is large
  (`LastIsCovered`); `neb_last_image` has the rest.
- `restart`: a crash ends the processes and not the machine, so that what has
  been written is on the disk; the output is not `/dev/null`; no outer loop of a
  hybrid functional; the user puts back kept files, and only those.

### What the code does that it says it does not

Each `violation` run is one disagreement: with the quotation it contradicts
they are in `PROJECT.json` under `findings`.

1. `nonlocal_block_overwritten`: the non-local block is overwritten in queue mode
   when the threads do not divide it (`ApplyHamiltonianBlock.cpp:77`).
2. `neb_last_image`: the elastic band stops, or hangs, without a look at the last
   image's force (`Neb.cpp:267`).
3. `extrapolation_same_step`: the wave file that `ExtrapolateOrbitals` reads as that
   of the step before is the one of this step, for `Quench` and its caller both
   write it (`Quench.cpp:608`, `Relax.cpp:163`): nothing is extrapolated.
4. `global_sums_long_region`: the header of the pool promises each orbital a
   communicator of its own, but there are `20*THREADS_PER_NODE + 1`
   (`BaseThread.cpp:285`), and the tasks of a region in queue mode may be more
   (`DavPreconditioner.cpp:99`).  Two orbitals that many apart share one, and
   their sums can be mixed up.  In RMG it takes a thread that is about twenty
   rounds ahead of another of its process, while the other process is not: rare,
   but nothing excludes it where the tasks are not paced.

One more was met and has no run of its own: `Quench.cpp:204` says that in
molecular dynamics the files are saved "at the end of each ionic step", but
`Quench` writes them at checkpoints and at its end (206, 608) whatever is
calculated, when the velocities are half a step behind the positions.  A job
that crashes then is restarted out of phase (`Resume` with `ions.vel = "half"`).
`HalfStepIsShort` says how far that goes: from the first set that the quench of a
step writes to the head file that `MolecularDynamics.cpp:265` writes, no longer.

## The proofs

`ThreadBarrierProof`, for every finite set of threads, every width of the
generation from two values on, and every bound on the meetings:

- `TypeCorrect`, `GenerationWrapIsSafe`, `BarrierSafety`: the invariants of the
  run `thread_barrier`.
- `BarrierRefinement`: `Spec => PhaseSpec`.

None of them is inductive as it stands.  `IInv` adds the accounting that the
code relies on: `spaces` is the number of threads that have not arrived; at
most one thread is between its decrement and the bump, and then `spaces` says
so; a thread about to decrement has loaded the generation that is still
current; threads that are late are in the round just before.  The count is
handled with lemmas on cardinalities (`FullHouse`: if nobody is missing
everybody has arrived), each action has a lemma of its own.

`ThreadPoolProof`, for every number of threads, regions and rounds, under
`ParkedAtStart` (it stands in the theorems as `ParkedAtStart /\ Spec => ...`):

- `TypeCorrect`, `CountIsRight`, `Quiet`, `RegionIsComplete`, `SleepsEmptyHanded`;
- `BarrierIsNeverDangling`: nobody is in a barrier that main has deleted
  (`BarrierLives`, which no run checks: it is `Quiet` at the place where it
  matters most).

The strengthening says what is in the queues and where threads are, for each
place of main: outside of a region everyone is asleep (or gone), in a region a
thread that sleeps has an empty queue and `jobs` counts the others
(`OneFewer`, `NobodyLeft` are the two facts about the count), a thread of the
exit round is at its exit or gone.  `RegionIsComplete` and `SleepsEmptyHanded`
are action properties and follow from the same invariant.

`MpiQueueProof`, for every number of threads, receives, sends, regions and
exchanges, and every capacity of the queues:

- `QueueTypeCorrect`, with no hypothesis;
- `WritesToLiveFrames` (`GroupsOutliveWrites`), `SleepsWithNothingToDo`
  (`SleepsOnlyWhenIdle`), `CallsReturnComplete` (`ReturnsAfterCompletion`) under
  `KindsAreSeparate`: a program trades or remaps, not both, which is the
  restriction of the run, and is needed for the reason given there;
- `NoRequestIsLost` (`NoRequestLost`) under `TradesOnly` and `RmgQueues`: the
  program trades and sums and does not remap, an exchange has at most 26 receives
  and 26 sends (those of `trade_imagesx`; `GatherScatter` has no more than 32 in
  all), and the queues are those of RMG, with 64 places for a thread
  (`InitIo.cpp:677`) and 54 for each thread in the queue of posted requests
  (`MpiQueue.cpp:66`).  The number of threads is any.  The lemma `NoneIsLost`
  has it for all queues as large as the requests there can be
  (`QueuesSuffice`).  Of `remap_3d`, whose receives nothing bounds, it says nothing.

`QueueInv` says where each request can be: every one in a queue belongs to the
call that its thread is in and has not been completed (`Waiting`), and is in one
place only (`Once`).  `Accounts` ties the count of a trade to the requests: it is
the number of those not yet taken off it, the one between `Mark` and `Count`
included (`Counted`).  So the count reaches zero only when the manager has
nothing left to write, which is what makes `waitgroup` safe.  `NothingRefused`
adds that a request that is neither completed nor in the manager's hands is in
a queue.

`GlobalSumsProof`, for every number of processes, threads, communicators, tasks,
sums and regions, in both modes:

- `SumsAreOfTheOrbital`: `Spec /\ CommsSuffice => []SumsMatch`.  In queue mode
  `CommsSuffice` asks that the tasks be paced or the orbitals of a region be no
  more than the communicators; `global_sums_long_region` refutes it otherwise.

With queue mode the difficulty is that a paced region uses a communicator again
and again, for orbitals a multiple of the pool apart.  The invariant (`QueueInv`)
says of the list of reductions of a process on a communicator that it holds just
the sums that the threads have asked for and whose orbitals belong there
(`Recorded`), in the order of regions, then orbitals, then sums (`Increasing`),
and that none before them has been passed over (`Closed`).  The last is where
pace or plenty are needed: an earlier orbital on the same communicator belongs to
an earlier round, which with pace all threads are done with (`Paced`), while with
enough communicators there is none.  Two lists that increase and pass over
nothing agree as far as both go (`Agree`), so that the k-th entries are of the
same orbital, sum and region; a thread that waits, waits for its own entry
(`Waiting`).

Without it (`BarrierInv`) every sum is two meetings of the process's threads:
the meetings a thread has been to, and the one it owes in the middle of a call,
are twice the calls it has begun, and no thread is past a meeting that its
process has not come to.  So the threads that are between the two meetings are
in the same call, what is in the process's buffer is of that call, and the k-th
reduction of every process holds the k-th sum of each of its threads.  `SameCall`
closes the argument: the k-th sum of thread t is for the same region and orbital
in all processes.

`HamiltonianBlockProof`, for every number of orbitals, threads and block size:

- `BlockTypeCorrect`, of `Spec`: in either mode, and for any block, a task's
  place is inside the buffer;
- `PartsAreOwn` (`OwnNonlocalPart`), `EveryOrbitalIsApplied` (`AllApplied`), of
  `MCSpec`, in which a block of queue mode is a whole number of rounds or holds
  all orbitals (`nonlocal_block_overwritten` is what happens otherwise).

`BlockInv` says what the buffer holds (`Prepared`: at each place the part of the
orbital that many places after the start of the block), that the tasks queued
have the place of their orbital (`TasksPlaced`), and that the next round starts
inside the buffer or at its refill (`NextRoundFits`).

`PotentialAccelerationProof`, for every number of orbitals, threads, coalesced
processes, cycles, and every width of a slot and of a block:

- `SlotsTypeCorrect`, `SettledWhenRead` (`ReadsSettledPotential`),
  `WholeSlotsUpdate` (`UpdatesAreComplete`), `SkipperNeverPasses`
  (`SkipperIsExact`).

They need no more than the assumption on the constants; in particular they hold
also of rounds that straddle a slot, which the run leaves out because they stop
(`NoStraddle`).  The invariant reads the two atomic numbers: while a process is
in a slot, `counter` is one past the last orbital it has there and `skipper` the
number of those that are through (`Counted`); slots before it are through, slots after it have not begun,
and its last orbital is still to come (`InTurn`); the thread that has it waits
until all others are through (`LastEnds`); each of them has been added to `dvh`
by then (`Summed`, `HaveAdded`).  The arithmetic of orbitals, rounds and slots is
in lemmas of its own.

`NebProof`, for every number of images and steps:

- of `Spec`, with no hypothesis: `ExchangeIsConsistent`, `NebTypeCorrect`,
  `NeighboursAreRight` (`BetweenItsNeighbours`);
- of `MCSpec`, in which the last image is never the only one with a large force
  (`LastIsCovered`; `neb_last_image` has the rest): `ImagesStopTogether`
  (`StopTogether`), `ConvergedIsRelaxed`, `RestartFilesAreClose`
  (`RestartsAreClose`).

`ExchangeInv` says how far two images can be apart (`Near`, from the meetings
that each has `Counted`), and hence what is on the way between neighbours
(`OnTheWay`) and what has come (`Received`): a channel never holds a message
of another step than the one its reader is in or about to begin.  `StopInv`
adds that all images past a reduction have the same answer (`Agreed`).
`RestartFilesAreClose` does not depend on how often a quench writes: what counts is
that images are at most one meeting apart, so that an image that has moved finds
all others past the quench of the step before, with both of their files of that
step, and itself keeps one when it writes the next; nobody is in the next quench
before all have moved.

`RestartProof`, for every number of processes, moves, SCF steps, halvings and
crashes:

- `TypeCorrect`, `NoFileIsLost`, `LowerMixFindsStart`, `JobsEndWell`,
  `RestartsFindNearOrbitals` (`RestartIsClose`), `HalfStepsPass`
  (`HalfStepIsShort`).

`NoFileIsLost` needs to know which process is where when the crash comes:
`FileInv` says that the head file of the output is there unless process 0 is
between the rename and the end of its writing (`HeadBusy`), when the kept one is;
the same of each wave file (`WaveBusy`); that the wave files come after a complete
head file (`HeadWritten`), which is what the barrier is for; and that a crashed
job has a copy of each file (`CrashInv`).  `LowerMixFindsStart` rests on
`ResetInv`: from the moment a process has written its file of the set `"_init"`
until the SCF loop ends, that file holds the orbitals of the start.
`JobsEndWell` rests on `DirInv` (the directory is there before another process
opens a file) and on `LastInv`: when a caller of `Quench` writes its set, both
the file and the kept one hold the orbitals in memory.  `MixInv` bounds the
halvings.  `RestartsFindNearOrbitals` rests on `CloseInv`, which follows what a
restart would find of each file once kept files are put back (`LastHead`,
`LastWave`): orbitals are written with the positions they belong to (`StepInv`),
the head file is of the step that is being written before any wave file is
(`HeadStepInv`), nothing has moved before the first set is complete
(`UnsavedInv`), and a move starts from a complete set (`WrittenInv`), so that
the kept files are one move behind at most.  In molecular dynamics it is one
more for each crash, because a job that is restarted moves before it calculates
(`Gap`).  `HalfStepsPass` rests on `PhaseInv`: a file that is not usable and one
that is there before the first set is complete have no half step, nor has any of
a relaxation.  Each part of the code has a lemma: process 0 and the head file, a
process and its wave file, the loops, the crash and what follows it.

`HamiltonianBlock`, `MpiQueue` and `PotentialAcceleration` rest on
`RegionIsComplete` and `Quiet` when they take a region for a step or main for
quiet; nothing but these two sentences connects the modules.

Every invariant and every action property that a passing run checks is also a
theorem.  Model-checked only: `EveryoneReturns`, `RegionsEnd`, `AllJoined`,
`OnlyLostWakeupStops`, `ManagerReturns`, `CyclesEnd`, `AllDone`, `JobEnds`,
`AllSummed`.  Liveness under fairness is beyond the proof system.

## What is not modelled

Numerics, parsing and output; memory orders weaker than sequential consistency
(the code's acquire and release pairs order what the models say is ordered);
spurious wakeups of condition variables; the loss of data that a process has
written when the machine fails; compressed and serial formats of the restart
files; several images that write restart files at once (`Neb` has their order,
`Restart` the files of one);
GPUs; MPI itself beyond "what has been posted completes"; the ON, NEGF and
TDDFT programs; vendored code; the OpenMP regions of `BaseThread`, which
nothing calls.  The components list of `PROJECT.json` has a line for each.

## The plan

Done: barrier, pool, queue, block loops, potential acceleration with blocks,
elastic band, restart files with the loops around them, global sums; proofs of
every invariant and action property of the runs.  Next, in this order:

1. `TradeImages`: the ranks of a grid in one exchange and the order in which
   requests are unpacked; no rank gets another orbital's halo.  `GatherScatter`
   on the same base: messages of coalesced processes.
2. `MgridBlocks`: the arithmetic of blocks, padding and sizes (`block_size` 0,
   `max_states`), `BaseGrid`'s partition, the levels of `Mgrid`,
   `InitPe4kpspin`, as operators against reference definitions.
3. An abstract `TaskRegion` (a region runs a bag of tasks) that `ThreadPool`
   implements and that the clients instantiate.

The project keeps its runs and properties few enough to be read (twelve runs,
forty properties of passing runs): a later module takes the place of what tells
least.
