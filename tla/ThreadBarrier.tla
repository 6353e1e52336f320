--------------------------- MODULE ThreadBarrier ---------------------------
(***************************************************************************)
(* Thread_barrier_t (RmgLib/src/ThreadBarrier.cpp): the spinning barrier   *)
(* that the threads of one threaded region share.  A step is one access to *)
(* an atomic member, so every interleaving of the loads, decrements and    *)
(* stores of wait_for_threads(true) is a behaviour.                        *)
(*                                                                         *)
(* generation is an unsigned of the machine: it wraps.  GenMod is the      *)
(* number of its values (2^32 in the build).                               *)
(***************************************************************************)
EXTENDS Naturals, FiniteSets

CONSTANTS
    Threads,        \* the rjobs threads of the region
    GenMod,         \* number of values of the unsigned generation
    MaxRounds       \* bound: how often each thread calls the barrier

ASSUME ThreadsAssumption == IsFiniteSet(Threads) /\ Threads # {}
ASSUME GenModAssumption == GenMod \in Nat /\ GenMod >= 2
ASSUME MaxRoundsAssumption == MaxRounds \in Nat

count == Cardinality(Threads)

VARIABLES
    spaces,         \* threads still missing from this round
    generation,     \* number of this round, modulo GenMod
    my_generation,  \* per thread: the generation it loaded when it came
    pc,             \* per thread: the next access of wait_for_threads
    rounds          \* per thread: the calls it has returned from (history)

vars == <<spaces, generation, my_generation, pc, rounds>>

TypeOK ==
    /\ spaces \in 0..count
    /\ generation \in 0..(GenMod - 1)
    /\ my_generation \in [Threads -> 0..(GenMod - 1)]
    /\ pc \in [Threads -> {"out", "decrement", "reset", "bump", "spin"}]
    /\ rounds \in [Threads -> 0..MaxRounds]

\* ++generation of an unsigned
NextGeneration(g) == IF g = GenMod - 1 THEN 0 ELSE g + 1

Init ==
    /\ spaces = count
    /\ generation = 0
    /\ my_generation = [t \in Threads |-> 0]
    /\ pc = [t \in Threads |-> "out"]
    /\ rounds = [t \in Threads |-> 0]

-----------------------------------------------------------------------------
(* Mutations: what a slip in the code would make of an action.  No           *)
(* specification uses them; they show that the properties can fail.          *)

\* if (--spaces <= 1): the last but one thinks that it is the last
DecrementOffByOne(t) ==
    /\ pc[t] = "decrement"
    /\ spaces' = spaces - 1
    /\ pc' = [pc EXCEPT ![t] = IF spaces <= 2 THEN "reset" ELSE "spin"]
    /\ UNCHANGED <<generation, my_generation, rounds>>

\* spaces = count is missing
ResetForgotten(t) ==
    /\ pc[t] = "reset"
    /\ pc' = [pc EXCEPT ![t] = "bump"]
    /\ UNCHANGED <<spaces, generation, my_generation, rounds>>

\* ++generation is missing
BumpForgotten(t) ==
    /\ pc[t] = "bump"
    /\ pc' = [pc EXCEPT ![t] = "out"]
    /\ rounds' = [rounds EXCEPT ![t] = @ + 1]
    /\ UNCHANGED <<spaces, generation, my_generation>>

\* the spin loop waits a while instead of waiting for the generation
StopSpinningEarly(t) ==
    /\ pc[t] = "spin"
    /\ pc' = [pc EXCEPT ![t] = "out"]
    /\ rounds' = [rounds EXCEPT ![t] = @ + 1]
    /\ UNCHANGED <<spaces, generation, my_generation>>
-----------------------------------------------------------------------------
(* Thread_barrier_t::wait_for_threads *)

\* unsigned const my_generation = generation
Enter(t) ==
    /\ pc[t] = "out"
    /\ rounds[t] < MaxRounds
    /\ my_generation' = [my_generation EXCEPT ![t] = generation]
    /\ pc' = [pc EXCEPT ![t] = "decrement"]
    /\ UNCHANGED <<spaces, generation, rounds>>

\* if (!--spaces)
Decrement(t) ==
    /\ pc[t] = "decrement"
    /\ spaces' = spaces - 1
    /\ pc' = [pc EXCEPT ![t] = IF spaces = 1 THEN "reset" ELSE "spin"]
    /\ UNCHANGED <<generation, my_generation, rounds>>

\* spaces = count
Reset(t) ==
    /\ pc[t] = "reset"
    /\ spaces' = count
    /\ pc' = [pc EXCEPT ![t] = "bump"]
    /\ UNCHANGED <<generation, my_generation, rounds>>

\* ++generation, after which the last thread returns
Bump(t) ==
    /\ pc[t] = "bump"
    /\ generation' = NextGeneration(generation)
    /\ pc' = [pc EXCEPT ![t] = "out"]
    /\ rounds' = [rounds EXCEPT ![t] = @ + 1]
    /\ UNCHANGED <<spaces, my_generation>>

\* while(generation == my_generation) finds a new generation and ends
StopSpinning(t) ==
    /\ pc[t] = "spin"
    /\ generation # my_generation[t]
    /\ pc' = [pc EXCEPT ![t] = "out"]
    /\ rounds' = [rounds EXCEPT ![t] = @ + 1]
    /\ UNCHANGED <<spaces, generation, my_generation>>

\* every thread has made its calls
AllDone == \A t \in Threads : pc[t] = "out" /\ rounds[t] = MaxRounds

Finished == AllDone /\ UNCHANGED vars

Next == \/ \E t \in Threads : \/ Enter(t) \/ Decrement(t) \/ Reset(t)
                              \/ Bump(t) \/ StopSpinning(t)
        \/ Finished

Spec == Init /\ [][Next]_vars

\* every thread runs: it is never forever at an access it could make
Step(t) == \/ Enter(t) \/ Decrement(t) \/ Reset(t)
           \/ Bump(t) \/ StopSpinning(t)

FairSpec == Spec /\ \A t \in Threads : WF_vars(Step(t))
-----------------------------------------------------------------------------
\* inside the current round, and it has decremented
Arrived(t) == \/ pc[t] \in {"reset", "bump"}
              \/ pc[t] = "spin" /\ my_generation[t] = generation

\* still spinning although its round is complete
Late(t) == pc[t] = "spin" /\ my_generation[t] # generation

\* A thread that has returned from its k-th call knows that every other
\* thread has come to its own k-th call and only has yet to notice its end.
NobodyPassesAlone ==
    \A t, u \in Threads :
        /\ rounds[t] <= rounds[u] + 1
        /\ rounds[t] > rounds[u] => pc[u] = "spin"

\* The word generation may wrap, yet a thread that spins in a completed round
\* is never mistaken for one of the round in progress: it is exactly one
\* generation behind.
OneGenerationBehind ==
    \A t \in Threads :
        Late(t) => NextGeneration(my_generation[t]) = generation

\* Every thread that comes to the barrier gets out again (no thread is left
\* spinning on a generation it has missed).
EveryoneReturns == \A t \in Threads : pc[t] # "out" ~> pc[t] = "out"

\* The barrier gives what PhaseBarrier promises.  A thread comes to the meeting
\* when it decrements spaces; the ++generation completes it.
Phase == INSTANCE PhaseBarrier WITH
    waiting  <- {t \in Threads : Arrived(t)},
    released <- {t \in Threads : Late(t)}
PhaseSpec == Phase!Spec
=============================================================================
