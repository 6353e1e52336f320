------------------------- MODULE ThreadBarrierProof -------------------------
(***************************************************************************)
(* The spinning barrier is correct for every number of threads and every   *)
(* width of the generation counter, down to a single bit.                  *)
(***************************************************************************)
EXTENDS ThreadBarrier, FiniteSetTheorems, TLAPS

ArrivedSet == {t \in Threads : Arrived(t)}

\* the calls t has returned from, counting the one it could return from now
Completed(t) == rounds[t] + (IF Late(t) THEN 1 ELSE 0)

Freshness ==
    \A t \in Threads : pc[t] = "decrement" => my_generation[t] = generation

\* While nobody has reset it, spaces counts the missing threads.
Counting ==
    IF \E t \in Threads : pc[t] = "bump"
    THEN spaces = count
    ELSE spaces + Cardinality(ArrivedSet) = count

\* There is one last thread, and it is last.
LastThread ==
    \A t \in Threads :
        pc[t] \in {"reset", "bump"} =>
            /\ ArrivedSet = Threads
            /\ \A u \in Threads \ {t} : pc[u] = "spin"

SameRound == \A t, u \in Threads : Completed(t) = Completed(u)

Bounded == \A t \in Threads : pc[t] # "out" => rounds[t] < MaxRounds

\* The inductive invariant
IInv == /\ TypeOK
        /\ Freshness
        /\ OneGenerationBehind
        /\ Counting
        /\ LastThread
        /\ SameRound
        /\ Bounded

-----------------------------------------------------------------------------
\* The number of threads is a positive natural number, and so is that of any
\* part of them a natural number (nobody makes the barrier with rjobs = 0).
LEMMA CountIsNat ==
    /\ count \in Nat \ {0}
    /\ \A S \in SUBSET Threads : IsFiniteSet(S) /\ Cardinality(S) \in 0..count
<1>1. IsFiniteSet(Threads) /\ Threads # {}
  BY ThreadsAssumption
<1>2. count \in Nat
  BY <1>1, FS_CardinalityType DEF count
<1>3. count # 0
  BY <1>1, FS_EmptySet DEF count
<1>4. ASSUME NEW S \in SUBSET Threads
      PROVE  IsFiniteSet(S) /\ Cardinality(S) \in 0..count
  <2>1. IsFiniteSet(S) /\ Cardinality(S) <= count
    BY <1>1, FS_Subset DEF count
  <2>2. Cardinality(S) \in Nat
    BY <2>1, FS_CardinalityType
  <2> QED BY <1>2, <2>1, <2>2
<1> QED BY <1>2, <1>3, <1>4

\* A full house: a set of threads as large as Threads is Threads.
LEMMA FullHouse ==
    ASSUME NEW S \in SUBSET Threads, Cardinality(S) = count
    PROVE  S = Threads
  BY ThreadsAssumption, FS_Subset DEF count

\* ++generation yields another generation, also when it wraps.
LEMMA NextGenerationDiffers ==
    \A g \in 0..(GenMod - 1) :
        NextGeneration(g) \in 0..(GenMod - 1) /\ NextGeneration(g) # g
  BY GenModAssumption DEF NextGeneration

\* In the initial state nobody has come and everybody is missing.
LEMMA InitIInv == Init => IInv
<1> SUFFICES ASSUME Init PROVE IInv
  OBVIOUS
<1>1. TypeOK
  BY CountIsNat, GenModAssumption, MaxRoundsAssumption DEF Init, TypeOK
<1>2. ArrivedSet = {}
  BY DEF Init, ArrivedSet, Arrived
<1>3. Counting
  BY <1>2, FS_EmptySet, CountIsNat DEF Init, Counting
<1>4. Freshness /\ OneGenerationBehind /\ LastThread /\ SameRound /\ Bounded
  BY DEF Init, Freshness, OneGenerationBehind, LastThread, SameRound, Bounded,
         Late, Completed
<1> QED BY <1>1, <1>3, <1>4 DEF IInv

-----------------------------------------------------------------------------
\* Loading the generation changes nothing that is counted.
LEMMA EnterIInv ==
    ASSUME IInv, NEW t \in Threads, Enter(t)
    PROVE  IInv' /\ ArrivedSet' = ArrivedSet
<1> USE DEF IInv, TypeOK, Enter
<1>1. TypeOK'
  OBVIOUS
<1>2. \A u \in Threads : /\ Arrived(u)' <=> Arrived(u)
                         /\ Late(u)' <=> Late(u)
  BY DEF Arrived, Late
<1>3. ArrivedSet' = ArrivedSet
  BY <1>2 DEF ArrivedSet
<1>4. Freshness'
  BY DEF Freshness
<1>5. OneGenerationBehind'
  BY <1>2 DEF OneGenerationBehind, Late
<1>6. Counting'
  BY <1>3, CountIsNat DEF Counting
<1>7. LastThread'
  BY <1>3 DEF LastThread, Arrived, ArrivedSet
<1>8. SameRound'
  BY <1>2 DEF SameRound, Completed
<1>9. Bounded'
  BY DEF Bounded
<1> QED BY <1>1, <1>3, <1>4, <1>5, <1>6, <1>7, <1>8, <1>9

\* A decrement adds one thread to those that have come.
LEMMA DecrementIInv ==
    ASSUME IInv, NEW t \in Threads, Decrement(t)
    PROVE  IInv' /\ t \notin ArrivedSet /\ ArrivedSet' = ArrivedSet \cup {t}
<1> USE DEF IInv, TypeOK, Decrement
<1>1. t \notin ArrivedSet
  BY DEF ArrivedSet, Arrived
<1>2. \A u \in Threads : pc[u] \notin {"reset", "bump"}
  BY <1>1 DEF LastThread
<1>3. ArrivedSet \in SUBSET Threads
  BY DEF ArrivedSet
<1>4. spaces + Cardinality(ArrivedSet) = count
  BY <1>2 DEF Counting
<1>5. \A u \in Threads : Late(u)' <=> Late(u)
  BY DEF Late, Freshness
<1>6. \A u \in Threads : Arrived(u)' <=> Arrived(u) \/ u = t
  BY DEF Arrived, Freshness
<1>7. ArrivedSet' = ArrivedSet \cup {t}
  BY <1>6 DEF ArrivedSet
<1>8. Cardinality(ArrivedSet') = Cardinality(ArrivedSet) + 1
  BY <1>1, <1>3, <1>7, CountIsNat, FS_AddElement
<1>9. /\ Cardinality(ArrivedSet) \in 0..count
      /\ Cardinality(ArrivedSet') \in 0..count
      /\ count \in Nat
  BY <1>3, <1>7, CountIsNat
<1>10. spaces >= 1
  BY <1>4, <1>8, <1>9
<1>11. TypeOK'
  BY <1>9, <1>10
<1>12. Counting'
  <2>1. \A u \in Threads : pc'[u] # "bump"
    BY <1>2
  <2>2. spaces' + Cardinality(ArrivedSet') = count
    BY <1>4, <1>8, <1>9
  <2> QED BY <2>1, <2>2 DEF Counting, count
<1>13. LastThread'
  <2> SUFFICES ASSUME NEW u \in Threads, pc'[u] \in {"reset", "bump"}
               PROVE  /\ ArrivedSet' = Threads
                      /\ \A w \in Threads \ {u} : pc'[w] = "spin"
    BY DEF LastThread
  <2>1. u = t /\ spaces = 1
    BY <1>2
  <2>2. Cardinality(ArrivedSet') = count
    BY <1>4, <1>8, <1>9, <2>1
  <2>3. ArrivedSet' = Threads
    BY <1>3, <1>7, <2>2, FullHouse
  <2>4. \A w \in Threads \ {u} : Arrived(w)
    BY <1>6, <2>1, <2>3 DEF ArrivedSet
  <2> QED BY <1>2, <2>1, <2>3, <2>4 DEF Arrived
<1>14. Freshness' /\ Bounded'
  BY DEF Freshness, Bounded
<1>15. OneGenerationBehind'
  BY <1>5 DEF OneGenerationBehind
<1>16. SameRound'
  BY <1>5 DEF SameRound, Completed
<1> QED BY <1>1, <1>7, <1>11, <1>12, <1>13, <1>14, <1>15, <1>16

\* The reset gives the count back for the next round.
LEMMA ResetIInv ==
    ASSUME IInv, NEW t \in Threads, Reset(t)
    PROVE  IInv' /\ ArrivedSet' = ArrivedSet
<1> USE DEF IInv, TypeOK, Reset
<1>1. TypeOK'
  BY CountIsNat
<1>2. \A u \in Threads : /\ Arrived(u)' <=> Arrived(u)
                         /\ Late(u)' <=> Late(u)
  BY DEF Arrived, Late
<1>3. ArrivedSet' = ArrivedSet
  BY <1>2 DEF ArrivedSet
<1>4. Counting'
  BY DEF Counting, count
<1>5. LastThread'
  BY <1>3 DEF LastThread
<1>6. Freshness' /\ Bounded'
  BY DEF Freshness, Bounded
<1>7. OneGenerationBehind'
  BY <1>2 DEF OneGenerationBehind
<1>8. SameRound'
  BY <1>2 DEF SameRound, Completed
<1> QED BY <1>1, <1>3, <1>4, <1>5, <1>6, <1>7, <1>8

\* The last thread turns every other thread from arrived to late.
LEMMA BumpIInv ==
    ASSUME IInv, NEW t \in Threads, Bump(t)
    PROVE  /\ IInv' 
           /\ ArrivedSet = Threads /\ ArrivedSet' = {}
           /\ {u \in Threads : Late(u)'} = Threads \ {t}
<1> USE DEF IInv, TypeOK, Bump
<1>1. /\ ArrivedSet = Threads
      /\ \A u \in Threads \ {t} : pc[u] = "spin"
  BY DEF LastThread
<1>2. \A u \in Threads \ {t} : my_generation[u] = generation
  BY <1>1 DEF ArrivedSet, Arrived
<1>3. generation' \in 0..(GenMod - 1) /\ generation' # generation
  BY NextGenerationDiffers
<1>4. \A u \in Threads : ~ Late(u)
  BY <1>1, <1>2 DEF Late
<1>5. \A u \in Threads : Late(u)' <=> u # t
  BY <1>1, <1>2, <1>3 DEF Late
<1>6. ArrivedSet' = {}
  BY <1>1, <1>2, <1>3 DEF ArrivedSet, Arrived
<1>7. TypeOK'
  <2>1. rounds[t] + 1 \in 0..MaxRounds
    BY MaxRoundsAssumption DEF Bounded
  <2> QED BY <1>3, <2>1 DEF count
<1>8. Freshness' /\ LastThread' /\ Bounded'
  BY <1>1 DEF Freshness, LastThread, Bounded
<1>9. OneGenerationBehind'
  BY <1>2, <1>5 DEF OneGenerationBehind, NextGeneration
<1>10. Counting'
  <2>1. spaces' = count
    BY DEF Counting
  <2>2. \A u \in Threads : pc'[u] # "bump"
    BY <1>1
  <2> QED BY <1>6, <2>1, <2>2, FS_EmptySet, CountIsNat DEF Counting, count
<1>11. SameRound'
  <2>1. \A u \in Threads : rounds[u] = rounds[t] /\ rounds[u] \in Nat
    BY <1>4 DEF SameRound, Completed
  <2>2. \A u \in Threads : Completed(u)' = rounds[t] + 1
    BY <1>5, <2>1 DEF Completed
  <2> QED BY <2>2 DEF SameRound
<1> QED BY <1>1, <1>5, <1>6, <1>7, <1>8, <1>9, <1>10, <1>11

\* A late thread leaves and does not touch the round in progress.
LEMMA StopSpinningIInv ==
    ASSUME IInv, NEW t \in Threads, StopSpinning(t)
    PROVE  /\ IInv' /\ ArrivedSet' = ArrivedSet
           /\ \A u \in Threads : Late(u)' <=> Late(u) /\ u # t
<1> USE DEF IInv, TypeOK, StopSpinning
<1>1. Late(t) /\ ~ Late(t)'
  BY DEF Late
<1>2. \A u \in Threads \ {t} : Late(u)' <=> Late(u)
  BY DEF Late
<1>3. \A u \in Threads : Arrived(u)' <=> Arrived(u)
  BY DEF Arrived
<1>4. ArrivedSet' = ArrivedSet
  BY <1>3 DEF ArrivedSet
<1>5. TypeOK'
  <2>1. rounds[t] + 1 \in 0..MaxRounds
    BY MaxRoundsAssumption DEF Bounded
  <2> QED BY <2>1 DEF count
<1>6. Freshness' /\ Bounded'
  BY DEF Freshness, Bounded
<1>7. OneGenerationBehind'
  BY <1>1, <1>2 DEF OneGenerationBehind
<1>8. Counting'
  BY <1>4 DEF Counting, count
<1>9. LastThread'
  BY <1>1, <1>4 DEF LastThread, Late, Arrived, ArrivedSet
<1>10. SameRound'
  <2>1. \A u \in Threads : Completed(u)' = Completed(u)
    BY <1>1, <1>2 DEF Completed
  <2> QED BY <2>1 DEF SameRound
<1> QED BY <1>1, <1>2, <1>4, <1>5, <1>6, <1>7, <1>8, <1>9, <1>10

\* A step that changes nothing keeps everything.
LEMMA StutterIInv ==
    ASSUME IInv, UNCHANGED vars
    PROVE  IInv' /\ ArrivedSet' = ArrivedSet
  BY DEF IInv, vars, TypeOK, Freshness, OneGenerationBehind, Counting,
         LastThread, SameRound, Bounded, ArrivedSet, Arrived, Late, Completed,
         count

LEMMA NextIInv == IInv /\ [Next]_vars => IInv'
<1> SUFFICES ASSUME IInv, [Next]_vars PROVE IInv'
  OBVIOUS
<1>1. ASSUME NEW t \in Threads, Enter(t) PROVE IInv'
  BY <1>1, EnterIInv
<1>2. ASSUME NEW t \in Threads, Decrement(t) PROVE IInv'
  BY <1>2, DecrementIInv
<1>3. ASSUME NEW t \in Threads, Reset(t) PROVE IInv'
  BY <1>3, ResetIInv
<1>4. ASSUME NEW t \in Threads, Bump(t) PROVE IInv'
  BY <1>4, BumpIInv
<1>5. ASSUME NEW t \in Threads, StopSpinning(t) PROVE IInv'
  BY <1>5, StopSpinningIInv
<1>6. CASE UNCHANGED vars
  BY <1>6, StutterIInv
<1> QED BY <1>1, <1>2, <1>3, <1>4, <1>5, <1>6 DEF Next, Finished

\* The inductive invariant holds in every reachable state.
LEMMA InductiveInvariant == Spec => []IInv
  BY InitIInv, NextIInv, PTL DEF Spec

-----------------------------------------------------------------------------
\* spaces, generation and the program counters always have their types:
\* in particular --spaces never goes below zero.
THEOREM TypeCorrect == Spec => []TypeOK
<1>1. IInv => TypeOK
  BY DEF IInv
<1> QED BY <1>1, InductiveInvariant, PTL

\* The generation may wrap; a late thread is exactly one generation behind.
THEOREM GenerationWrapIsSafe == Spec => []OneGenerationBehind
<1>1. IInv => OneGenerationBehind
  BY DEF IInv
<1> QED BY <1>1, InductiveInvariant, PTL

\* No thread returns from its k-th call before all have come to theirs.
THEOREM BarrierSafety == Spec => []NobodyPassesAlone
<1>1. IInv => NobodyPassesAlone
  <2> SUFFICES ASSUME IInv, NEW t \in Threads, NEW u \in Threads
               PROVE  /\ rounds[t] <= rounds[u] + 1
                      /\ rounds[t] > rounds[u] => pc[u] = "spin"
    BY DEF NobodyPassesAlone
  <2>1. Completed(t) = Completed(u) /\ rounds[t] \in Nat /\ rounds[u] \in Nat
    BY DEF IInv, TypeOK, SameRound
  <2> QED BY <2>1 DEF Completed, Late
<1> QED BY <1>1, InductiveInvariant, PTL

\* The spinning barrier implements the abstract one: a decrement is an arrival,
\* ++generation completes the meeting, and the end of a spin is a departure.
THEOREM BarrierRefinement == Spec => PhaseSpec
<1>1. Init => Phase!Init
  BY DEF Init, Phase!Init, Arrived, Late
<1>2. ASSUME IInv, [Next]_vars PROVE [Phase!Next]_Phase!vars
  <2> DEFINE Waiting == {t \in Threads : Arrived(t)}
             Released == {t \in Threads : Late(t)}
  <2>0. ArrivedSet = Waiting /\ ArrivedSet' = Waiting'
    BY DEF ArrivedSet
  <2>1. ASSUME NEW t \in Threads, Enter(t)
        PROVE  Waiting' = Waiting /\ Released' = Released
    <3>1. Waiting' = Waiting
      BY <1>2, <2>0, <2>1, EnterIInv
    <3>2. \A u \in Threads : Late(u)' <=> Late(u)
      BY <1>2, <2>1 DEF Enter, Late, IInv, TypeOK
    <3> QED BY <3>1, <3>2
  <2>2. ASSUME NEW t \in Threads, Decrement(t) PROVE Phase!Arrive(t)
    <3>1. t \notin Waiting /\ Waiting' = Waiting \cup {t}
      BY <1>2, <2>0, <2>2, DecrementIInv
    <3>2. ~ Late(t) /\ \A u \in Threads : Late(u)' <=> Late(u)
      BY <1>2, <2>2 DEF Decrement, Late, IInv, TypeOK, Freshness
    <3> QED BY <3>1, <3>2 DEF Phase!Arrive
  <2>3. ASSUME NEW t \in Threads, Reset(t)
        PROVE  Waiting' = Waiting /\ Released' = Released
    <3>1. Waiting' = Waiting
      BY <1>2, <2>0, <2>3, ResetIInv
    <3>2. \A u \in Threads : Late(u)' <=> Late(u)
      BY <1>2, <2>3 DEF Reset, Late, IInv, TypeOK
    <3> QED BY <3>1, <3>2
  <2>4. ASSUME NEW t \in Threads, Bump(t) PROVE Phase!Complete(t)
    <3>1. /\ Waiting = Threads /\ Waiting' = {}
          /\ Released' = Threads \ {t}
      BY <1>2, <2>0, <2>4, BumpIInv
    <3> QED BY <3>1 DEF Phase!Complete
  <2>5. ASSUME NEW t \in Threads, StopSpinning(t) PROVE Phase!Leave(t)
    <3>1. Waiting' = Waiting /\ \A u \in Threads : Late(u)' <=> Late(u) /\ u # t
      BY <1>2, <2>0, <2>5, StopSpinningIInv
    <3>2. Late(t)
      BY <2>5 DEF StopSpinning, Late
    <3> QED BY <3>1, <3>2 DEF Phase!Leave
  <2>6. CASE UNCHANGED vars
    BY <2>6 DEF vars, Phase!vars, Arrived, Late
  <2> QED BY <1>2, <2>1, <2>2, <2>3, <2>4, <2>5, <2>6
          DEF Next, Finished, Phase!Next, Phase!vars
<1> QED BY <1>1, <1>2, InductiveInvariant, PTL DEF Spec, PhaseSpec, Phase!Spec
=============================================================================
