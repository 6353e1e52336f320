---------------------------- MODULE PhaseBarrier ----------------------------
(***************************************************************************)
(* What a thread barrier promises, without saying how: a set of threads    *)
(* meets again and again, and nobody gets out of a meeting before everyone *)
(* has come to it.  There is no counter and no generation number here.     *)
(* ThreadBarrier implements this specification.                            *)
(***************************************************************************)
CONSTANT Threads        \* the threads that meet

VARIABLES
    waiting,            \* came to the current meeting and must stay
    released            \* came to a completed meeting and may leave

vars == <<waiting, released>>

TypeOK == /\ waiting \subseteq Threads
          /\ released \subseteq Threads

Init == waiting = {} /\ released = {}

\* t comes to the current meeting, unless it has yet to leave the last one
Arrive(t) ==
    /\ t \notin waiting \cup released
    /\ waiting' = waiting \cup {t}
    /\ UNCHANGED released

\* everybody has come: t notices, is the first to leave, and lets the others go
Complete(t) ==
    /\ waiting = Threads
    /\ waiting' = {}
    /\ released' = Threads \ {t}

Leave(t) ==
    /\ t \in released
    /\ released' = released \ {t}
    /\ UNCHANGED waiting

Next == \E t \in Threads : Arrive(t) \/ Complete(t) \/ Leave(t)

Spec == Init /\ [][Next]_vars
=============================================================================
