------------------------------ MODULE Restart ------------------------------
(***************************************************************************)
(* The restart files of a calculation, and the loops that write and read   *)
(* them: the self-consistency loop (RMG/Common/Quench.cpp), relaxation     *)
(* (Relax.cpp) and molecular dynamics (MolecularDynamics.cpp).             *)
(*                                                                         *)
(* WriteRestart leaves a head file (name.restart: positions, velocities,   *)
(* forces), written by process 0, and a wave file of each process, and     *)
(* keeps the file that it replaces under a name with "_1".  Quench writes  *)
(* a set "_init" when it begins, which it reads again when the mixing has  *)
(* to be lowered, and the set of the output at checkpoints and at its end; *)
(* its caller writes that set once more.  ExtrapolateOrbitals reads "_1".  *)
(* A job may crash at any step and be restarted from the files.            *)
(*                                                                         *)
(* One image, its processes in step between the collective calls; no       *)
(* hybrid functional and no non-selfconsistent run; the output is not      *)
(* /dev/null.  Orbitals, density and potentials are one value, identified  *)
(* by the ionic step and the SCF step that made it.  A crash ends the      *)
(* processes and leaves what the system calls have done.                   *)
(***************************************************************************)
EXTENDS Integers

CONSTANTS
    NPES,           \* processes of the image
    max_md_steps,   \* of the input
    max_scf_steps,  \* of the input
    Checkpoints,    \* the values of checkpoint to look at, 0 for none
    MaxHalvings,    \* halvings after which mix is below 0.02
    MaxCrashes

ASSUME RestartAssumption ==
    /\ NPES \in Nat \ {0} /\ max_md_steps \in Nat \ {0} /\ max_scf_steps \in Nat \ {0}
    /\ Checkpoints \subseteq Nat /\ MaxHalvings \in Nat /\ MaxCrashes \in Nat

VARIABLES
    forceflag,      \* what is calculated
    checkpoint,
    job,
    crashes,
    pc,             \* per process: where in WriteRestart it is, "out" of it
    call,           \* per process: its last call of WriteRestart
    phase,          \* of Relax or MolecularDynamics
    md_steps,       \* moves of the ions in this job
    ions,           \* the positions and velocities of process 0
    psi,            \* per process: the orbitals
    start,          \* per process: the orbitals with which Quench began
    scf_steps, total_scf_steps, scf_converged,
    halvings,       \* of ct.mix in this job
    dir,            \* does the directory of the output exist
    head,           \* the head file of the output and the one kept from before
    wave,           \* per name and process: the same of the wave file
    saved           \* has a set of the output been written completely

control == <<forceflag, checkpoint, job, crashes>>
electrons == <<psi, start, scf_steps, total_scf_steps, scf_converged, halvings>>
files == <<dir, head, wave, saved>>
vars == <<control, pc, call, phase, md_steps, ions, electrons, files>>

Procs == 0..(NPES - 1)
Names == {"out", "init"}
root  == 0

\* How often a job moves its ions: the loop of MolecularDynamics begins at 1.
Moves == IF forceflag = "quench" THEN 0
         ELSE IF forceflag = "relax" THEN max_md_steps ELSE max_md_steps - 1

Orbitals == [step : Nat, scf : Nat, ahead : BOOLEAN]
Velocity == {"full", "half", "off"}     \* in phase with the positions, or not
HeadFile == [is : {"none", "empty", "atoms", "full"}, step : Nat, vel : Velocity]
WaveFile == [is : {"none", "empty", "full"}, psi : Orbitals]

NewOrbitals == [step |-> 0, scf |-> 0, ahead |-> FALSE]
NoHead == [is |-> "none", step |-> 0, vel |-> "full"]
NoWave == [is |-> "none", psi |-> NewOrbitals]

JobType ==
    /\ forceflag \in {"quench", "relax", "md"} /\ checkpoint \in Checkpoints
    /\ job \in {"running", "crashed", "over", "stopped"}
    /\ crashes \in 0..MaxCrashes
    /\ phase \in {"first", "loop", "test", "last"}
    /\ md_steps \in 0..Moves
    /\ ions \in [step : Nat, vel : Velocity]

WriteType ==
    /\ pc \in [Procs -> {"save_head", "open_head", "close_head", "meet",
                         "save_wave", "open_wave", "write_wave", "out"}]
    /\ call \in [Procs -> {"init", "check", "quench", "step"}]

ElectronType ==
    /\ psi \in [Procs -> Orbitals] /\ start \in [Procs -> Orbitals]
    /\ total_scf_steps \in 0..max_scf_steps /\ scf_steps \in 0..total_scf_steps
    /\ halvings \in 0..(MaxHalvings + 1)

FileType ==
    /\ head \in [cur : HeadFile, prev : HeadFile]
    /\ wave \in [Names -> [Procs -> [cur : WaveFile, prev : WaveFile]]]

FlagType == scf_converged \in BOOLEAN /\ dir \in BOOLEAN /\ saved \in BOOLEAN

TypeOK == JobType /\ WriteType /\ ElectronType /\ FileType /\ FlagType
-----------------------------------------------------------------------------
\* Process 0 writes the head file, the others come to the barrier at once.
Enter(p) == IF p = root THEN "save_head" ELSE "meet"

\* All processes call WriteRestart ...
CallWrite(c) ==
    /\ call' = [p \in Procs |-> c]
    /\ pc' = [p \in Procs |-> Enter(p)]

\* Mutation: Relax and MolecularDynamics begin with an "_init" set that is there
StartQuenchOnOld(orbitals) ==
    /\ start' = orbitals
    /\ scf_steps' = 0 /\ total_scf_steps' = 0 /\ scf_converged' = FALSE
    /\ IF \A p \in Procs : wave["init"][p].cur.is = "full"
       THEN /\ call' = [p \in Procs |-> "init"]
            /\ pc' = [p \in Procs |-> "out"]
       ELSE CallWrite("init")

\* ... Quench first of all for the set "_init", of the orbitals it begins with.
StartQuench(orbitals) ==
    /\ start' = orbitals
    /\ scf_steps' = 0 /\ total_scf_steps' = 0 /\ scf_converged' = FALSE
    /\ CallWrite("init")

\* The state of a job that begins at these positions with these orbitals
Begin(at, orbitals) ==
    /\ phase' = "first" /\ md_steps' = 0
    /\ ions' = at /\ psi' = orbitals
    /\ halvings' = 0

Init ==
    /\ forceflag \in {"quench", "relax", "md"} /\ checkpoint \in Checkpoints
    /\ job = "running" /\ crashes = 0
    /\ pc = [p \in Procs |-> Enter(p)]
    /\ call = [p \in Procs |-> "init"]
    /\ phase = "first" /\ md_steps = 0
    /\ ions = [step |-> 0, vel |-> "full"]
    /\ psi = [p \in Procs |-> NewOrbitals] /\ start = psi
    /\ scf_steps = 0 /\ total_scf_steps = 0 /\ scf_converged = FALSE
    /\ halvings = 0
    /\ dir = FALSE /\ saved = FALSE
    /\ head = [cur |-> NoHead, prev |-> NoHead]
    /\ wave = [n \in Names |-> [p \in Procs |-> [cur |-> NoWave, prev |-> NoWave]]]
-----------------------------------------------------------------------------
(* WriteRestart                                                            *)

Name(p) == IF call[p] = "init" THEN "init" ELSE "out"

At(p, place) == job = "running" /\ pc[p] = place
Goto(p, place) == pc' = [pc EXCEPT ![p] = place]

\* Mutation: the file is written over
NotRenamed(f, nothing, kept) == f

\* rename(file, file_1): nothing happens when there is no file.  Of the set "_init"
\* the kept files are left out, which nothing reads.
Renamed(f, nothing, kept) ==
    IF f.cur.is = "none" THEN f
    ELSE [cur |-> nothing, prev |-> IF kept THEN f.cur ELSE nothing]

\* Of the set "_init" nothing reads the head file: it is left out.
SetHead(f) == head' = IF Name(root) = "out" THEN f ELSE head

SaveHead ==
    /\ At(root, "save_head")
    /\ SetHead(Renamed(head, NoHead, TRUE))
    /\ Goto(root, "open_head")
    /\ UNCHANGED <<control, call, phase, md_steps, ions, electrons, dir, wave, saved>>

\* open_restart_file, which makes the directory
OpenHead ==
    /\ At(root, "open_head")
    /\ dir' = TRUE
    /\ SetHead([head EXCEPT !.cur = [NoHead EXCEPT !.is = "empty"]])
    /\ Goto(root, "close_head")
    /\ UNCHANGED <<control, call, phase, md_steps, ions, electrons, wave, saved>>

\* Mutation: process 0 does not come to the barrier
CloseHeadOnly ==
    /\ At(root, "close_head")
    /\ SetHead([head EXCEPT !.cur = [is |-> "full", step |-> ions.step, vel |-> ions.vel]])
    /\ Goto(root, "save_wave")
    /\ UNCHANGED <<control, call, phase, md_steps, ions, electrons, dir, wave, saved>>

\* What is printed is in the file when it is closed.
CloseHead ==
    /\ At(root, "close_head")
    /\ SetHead([head EXCEPT !.cur = [is |-> "full", step |-> ions.step, vel |-> ions.vel]])
    /\ Goto(root, "meet")
    /\ UNCHANGED <<control, call, phase, md_steps, ions, electrons, dir, wave, saved>>

\* Mutation: without the barrier
MeetAlone ==
    /\ \E p \in Procs : At(p, "meet") /\ Goto(p, "save_wave")
    /\ UNCHANGED <<control, call, phase, md_steps, ions, electrons, files>>

\* All processors wait until 0 is done.
MeetInWrite ==
    /\ \A p \in Procs : At(p, "meet")
    /\ pc' = [p \in Procs |-> "save_wave"]
    /\ UNCHANGED <<control, call, phase, md_steps, ions, electrons, files>>

SaveWave(p) ==
    /\ At(p, "save_wave")
    /\ wave' = [wave EXCEPT ![Name(p)][p] = Renamed(@, NoWave, Name(p) = "out")]
    /\ Goto(p, "open_wave")
    /\ UNCHANGED <<control, call, phase, md_steps, ions, electrons, dir, head, saved>>

\* Without the directory open fails, which terminates the job.
OpenWave(p) ==
    /\ At(p, "open_wave")
    /\ IF dir
       THEN /\ wave' = [wave EXCEPT ![Name(p)][p].cur = [NoWave EXCEPT !.is = "empty"]]
            /\ Goto(p, "write_wave")
            /\ UNCHANGED job
       ELSE job' = "stopped" /\ UNCHANGED <<pc, wave>>
    /\ UNCHANGED <<forceflag, checkpoint, crashes, call, phase, md_steps, ions,
                   electrons, dir, head, saved>>

\* Mutation: the set that Quench has written is thought to be enough
NextCallUnwritten(p) ==
    /\ call' = [call EXCEPT ![p] = IF @ = "quench" THEN "step" ELSE @]
    /\ Goto(p, "out")
    /\ ions' = IF p = root /\ call[p] = "quench" /\ ions.vel = "half"
               THEN [ions EXCEPT !.vel = "full"] ELSE ions

\* After the set that Quench writes at its end the caller writes another.  Between
\* them velup2 brings the velocities to the step.
NextCall(p) ==
    IF call[p] = "quench"
    THEN /\ call' = [call EXCEPT ![p] = "step"]
         /\ Goto(p, Enter(p))
         /\ ions' = IF p = root /\ ions.vel = "half" THEN [ions EXCEPT !.vel = "full"]
                    ELSE ions
    ELSE Goto(p, "out") /\ UNCHANGED <<call, ions>>

\* WriteData, close, and what follows WriteRestart
WriteWave(p) ==
    /\ At(p, "write_wave")
    /\ wave' = [wave EXCEPT ![Name(p)][p].cur = [is |-> "full", psi |-> psi[p]]]
    /\ saved' = (saved \/ \A q \in Procs : wave'["out"][q].cur.is = "full")
    /\ NextCall(p)
    /\ UNCHANGED <<control, phase, md_steps, electrons, dir, head>>
-----------------------------------------------------------------------------
(* Quench                                                                  *)

\* All processes come to a collective call after this call of WriteRestart.
AllAfter(calls) == \A p \in Procs : At(p, "out") /\ call[p] \in calls

\* Mutation: a step too many
AnotherScfLate == total_scf_steps <= max_scf_steps /\ ~ scf_converged

\* The condition of the loop
AnotherScf == total_scf_steps < max_scf_steps /\ ~ scf_converged

InitFiles == [p \in Procs |-> wave["init"][p].cur]

\* AutoMix may find that scf_accuracy grows, which takes more than one step to see.
AutoMixHalves == scf_steps > 1

\* Then mix is halved, and the set "_init" read if the accuracy is bad.  Below 0.02
\* the job ends.
LowerMix ==
    /\ AllAfter({"init", "check"}) /\ AnotherScf /\ AutoMixHalves
    /\ \E reread \in BOOLEAN :
           LET unread == reread /\ \E p \in Procs : InitFiles[p].is # "full"
           IN  /\ psi' = IF reread /\ ~ unread THEN [p \in Procs |-> InitFiles[p].psi]
                         ELSE psi
               /\ halvings' = IF unread THEN halvings ELSE halvings + 1
               /\ job' = IF unread \/ halvings + 1 > MaxHalvings THEN "stopped" ELSE job
    /\ scf_steps' = 0
    /\ UNCHANGED <<forceflag, checkpoint, crashes, pc, call, phase, md_steps, ions,
                   start, total_scf_steps, scf_converged, files>>

\* Scf, and a set of the output if checkpoint divides scf_steps
ScfStep ==
    /\ AllAfter({"init", "check"}) /\ AnotherScf
    /\ psi' = [p \in Procs |->
           [step |-> ions.step, scf |-> total_scf_steps + 1, ahead |-> FALSE]]
    /\ scf_converged' \in BOOLEAN
    /\ scf_steps' = scf_steps + 1
    /\ total_scf_steps' = total_scf_steps + 1
    /\ IF checkpoint # 0 /\ scf_steps % checkpoint = 0
       THEN CallWrite("check")
       ELSE call' = [p \in Procs |-> "check"] /\ UNCHANGED pc
    /\ UNCHANGED <<control, phase, md_steps, ions, start, halvings, files>>

\* Mutation: the checkpoints are thought to be enough
FinishUnwritten ==
    /\ AllAfter({"check"}) /\ ~ AnotherScf
    /\ IF checkpoint = 0 THEN CallWrite("quench")
       ELSE call' = [p \in Procs |-> "step"] /\ UNCHANGED pc
    /\ UNCHANGED <<control, phase, md_steps, ions, electrons, files>>

\* The loop is over: forces, and a set of the output
FinishQuench ==
    /\ AllAfter({"check"}) /\ ~ AnotherScf
    /\ CallWrite("quench")
    /\ UNCHANGED <<control, phase, md_steps, ions, electrons, files>>
-----------------------------------------------------------------------------
(* Relax and MolecularDynamics                                             *)

\* The ions move (in molecular dynamics after half a step of the velocities) and
\* the electrons follow.  Velocities not in phase with the positions stay so.
Move ==
    /\ AllAfter({"step"}) /\ phase \in {"first", "test"}
    /\ md_steps < Moves
    /\ md_steps' = md_steps + 1
    /\ ions' = [step |-> ions.step + 1,
                vel  |-> IF forceflag # "md" THEN ions.vel
                         ELSE IF ions.vel = "full" THEN "half" ELSE "off"]
    /\ phase' = "loop"
    /\ StartQuench(psi)
    /\ UNCHANGED <<control, psi, halvings, files>>

\* 2 psi - old with the kept wave file, if it is there
Extrapolated(p) ==
    LET old == wave["out"][p].prev
    IN  IF old.is = "none" \/ old.psi = psi[p] THEN psi[p] ELSE [psi[p] EXCEPT !.ahead = TRUE]

ExtrapolateOrbitals ==
    /\ AllAfter({"step"}) /\ phase = "loop"
    /\ psi' = [p \in Procs |-> Extrapolated(p)]
    /\ phase' = "test"
    /\ UNCHANGED <<control, pc, call, md_steps, ions, start, scf_steps, total_scf_steps,
                   scf_converged, halvings, files>>

\* Molecular dynamics ends with a quench at the last positions.
LastQuench ==
    /\ AllAfter({"step"}) /\ phase \in {"first", "test"}
    /\ forceflag = "md" /\ md_steps = Moves
    /\ phase' = "last"
    /\ StartQuench(psi)
    /\ UNCHANGED <<control, md_steps, ions, psi, halvings, files>>

\* Relaxation ends after its steps, or before when the forces are small.
End ==
    /\ AllAfter({"step"})
    /\ \/ forceflag = "md" /\ phase = "last"
       \/ forceflag # "md" /\ phase = "first" /\ md_steps = Moves
       \/ forceflag # "md" /\ phase = "test"
    /\ job' = "over"
    /\ UNCHANGED <<forceflag, checkpoint, crashes, pc, call, phase, md_steps, ions,
                   electrons, files>>
-----------------------------------------------------------------------------
(* Crash and restart.  A file of which a crash left nothing useful is      *)
(* replaced by hand with the kept one.                                     *)

AcceptsHead(f) == f.is \in {"atoms", "full"}
AcceptsWave(f) == f.is = "full"

\* A job can be started from the set of the output.
Restartable == /\ AcceptsHead(head.cur)
               /\ \A p \in Procs : AcceptsWave(wave["out"][p].cur)

\* Of a head file not closed there may be the part with the atoms.  What was in
\* memory is lost: the job's state is as at a start.
Crash ==
    /\ job = "running" /\ crashes < MaxCrashes
    /\ job' = "crashed"
    /\ crashes' = crashes + 1
    /\ \/ UNCHANGED head
       \/ /\ pc[root] = "close_head"
          /\ SetHead([head EXCEPT !.cur = [is |-> "atoms", step |-> ions.step, vel |-> "off"]])
    /\ Begin([step |-> 0, vel |-> "full"], [p \in Procs |-> NewOrbitals])
    /\ StartQuench(psi')
    /\ UNCHANGED <<forceflag, checkpoint, dir, wave, saved>>

Kept(f, usable, nothing) == IF usable THEN f ELSE [cur |-> f.prev, prev |-> nothing]

Rescue ==
    /\ job = "crashed" /\ saved /\ ~ Restartable
    /\ head' = Kept(head, AcceptsHead(head.cur), NoHead)
    /\ wave' = [wave EXCEPT !["out"] = [p \in Procs |->
           Kept(@[p], AcceptsWave(@[p].cur), NoWave)]]
    /\ UNCHANGED <<control, pc, call, phase, md_steps, ions, electrons, dir, saved>>

\* Start with runflag RESTART: ReadDynamics, ReadVelocities and ReadData.  Then
\* molecular dynamics begins with its loop, without the quench before it.
Resume ==
    /\ job = "crashed" /\ Restartable
    /\ job' = "running"
    /\ Begin([step |-> head.cur.step, vel |-> head.cur.vel],
             [p \in Procs |-> wave["out"][p].cur.psi])
    /\ IF forceflag = "md"
       THEN /\ call' = [p \in Procs |-> "step"]
            /\ pc' = [p \in Procs |-> "out"]
            /\ UNCHANGED <<start, scf_steps, total_scf_steps, scf_converged>>
       ELSE StartQuench(psi')
    /\ UNCHANGED <<forceflag, checkpoint, crashes, files>>

\* There is no set to restart from: the job is started anew.
StartOver ==
    /\ job = "crashed" /\ ~ saved
    /\ job' = "running"
    /\ UNCHANGED <<forceflag, checkpoint, crashes, pc, call, phase, md_steps, ions,
                   electrons, files>>

Ended == job \in {"over", "stopped"} /\ UNCHANGED vars

Job == \/ SaveHead \/ OpenHead \/ CloseHead \/ MeetInWrite
       \/ \E p \in Procs : SaveWave(p) \/ OpenWave(p) \/ WriteWave(p)
       \/ LowerMix \/ ScfStep \/ FinishQuench
       \/ Move \/ ExtrapolateOrbitals \/ LastQuench \/ End

User == Rescue \/ Resume \/ StartOver

Next == Job \/ User \/ Crash \/ Ended

\* Processes run, and somebody sees to a crashed job.
Spec == Init /\ [][Next]_vars /\ WF_vars(Job) /\ WF_vars(User)
-----------------------------------------------------------------------------
\* Once a set of the output has been written, a crash at any point leaves each of
\* its files in a state the program accepts, under its name or the one it is kept
\* under.
EveryFileHasACopy ==
    saved => /\ AcceptsHead(head.cur) \/ AcceptsHead(head.prev)
             /\ \A p \in Procs : \/ AcceptsWave(wave["out"][p].cur)
                                 \/ AcceptsWave(wave["out"][p].prev)

\* Whatever set of the output a restart may find, its orbitals are those of the
\* step of its positions or of the one before, never later ones.  Only in molecular
\* dynamics, which moves first, each restart may add a step to that.
RestartIsClose ==
    Restartable => \A p \in Procs :
        head.cur.step - wave["out"][p].cur.psi.step \in
            0..(IF forceflag = "md" THEN 1 + crashes ELSE 1)

\* What a restart would find of the head file, once the kept one has taken its place
\* if the other one is not usable.
LastHead == IF AcceptsHead(head.cur) THEN head.cur ELSE head.prev

\* Molecular dynamics writes the files also in the middle of an ionic step, when the
\* velocities are half a step behind the positions.  A restart may find these only
\* between the sets that Quench writes and the head file that its caller writes after
\* velup2, and never those of the step before.
HalfStepIsShort ==
    job = "running" /\ LastHead.vel = "half" =>
        /\ ions.vel = "full" => call[root] = "step"
                                /\ pc[root] \in {"save_head", "open_head", "close_head"}
        /\ ions.vel = "half" /\ phase = "loop" => call[root] # "init"

\* When lower mixing makes Quench begin again, it is with the orbitals it began
\* with, on every process, or with none read on any.
ResetFindsStart == [][halvings' > halvings => psi' \in {psi, start}]_vars

\* Only mixing that fell too low stops a job: no file or directory is missed that
\* it has to open.  A job that goes to its end leaves a set of the output with its
\* last positions, velocities and orbitals.
EndsWell ==
    /\ job = "stopped" => halvings > MaxHalvings
    /\ job = "over" =>
           /\ head.cur = [is |-> "full", step |-> ions.step, vel |-> ions.vel]
           /\ \A p \in Procs : wave["out"][p].cur = [is |-> "full", psi |-> psi[p]]

\* Every job ends, after no matter what crashes.
JobEnds == <>(job \in {"over", "stopped"})

\* Relax.cpp:165 and ReadData.cpp:482 speak of orbitals extrapolated from a previous
\* wave file: those of the step before.
ExtrapolatesFromStepBefore ==
    AllAfter({"step"}) /\ phase = "loop" =>
        \A p \in Procs : wave["out"][p].prev.psi.step < psi[p].step
=============================================================================
