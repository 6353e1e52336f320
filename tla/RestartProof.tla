---------------------------- MODULE RestartProof ----------------------------
(***************************************************************************)
(* For every number of processes, steps and crashes: the types of the      *)
(* variables of Restart, the files that a crash leaves and how far apart   *)
(* their steps are, the orbitals that lower mixing returns to, and what a  *)
(* job that ends has left.                                                 *)
(***************************************************************************)
EXTENDS Restart, TLAPS

WaveStage == {"save_wave", "open_wave", "write_wave"}

\* A process is in the part of WriteRestart that leaves it without a current file of
\* the output.
HeadBusy == Name(root) = "out" /\ pc[root] \in {"open_head", "close_head"}
WaveBusy(p) == Name(p) = "out" /\ pc[p] \in {"open_wave", "write_wave"}

\* The head file of the output has been written by some call.
HeadWritten == saved \/ \E p \in Procs : Name(p) = "out" /\ pc[p] \in WaveStage

HeadInv ==
    /\ HeadWritten /\ HeadBusy => AcceptsHead(head.prev)
    /\ HeadWritten /\ ~ HeadBusy => AcceptsHead(head.cur)
    /\ pc[root] = "meet" /\ Name(root) = "out" => AcceptsHead(head.cur)

WaveInv ==
    \A p \in Procs :
        /\ saved /\ WaveBusy(p) => AcceptsWave(wave["out"][p].prev)
        /\ saved /\ ~ WaveBusy(p) => AcceptsWave(wave["out"][p].cur)
        /\ WaveBusy(p) => wave["out"][p].cur.is # "full"

\* After a crash the state is that of a start, but for the files.
Parked == \A p \in Procs : pc[p] = Enter(p) /\ call[p] = "init"

CrashInv == Parked /\ EveryFileHasACopy

FileInv == /\ \A p \in Procs : call[p] = "init" <=> call[root] = "init"
           /\ \A p \in Procs : pc[p] \in {"save_head", "open_head", "close_head"} => p = root
           /\ (\A p \in Procs : AcceptsWave(wave["out"][p].cur)) => saved
           /\ IF job = "crashed" THEN CrashInv ELSE HeadInv /\ WaveInv

\* The set "_init" holds the orbitals with which the quench began, from when a
\* process has written it until the SCF loop ends.
ResetInv ==
    \A p \in Procs :
        /\ call[p] = "init" /\ pc[p] # "out" => psi[p] = start[p]
        /\ (call[p] = "init" /\ pc[p] = "out") \/ call[p] = "check" =>
               wave["init"][p].cur = [is |-> "full", psi |-> start[p]]

\* The directory is there before a file is opened in it by another process.
DirInv == pc[root] \in {"close_head", "meet"} \/ (\E p \in Procs : pc[p] \in WaveStage) => dir

\* A restarted job of molecular dynamics has not written a set of its own yet.
Resumed == forceflag = "md" /\ phase = "first"

\* The set that a caller of Quench writes is the one that Quench has written, but
\* for the velocities: both wave files have the orbitals in memory.
LastInv ==
    ~ Resumed =>
        /\ \A p \in Procs : call[p] = "step" =>
             /\ pc[p] \notin {"open_wave", "write_wave"} =>
                    wave["out"][p].cur = [is |-> "full", psi |-> psi[p]]
             /\ pc[p] \in {"open_wave", "write_wave", "out"} =>
                    wave["out"][p].prev = [is |-> "full", psi |-> psi[p]]
        /\ call[root] = "step" /\ pc[root] \notin {"save_head", "open_head", "close_head"} =>
               head.cur = [is |-> "full", step |-> ions.step, vel |-> ions.vel]

EndInv ==
    /\ job = "stopped" => halvings > MaxHalvings
    /\ job = "over" => ~ Resumed /\ \A p \in Procs : pc[p] = "out" /\ call[p] = "step"

OrbitalInv == ResetInv /\ DirInv /\ LastInv /\ EndInv
-----------------------------------------------------------------------------
LEMMA RootIsProc == root \in Procs
BY RestartAssumption DEF root, Procs

LEMMA FileTypes ==
    NewOrbitals \in Orbitals /\ NoHead \in HeadFile /\ NoWave \in WaveFile
<1>1. NewOrbitals \in Orbitals
  BY DEF NewOrbitals, Orbitals
<1> QED
  BY <1>1 DEF NoHead, NoWave, HeadFile, WaveFile, Velocity

LEMMA InitType == Init => TypeOK
<1> SUFFICES ASSUME Init PROVE TypeOK
  OBVIOUS
<1> USE RestartAssumption, FileTypes DEF Init
<1>1. JobType
  <2>1. Moves \in Nat
    BY DEF Moves
  <2>2. md_steps = 0 /\ crashes = 0 /\ ions = [step |-> 0, vel |-> "full"]
    OBVIOUS
  <2>3. /\ forceflag \in {"quench", "relax", "md"} /\ checkpoint \in Checkpoints
        /\ job = "running" /\ phase = "first"
    OBVIOUS
  <2> QED
    BY <2>1, <2>2, <2>3 DEF JobType, Velocity
<1>2. WriteType
  BY DEF WriteType, Enter
<1>3. ElectronType
  BY DEF ElectronType
<1>4. FileType
  BY DEF FileType
<1>5. FlagType
  BY Zenon DEF FlagType
<1> QED
  BY <1>1, <1>2, <1>3, <1>4, <1>5 DEF TypeOK

\* Mixing that has fallen too low has stopped the job.
MixInv == job \in {"running", "crashed"} => halvings <= MaxHalvings

\* What WriteRestart changes is where the processes are in it, and the files.
LEMMA WriteRestartType ==
    ASSUME TypeOK, MixInv, NEW p \in Procs,
           SaveHead \/ OpenHead \/ CloseHead \/ MeetInWrite
              \/ SaveWave(p) \/ OpenWave(p) \/ WriteWave(p)
    PROVE  TypeOK' /\ MixInv'
<1> USE RestartAssumption, FileTypes DEF At, Goto, TypeOK, control, electrons, files
<1>1. ElectronType' /\ FlagType' /\ MixInv'
  <2>1. ElectronType'
    BY DEF ElectronType, SaveHead, OpenHead, CloseHead, MeetInWrite, SaveWave, OpenWave, WriteWave
  <2>2. FlagType'
    BY Zenon DEF FlagType, SaveHead, OpenHead, CloseHead, MeetInWrite, SaveWave, OpenWave, WriteWave
  <2>3. MixInv'
    BY DEF MixInv, SaveHead, OpenHead, CloseHead, MeetInWrite, SaveWave, OpenWave, WriteWave
  <2> QED
    BY <2>1, <2>2, <2>3
<1>2. CASE SaveHead
  <2>1. head' \in [cur : HeadFile, prev : HeadFile]
    BY <1>2 DEF SaveHead, SetHead, Renamed, FileType
  <2> QED
    BY <1>1, <1>2, <2>1 DEF SaveHead, JobType, Moves, WriteType, FileType
<1>3. CASE OpenHead
  <2>1. [NoHead EXCEPT !.is = "empty"] \in HeadFile
    BY DEF HeadFile
  <2>2. head' \in [cur : HeadFile, prev : HeadFile]
    BY <1>3, <2>1 DEF OpenHead, SetHead, FileType
  <2> QED
    BY <1>1, <1>3, <2>2 DEF OpenHead, JobType, Moves, WriteType, FileType
<1>4. CASE CloseHead
  <2>1. [is |-> "full", step |-> ions.step, vel |-> ions.vel] \in HeadFile
    BY DEF HeadFile, JobType
  <2>2. head' \in [cur : HeadFile, prev : HeadFile]
    BY <1>4, <2>1 DEF CloseHead, SetHead, FileType
  <2> QED
    BY <1>1, <1>4, <2>2 DEF CloseHead, JobType, Moves, WriteType, FileType
<1>5. CASE MeetInWrite
  BY <1>1, <1>5 DEF MeetInWrite, JobType, Moves, WriteType, FileType
<1>6. CASE SaveWave(p)
  <2>1. Name(p) \in Names
    BY DEF Name, Names
  <2>2. wave[Name(p)][p] \in [cur : WaveFile, prev : WaveFile]
    BY <2>1 DEF FileType
  <2>3. Renamed(wave[Name(p)][p], NoWave, Name(p) = "out") \in [cur : WaveFile, prev : WaveFile]
    BY <2>2 DEF Renamed
  <2>4. wave' = [wave EXCEPT ![Name(p)] = [@ EXCEPT ![p] =
                    Renamed(wave[Name(p)][p], NoWave, Name(p) = "out")]]
    BY <1>6 DEF SaveWave
  <2>5. wave' \in [Names -> [Procs -> [cur : WaveFile, prev : WaveFile]]]
    BY <2>1, <2>3, <2>4 DEF FileType
  <2> QED
    BY <1>1, <1>6, <2>5 DEF SaveWave, JobType, Moves, WriteType, FileType
<1>7. CASE OpenWave(p)
  <2>1. Name(p) \in Names
    BY DEF Name, Names
  <2>2. wave[Name(p)][p] \in [cur : WaveFile, prev : WaveFile]
    BY <2>1 DEF FileType
  <2> DEFINE opened == [wave[Name(p)][p] EXCEPT !.cur = [NoWave EXCEPT !.is = "empty"]]
  <2>3. opened \in [cur : WaveFile, prev : WaveFile]
    BY <2>2 DEF WaveFile
  <2>4. wave' \in {wave, [wave EXCEPT ![Name(p)] = [@ EXCEPT ![p] = opened]]}
    BY <1>7 DEF OpenWave
  <2> HIDE DEF opened
  <2>5. wave' \in [Names -> [Procs -> [cur : WaveFile, prev : WaveFile]]]
    <3>1. CASE wave' = [wave EXCEPT ![Name(p)] = [@ EXCEPT ![p] = opened]]
      BY <2>1, <2>3, <3>1 DEF FileType
    <3> QED
      BY <2>4, <3>1 DEF FileType
  <2>6. job' \in {"running", "crashed", "over", "stopped"} /\ WriteType'
    BY <1>7 DEF OpenWave, JobType, WriteType
  <2> QED
    BY <1>1, <1>7, <2>5, <2>6 DEF OpenWave, JobType, Moves, FileType
<1>8. CASE WriteWave(p)
  <2>1. Name(p) \in Names
    BY DEF Name, Names
  <2>2. wave[Name(p)][p] \in [cur : WaveFile, prev : WaveFile] /\ psi[p] \in Orbitals
    BY <2>1 DEF FileType, ElectronType
  <2>3. [wave[Name(p)][p] EXCEPT !.cur = [is |-> "full", psi |-> psi[p]]]
           \in [cur : WaveFile, prev : WaveFile]
    BY <2>2 DEF WaveFile
  <2>4. wave' = [wave EXCEPT ![Name(p)] = [@ EXCEPT ![p] =
                    [wave[Name(p)][p] EXCEPT !.cur = [is |-> "full", psi |-> psi[p]]]]]
    BY <1>8 DEF WriteWave
  <2>5. wave' \in [Names -> [Procs -> [cur : WaveFile, prev : WaveFile]]]
    BY <2>1, <2>3, <2>4 DEF FileType
  <2>7. WriteType' /\ ions' \in [step : Nat, vel : Velocity]
    BY <1>8 DEF WriteWave, NextCall, Enter, WriteType, JobType, Velocity
  <2> QED
    BY <1>1, <1>8, <2>5, <2>7 DEF WriteWave, JobType, FileType, Moves
<1> QED
  BY <1>2, <1>3, <1>4, <1>5, <1>6, <1>7, <1>8

\* Every other step of a job leaves the files alone.
LEMMA LoopType ==
    ASSUME TypeOK, MixInv,
           LowerMix \/ ScfStep \/ FinishQuench \/ Move \/ ExtrapolateOrbitals \/ LastQuench \/ End
    PROVE  TypeOK' /\ MixInv'
<1> USE RestartAssumption, FileTypes DEF TypeOK, control, electrons, files, CallWrite, Enter
<1>1. FileType'
  BY DEF FileType, LowerMix, ScfStep, FinishQuench, Move, ExtrapolateOrbitals, LastQuench, End
<1>2. WriteType'
  BY DEF WriteType, LowerMix, ScfStep, FinishQuench, Move, ExtrapolateOrbitals, LastQuench,
         End, StartQuench
<1>3. JobType'
  BY DEF JobType, Moves, Velocity, LowerMix, ScfStep, FinishQuench, Move, ExtrapolateOrbitals,
         LastQuench, End
<1>4. ElectronType'
  <2>1. CASE LowerMix
    <3>1. \A p \in Procs : InitFiles[p].psi \in Orbitals
      BY DEF InitFiles, FileType, WaveFile, Names
    <3>2. psi' \in [Procs -> Orbitals]
      BY <2>1, <3>1 DEF ElectronType, LowerMix
    <3>3. halvings <= MaxHalvings
      BY <2>1 DEF LowerMix, AllAfter, At, MixInv, Procs
    <3>4. halvings' \in 0..(MaxHalvings + 1)
      BY <2>1, <3>3 DEF ElectronType, LowerMix
    <3>5. UNCHANGED <<start, total_scf_steps>> /\ scf_steps' = 0
      BY <2>1 DEF LowerMix
    <3> QED
      BY <3>2, <3>4, <3>5 DEF ElectronType
  <2>2. CASE ScfStep
    BY <2>2 DEF ElectronType, ScfStep, AnotherScf, JobType, Orbitals
  <2>3. CASE ExtrapolateOrbitals
    BY <2>3 DEF ElectronType, ExtrapolateOrbitals, Extrapolated, Orbitals
  <2>4. CASE Move \/ LastQuench
    BY <2>4 DEF ElectronType, Move, LastQuench, StartQuench
  <2>5. CASE FinishQuench \/ End
    BY <2>5 DEF ElectronType, FinishQuench, End
  <2> QED
    BY <2>1, <2>2, <2>3, <2>4, <2>5
<1>5. MixInv'
  BY DEF MixInv, ElectronType, LowerMix, ScfStep, FinishQuench, Move, ExtrapolateOrbitals,
         LastQuench, End
<1>6. FlagType'
  <2>1. CASE LowerMix \/ FinishQuench \/ ExtrapolateOrbitals \/ End
    BY <2>1, Zenon DEF FlagType, LowerMix, FinishQuench, ExtrapolateOrbitals, End
  <2>2. CASE ScfStep \/ Move \/ LastQuench
    BY <2>2, Zenon DEF FlagType, ScfStep, Move, LastQuench, StartQuench
  <2> QED
    BY <2>1, <2>2
<1> QED
  BY <1>1, <1>2, <1>3, <1>4, <1>5, <1>6

LEMMA CrashType ==
    ASSUME TypeOK, MixInv, Crash \/ Rescue \/ Resume \/ StartOver \/ Ended
    PROVE  TypeOK' /\ MixInv'
<1> USE RestartAssumption, FileTypes DEF TypeOK
<1>1. FlagType'
  BY Zenon DEF FlagType, Crash, Rescue, Resume, StartOver, Ended, vars, StartQuench, control,
               electrons, files
<1>2. CASE Crash
  <2> USE <1>2 DEF Crash
  <2>1. [head EXCEPT !.cur = [is |-> "atoms", step |-> ions.step, vel |-> "off"]]
           \in [cur : HeadFile, prev : HeadFile]
    BY DEF FileType, HeadFile, Velocity, JobType
  <2>2. head' \in [cur : HeadFile, prev : HeadFile]
    BY <2>1 DEF SetHead, FileType
  <2>3. ElectronType' /\ WriteType'
    BY DEF ElectronType, WriteType, Begin, StartQuench, CallWrite, Enter
  <2>4. crashes' \in 0..MaxCrashes /\ md_steps' \in 0..Moves'
    BY DEF JobType, Moves, Begin
  <2>5. JobType' /\ MixInv'
    BY <2>4 DEF JobType, Velocity, Begin, MixInv
  <2> QED
    BY <1>1, <2>2, <2>3, <2>5 DEF FileType
<1>3. CASE Rescue
  <2>1. FileType'
    BY <1>3 DEF Rescue, FileType, Kept, Names
  <2> QED
    BY <1>1, <1>3, <2>1 DEF Rescue, ElectronType, WriteType, JobType, Moves, MixInv, control, electrons
<1>4. CASE Resume
  <2> USE <1>4 DEF Resume
  <2>1. FileType'
    BY DEF FileType, files
  <2>2. head.cur \in HeadFile /\ \A p \in Procs : wave["out"][p].cur.psi \in Orbitals
    BY DEF FileType, Names, WaveFile
  <2>3. ElectronType'
    BY <2>2 DEF ElectronType, Begin, StartQuench
  <2>4. WriteType'
    BY DEF WriteType, StartQuench, CallWrite, Enter
  <2>5. md_steps' \in 0..Moves'
    BY DEF JobType, Moves, Begin
  <2>6. JobType' /\ MixInv'
    BY <2>2, <2>5 DEF JobType, HeadFile, Velocity, Begin, MixInv
  <2> QED
    BY <1>1, <2>1, <2>3, <2>4, <2>6
<1>5. CASE StartOver
  BY <1>1, <1>5 DEF StartOver, FileType, ElectronType, WriteType, JobType, Moves, MixInv, electrons, files
<1>6. CASE Ended
  BY <1>1, <1>6 DEF Ended, vars, FileType, ElectronType, WriteType, JobType, Moves, MixInv, control, electrons, files
<1> QED
  BY <1>2, <1>3, <1>4, <1>5, <1>6
-----------------------------------------------------------------------------
LEMMA InitFileInv == Init => FileInv
<1> SUFFICES ASSUME Init PROVE FileInv
  OBVIOUS
<1> USE RootIsProc DEF Init
<1>1. job # "crashed" /\ saved = FALSE /\ \A p \in Procs : call[p] = "init" /\ pc[p] = Enter(p)
  OBVIOUS
<1>2. HeadInv
  BY <1>1 DEF HeadInv, HeadWritten, HeadBusy, Name
<1>3. WaveInv
  BY <1>1 DEF WaveInv, WaveBusy, Name
<1> QED
  BY <1>1, <1>2, <1>3 DEF FileInv, Enter, AcceptsWave, NoWave, Names

\* Process 0 writes the head file.
LEMMA HeadStep ==
    ASSUME TypeOK, FileInv, SaveHead \/ OpenHead \/ CloseHead
    PROVE  FileInv'
<1> USE RootIsProc
<1>1. /\ job = "running" /\ job' = "running" /\ UNCHANGED <<call, wave, saved>>
      /\ pc[root] \in {"save_head", "open_head", "close_head"}
      /\ \E place \in {"open_head", "close_head", "meet"} : pc' = [pc EXCEPT ![root] = place]
  BY DEF SaveHead, OpenHead, CloseHead, At, Goto, control
<1>2. HeadInv /\ WaveInv
  BY <1>1 DEF FileInv
<1>3. /\ \A p \in Procs : Name(p)' = Name(p)
      /\ \A p \in Procs \ {root} : pc'[p] = pc[p]
      /\ pc'[root] \in {"open_head", "close_head", "meet"}
  BY <1>1 DEF Name, TypeOK, WriteType
<1>4. HeadWritten' <=> HeadWritten
  BY <1>1, <1>3 DEF HeadWritten, WaveStage
<1>5. WaveInv'
  BY <1>1, <1>2, <1>3 DEF WaveInv, WaveBusy
<1>6. HeadInv'
  <2>1. head \in [cur : HeadFile, prev : HeadFile]
    BY DEF TypeOK, FileType
  <2>2. CASE SaveHead
    BY <1>2, <1>3, <1>4, <2>1, <2>2 DEF HeadInv, HeadBusy, SaveHead, SetHead, Renamed, AcceptsHead,
       At, Goto, TypeOK, WriteType, HeadFile
  <2>3. CASE OpenHead
    BY <1>2, <1>3, <1>4, <2>1, <2>3 DEF HeadInv, HeadBusy, OpenHead, SetHead, At, Goto, TypeOK, WriteType
  <2>4. CASE CloseHead
    BY <1>2, <1>3, <1>4, <2>1, <2>4 DEF HeadInv, HeadBusy, CloseHead, SetHead, AcceptsHead,
       At, Goto, TypeOK, WriteType
  <2> QED
    BY <2>2, <2>3, <2>4
<1> QED
  BY <1>1, <1>3, <1>5, <1>6 DEF FileInv

LEMMA MeetStep ==
    ASSUME TypeOK, FileInv, MeetInWrite
    PROVE  FileInv'
<1> USE RootIsProc DEF MeetInWrite, At
<1>1. /\ job = "running" /\ job' = "running" /\ UNCHANGED <<call, wave, saved, head>>
      /\ \A p \in Procs : pc[p] = "meet" /\ pc'[p] = "save_wave"
  BY DEF control, files
<1>2. \A p \in Procs : Name(p)' = Name(p) /\ Name(p) = Name(root)
  BY <1>1 DEF Name, FileInv
<1>3. HeadInv'
  BY <1>1, <1>2 DEF FileInv, HeadInv, HeadWritten, HeadBusy, AcceptsHead
<1>4. WaveInv'
  BY <1>1, <1>2 DEF FileInv, WaveInv, WaveBusy
<1> QED
  BY <1>1, <1>3, <1>4 DEF FileInv

\* A process writes its wave file.
LEMMA WaveStep ==
    ASSUME TypeOK, FileInv, NEW p \in Procs, SaveWave(p) \/ OpenWave(p) \/ WriteWave(p)
    PROVE  FileInv'
<1> USE RootIsProc
<1>1. /\ job = "running" /\ job' # "crashed" /\ UNCHANGED head
      /\ pc[p] \in WaveStage
  BY DEF SaveWave, OpenWave, WriteWave, At, control, WaveStage
<1>2. HeadInv /\ WaveInv
  BY <1>1 DEF FileInv
<1>3. /\ \A q \in Procs \ {p} : pc'[q] = pc[q] /\ call'[q] = call[q]
      /\ call'[p] = "init" <=> call[p] = "init"
      /\ pc'[p] \in WaveStage \cup {Enter(p), "out"}
  <2>1. CASE SaveWave(p)
    BY <2>1 DEF SaveWave, Goto, WaveStage, TypeOK, WriteType
  <2>2. CASE OpenWave(p)
    BY <2>2, <1>1 DEF OpenWave, Goto, WaveStage, TypeOK, WriteType
  <2>3. CASE WriteWave(p)
    BY <2>3 DEF WriteWave, NextCall, Goto, WaveStage, TypeOK, WriteType
  <2> QED
    BY <2>1, <2>2, <2>3
<1>4. \A q \in Procs : Name(q)' = Name(q) /\ Name(q) = Name(root)
  BY <1>3 DEF Name, FileInv
<1>5. Name(p) = "out" => HeadWritten
  BY <1>1 DEF HeadWritten
<1>6. \A q \in Procs \ {p} : wave'["out"][q] = wave["out"][q]
  BY DEF SaveWave, OpenWave, WriteWave, TypeOK, FileType, Names
<1>7. Name(p) = "init" => wave'["out"][p] = wave["out"][p] /\ saved' = saved
  <2> SUFFICES ASSUME Name(p) = "init" PROVE wave'["out"][p] = wave["out"][p] /\ saved' = saved
    OBVIOUS
  <2>1. wave'["out"] = wave["out"]
    BY DEF SaveWave, OpenWave, WriteWave, TypeOK, FileType, Names
  <2>2. CASE WriteWave(p)
    <3>1. saved' = (saved \/ \A q \in Procs : AcceptsWave(wave["out"][q].cur))
      BY <2>1, <2>2 DEF WriteWave, AcceptsWave
    <3> QED
      BY <2>1, <3>1, Zenon DEF FileInv, FlagType, TypeOK
  <2> QED
    BY <2>1, <2>2 DEF SaveWave, OpenWave
<1>8. /\ HeadBusy' <=> HeadBusy
      /\ HeadWritten' => HeadWritten
      /\ pc'[root] = "meet" => pc[root] = "meet"
  <2>1. HeadBusy' <=> HeadBusy
    BY <1>1, <1>3, <1>4 DEF HeadBusy, WaveStage, Enter
  <2>2. saved' => saved \/ Name(p) = "out"
    BY <1>7 DEF Name
  <2>3. HeadWritten' => HeadWritten
    BY <1>1, <1>3, <1>4, <1>5, <2>2 DEF HeadWritten
  <2> QED
    BY <1>1, <1>3, <2>1, <2>3 DEF WaveStage, Enter
<1>9. HeadInv'
  BY <1>1, <1>2, <1>4, <1>8 DEF HeadInv
<1>10. \A q \in Procs \ {p} : WaveBusy(q)' <=> WaveBusy(q)
  BY <1>3, <1>4 DEF WaveBusy
<1>11. WaveInv' /\ ((\A q \in Procs : AcceptsWave(wave'["out"][q].cur)) => saved')
  <2>1. CASE Name(p) = "init"
    <3>1. \A q \in Procs : wave'["out"][q] = wave["out"][q] /\ (WaveBusy(q)' <=> WaveBusy(q))
      BY <1>4, <1>6, <1>7, <1>10, <2>1 DEF WaveBusy
    <3> QED
      BY <1>2, <1>7, <2>1, <3>1 DEF WaveInv, FileInv
  <2>2. CASE Name(p) = "out" /\ SaveWave(p)
    <3>1. wave'["out"][p] = Renamed(wave["out"][p], NoWave, TRUE) /\ saved' = saved
      BY <2>2 DEF SaveWave, TypeOK, FileType, Names
    <3>2. WaveBusy(p)' /\ ~ WaveBusy(p) /\ pc'[p] = "open_wave"
      BY <1>4, <2>2 DEF WaveBusy, SaveWave, At, Goto, TypeOK, WriteType
    <3>3. wave'["out"][p].cur.is # "full"
      BY <3>1 DEF Renamed, NoWave
    <3>4. saved => AcceptsWave(wave'["out"][p].prev)
      BY <1>2, <3>1, <3>2 DEF WaveInv, Renamed, AcceptsWave
    <3> QED
      BY <1>2, <1>6, <1>10, <3>1, <3>2, <3>3, <3>4 DEF WaveInv, AcceptsWave
  <2>3. CASE Name(p) = "out" /\ OpenWave(p)
    <3>1. saved' = saved /\ WaveBusy(p) /\ WaveBusy(p)'
      BY <1>4, <2>3 DEF OpenWave, WaveBusy, At, Goto, TypeOK, WriteType
    <3>2. wave'["out"][p].prev = wave["out"][p].prev /\ wave'["out"][p].cur.is # "full"
      BY <1>2, <2>3, <3>1 DEF OpenWave, WaveInv, NoWave, TypeOK, FileType, Names, WaveFile
    <3> QED
      BY <1>2, <1>6, <1>10, <3>1, <3>2 DEF WaveInv, AcceptsWave
  <2>4. CASE Name(p) = "out" /\ WriteWave(p)
    <3>1. wave'["out"][p].cur.is = "full" /\ ~ WaveBusy(p)'
      BY <1>4, <2>4 DEF WriteWave, NextCall, Enter, WaveBusy, Goto, TypeOK, WriteType, FileType, Names, WaveFile
    <3>2. saved' = (saved \/ \A q \in Procs : wave'["out"][q].cur.is = "full")
      BY <2>4 DEF WriteWave
    <3>3. \A q \in Procs \ {p} : wave'["out"][q].cur.is = "full" => ~ WaveBusy(q)'
      BY <1>2, <1>6, <1>10 DEF WaveInv
    <3>4. CASE saved
      BY <1>2, <1>6, <1>10, <3>1, <3>2, <3>4 DEF WaveInv, AcceptsWave
    <3>5. CASE ~ saved
      BY <1>2, <1>6, <1>10, <3>1, <3>2, <3>3, <3>5 DEF WaveInv, AcceptsWave
    <3> QED
      BY <3>4, <3>5
  <2> QED
    BY <2>1, <2>2, <2>3, <2>4 DEF Name
<1> QED
  BY <1>1, <1>3, <1>9, <1>11 DEF FileInv, Enter, WaveStage

\* The other steps of a job leave the files alone and begin with all processes out
\* of WriteRestart.
LEMMA LoopStep ==
    ASSUME TypeOK, FileInv,
           LowerMix \/ ScfStep \/ FinishQuench \/ Move \/ ExtrapolateOrbitals \/ LastQuench \/ End
    PROVE  FileInv'
<1> USE RootIsProc
<1>1. /\ job = "running" /\ job' # "crashed" /\ UNCHANGED <<head, wave, saved>>
      /\ \A p \in Procs : pc[p] = "out"
  BY DEF LowerMix, ScfStep, FinishQuench, Move, ExtrapolateOrbitals, LastQuench, End, AllAfter,
         At, control, files
<1>2. /\ \A p \in Procs : pc'[p] \in {"out", Enter(p)}
      /\ \A p \in Procs : call'[p] = "init" <=> call'[root] = "init"
  BY <1>1 DEF LowerMix, ScfStep, FinishQuench, Move, ExtrapolateOrbitals, LastQuench, End,
         CallWrite, StartQuench, FileInv
<1>3. HeadInv'
  BY <1>1, <1>2 DEF FileInv, HeadInv, HeadWritten, HeadBusy, WaveStage, Enter
<1>4. WaveInv'
  BY <1>1, <1>2 DEF FileInv, WaveInv, WaveBusy, Enter
<1> QED
  BY <1>1, <1>2, <1>3, <1>4 DEF FileInv, Enter

LEMMA UserStep ==
    ASSUME TypeOK, FileInv, Crash \/ Rescue \/ Resume \/ StartOver \/ Ended
    PROVE  FileInv'
<1> USE RootIsProc
<1>1. CASE Crash
  <2>1. /\ job = "running" /\ job' = "crashed" /\ UNCHANGED <<wave, saved>>
        /\ \A p \in Procs : pc'[p] = Enter(p) /\ call'[p] = "init"
    BY <1>1 DEF Crash, StartQuench, CallWrite
  <2>2. HeadInv /\ WaveInv
    BY <2>1 DEF FileInv
  <2>3. saved => AcceptsHead(head'.cur) \/ AcceptsHead(head'.prev)
    BY <1>1, <2>2 DEF Crash, SetHead, HeadInv, HeadWritten, AcceptsHead, TypeOK, FileType, HeadFile
  <2>4. EveryFileHasACopy'
    BY <2>1, <2>2, <2>3 DEF EveryFileHasACopy, WaveInv
  <2> QED
    BY <2>1, <2>4 DEF FileInv, CrashInv, Parked, Enter
<1>2. CASE Rescue
  <2>1. /\ job' = "crashed" /\ job = "crashed" /\ UNCHANGED <<pc, call, saved>> /\ saved
    BY <1>2 DEF Rescue, control
  <2>2. AcceptsHead(head'.cur)
    BY <1>2, <2>1 DEF Rescue, FileInv, CrashInv, EveryFileHasACopy, Kept
  <2>3. \A p \in Procs : AcceptsWave(wave'["out"][p].cur)
    BY <1>2, <2>1 DEF Rescue, FileInv, CrashInv, EveryFileHasACopy, Kept, TypeOK, FileType, Names
  <2> QED
    BY <2>1, <2>2, <2>3 DEF FileInv, CrashInv, Parked, EveryFileHasACopy
<1>3. CASE Resume
  <2>1. /\ job' = "running" /\ Restartable /\ UNCHANGED <<head, wave, saved>>
        /\ \A p \in Procs : pc'[p] \in {Enter(p), "out"} /\ (call'[p] = "init" <=> call'[root] = "init")
    BY <1>3 DEF Resume, StartQuench, CallWrite, files
  <2>2. HeadInv' /\ WaveInv'
    BY <2>1 DEF HeadInv, WaveInv, HeadBusy, WaveBusy, Restartable, AcceptsHead, AcceptsWave, Enter
  <2> QED
    BY <2>1, <2>2 DEF FileInv, Enter
<1>4. CASE StartOver
  <2>1. /\ job = "crashed" /\ job' = "running" /\ ~ saved /\ UNCHANGED <<head, wave, saved, pc, call>>
    BY <1>4 DEF StartOver, files
  <2>2. \A p \in Procs : Name(p)' = "init"
    BY <2>1 DEF FileInv, CrashInv, Parked, Name
  <2>3. HeadInv' /\ WaveInv'
    BY <2>1, <2>2 DEF HeadInv, WaveInv, HeadBusy, WaveBusy, HeadWritten
  <2> QED
    BY <2>1, <2>3 DEF FileInv
<1>5. CASE Ended
  BY <1>5 DEF Ended, vars, control, files, FileInv, CrashInv, Parked, EveryFileHasACopy, HeadInv,
              WaveInv, HeadBusy, WaveBusy, HeadWritten, Name, Enter
<1> QED
  BY <1>1, <1>2, <1>3, <1>4, <1>5
-----------------------------------------------------------------------------
LEMMA InitOrbitalInv == Init => OrbitalInv
<1> SUFFICES ASSUME Init PROVE OrbitalInv
  OBVIOUS
<1> USE RootIsProc DEF Init
<1>1. /\ job = "running" /\ psi = start
      /\ \A p \in Procs : call[p] = "init" /\ pc[p] \in {"save_head", "meet"}
      /\ \A p \in Procs : pc[p] = "meet" => p # root
  BY DEF Enter
<1> HIDE DEF Init
<1> QED
  BY <1>1 DEF OrbitalInv, ResetInv, DirInv, LastInv, EndInv, WaveStage

LEMMA HeadOrbitals ==
    ASSUME TypeOK, OrbitalInv, SaveHead \/ OpenHead \/ CloseHead \/ MeetInWrite
    PROVE  OrbitalInv'
<1> USE RootIsProc
<1>1. /\ job = "running" /\ job' = "running"
      /\ UNCHANGED <<call, wave, psi, start, ions, forceflag, phase, halvings>>
  BY DEF SaveHead, OpenHead, CloseHead, MeetInWrite, At, control, electrons, files
<1>2. CASE MeetInWrite
  <2>1. UNCHANGED <<head, dir>> /\ \A p \in Procs : pc[p] = "meet" /\ pc'[p] = "save_wave"
    BY <1>2 DEF MeetInWrite, At, files
  <2> QED
    BY <1>1, <2>1 DEF OrbitalInv, ResetInv, DirInv, LastInv, EndInv, WaveStage, Resumed
<1>3. CASE SaveHead \/ OpenHead \/ CloseHead
  <2>1. /\ \A p \in Procs \ {root} : pc'[p] = pc[p]
        /\ pc[root] \in {"save_head", "open_head", "close_head"}
        /\ pc'[root] \in {"open_head", "close_head", "meet"}
    BY <1>3 DEF SaveHead, OpenHead, CloseHead, At, Goto, TypeOK, WriteType
  <2>2. ResetInv'
    BY <1>1, <2>1 DEF OrbitalInv, ResetInv
  <2>3. DirInv'
    BY <1>3, <2>1 DEF OrbitalInv, DirInv, WaveStage, SaveHead, OpenHead, CloseHead, At, Goto, TypeOK, WriteType
  <2>4. pc'[root] = "meet" /\ call[root] = "step" =>
            head'.cur = [is |-> "full", step |-> ions.step, vel |-> ions.vel]
    BY <1>3 DEF SaveHead, OpenHead, CloseHead, SetHead, Name, At, Goto, TypeOK, WriteType, FileType
  <2>5. LastInv'
    BY <1>1, <2>1, <2>4 DEF OrbitalInv, LastInv, Resumed
  <2> QED
    BY <1>1, <2>2, <2>3, <2>5 DEF OrbitalInv, EndInv
<1> QED
  BY <1>2, <1>3

LEMMA WaveOrbitals ==
    ASSUME TypeOK, OrbitalInv, NEW p \in Procs, SaveWave(p) \/ OpenWave(p) \/ WriteWave(p)
    PROVE  OrbitalInv'
<1> USE RootIsProc
<1>1. /\ job = "running" /\ pc[p] \in WaveStage
      /\ UNCHANGED <<head, dir, psi, start, forceflag, phase, halvings>>
  BY DEF SaveWave, OpenWave, WriteWave, At, WaveStage, control, electrons
<1>2. dir
  BY <1>1 DEF OrbitalInv, DirInv
<1>3. job' = "running"
  BY <1>1, <1>2 DEF SaveWave, OpenWave, WriteWave, control
<1>4. \A q \in Procs \ {p} : /\ pc'[q] = pc[q] /\ call'[q] = call[q]
                              /\ wave'["out"][q] = wave["out"][q]
                              /\ wave'["init"][q] = wave["init"][q]
  <2>1. \A q \in Procs \ {p} : pc'[q] = pc[q] /\ call'[q] = call[q]
    BY <1>1, <1>2 DEF SaveWave, OpenWave, WriteWave, NextCall, Goto, TypeOK, WriteType
  <2>2. \A q \in Procs \ {p} : /\ wave'["out"][q] = wave["out"][q]
                               /\ wave'["init"][q] = wave["init"][q]
    BY DEF SaveWave, OpenWave, WriteWave, TypeOK, FileType, Names
  <2> QED
    BY <2>1, <2>2
<1>5. p # root \/ call[p] # "quench" => ions' = ions
  BY DEF SaveWave, OpenWave, WriteWave, NextCall
<1>6. DirInv'
  BY <1>1, <1>2 DEF DirInv
<1>7. CASE SaveWave(p)
  <2>1. call' = call /\ pc[p] = "save_wave" /\ pc'[p] = "open_wave"
    BY <1>7 DEF SaveWave, At, Goto, TypeOK, WriteType
  <2>2. Name(p) = "out" => /\ wave'["init"] = wave["init"]
                           /\ wave'["out"][p] = Renamed(wave["out"][p], NoWave, TRUE)
    BY <1>7 DEF SaveWave, TypeOK, FileType, Names
  <2>3. ResetInv'
    BY <1>1, <1>4, <2>1, <2>2 DEF OrbitalInv, ResetInv, Name
  <2>4. ~ Resumed /\ call[p] = "step" => wave'["out"][p].prev = [is |-> "full", psi |-> psi[p]]
    BY <2>1, <2>2 DEF OrbitalInv, LastInv, Renamed, Name
  <2>5. ions' = ions
    BY <1>7 DEF SaveWave
  <2>6. LastInv'
    BY <1>1, <1>4, <2>1, <2>4, <2>5 DEF OrbitalInv, LastInv, Resumed
  <2> QED
    BY <1>3, <1>6, <2>3, <2>6 DEF OrbitalInv, EndInv
<1>8. CASE OpenWave(p)
  <2>1. call' = call /\ pc[p] = "open_wave" /\ pc'[p] = "write_wave" /\ ions' = ions
    BY <1>2, <1>8 DEF OpenWave, At, Goto, TypeOK, WriteType
  <2>2. Name(p) = "out" => /\ wave'["init"] = wave["init"]
                           /\ wave'["out"][p].prev = wave["out"][p].prev
    <3> SUFFICES ASSUME Name(p) = "out"
                 PROVE  /\ wave'["init"] = wave["init"]
                        /\ wave'["out"][p].prev = wave["out"][p].prev
      OBVIOUS
    <3> DEFINE opened == [wave["out"][p] EXCEPT !.cur = [NoWave EXCEPT !.is = "empty"]]
    <3>1. opened.prev = wave["out"][p].prev
      BY DEF TypeOK, FileType, Names
    <3>2. wave' = [wave EXCEPT !["out"] = [@ EXCEPT ![p] = opened]]
      BY <1>2, <1>8 DEF OpenWave
    <3> HIDE DEF opened
    <3> QED
      BY <3>1, <3>2 DEF TypeOK, FileType, Names
  <2>3. ResetInv'
    BY <1>1, <1>4, <2>1, <2>2 DEF OrbitalInv, ResetInv, Name
  <2>4. LastInv'
    BY <1>1, <1>4, <2>1, <2>2 DEF OrbitalInv, LastInv, Resumed, Name
  <2> QED
    BY <1>3, <1>6, <2>3, <2>4 DEF OrbitalInv, EndInv
<1>9. CASE WriteWave(p)
  <2>1. /\ pc[p] = "write_wave"
        /\ call[p] = "quench" => call'[p] = "step" /\ pc'[p] = Enter(p)
        /\ call[p] # "quench" => call' = call /\ pc'[p] = "out" /\ ions' = ions
    BY <1>9 DEF WriteWave, NextCall, At, Goto, TypeOK, WriteType
  <2>2. /\ Name(p) = "out" => /\ wave'["init"] = wave["init"]
                              /\ wave'["out"][p].prev = wave["out"][p].prev
                              /\ wave'["out"][p].cur = [is |-> "full", psi |-> psi[p]]
        /\ Name(p) = "init" => wave'["init"][p].cur = [is |-> "full", psi |-> psi[p]]
    BY <1>9 DEF WriteWave, Name, TypeOK, FileType, Names, WaveFile
  <2>3. ResetInv'
    BY <1>1, <1>4, <2>1, <2>2 DEF OrbitalInv, ResetInv, Name
  <2>4. \A q \in Procs \ {root} : Enter(q) = "meet"
    BY DEF Enter
  <2>5. Enter(root) = "save_head"
    BY DEF Enter
  <2>6. LastInv'
    BY <1>1, <1>4, <1>5, <2>1, <2>2, <2>4, <2>5 DEF OrbitalInv, LastInv, Resumed, Name
  <2> QED
    BY <1>3, <1>6, <2>3, <2>6 DEF OrbitalInv, EndInv
<1> QED
  BY <1>7, <1>8, <1>9
\* Quench and its callers
LEMMA LoopOrbitals ==
    ASSUME TypeOK, MixInv, OrbitalInv,
           LowerMix \/ ScfStep \/ FinishQuench \/ Move \/ ExtrapolateOrbitals \/ LastQuench \/ End
    PROVE  OrbitalInv'
<1> USE RootIsProc
<1>1. /\ job = "running" /\ UNCHANGED <<wave, head, dir, forceflag>>
      /\ \A p \in Procs : pc[p] = "out"
  BY DEF LowerMix, ScfStep, FinishQuench, Move, ExtrapolateOrbitals, LastQuench, End, AllAfter,
         At, control, files
<1>2. CASE LowerMix
  <2>1. /\ UNCHANGED <<pc, call, phase, ions, start>>
        /\ \A p \in Procs : call[p] \in {"init", "check"}
    BY <1>2 DEF LowerMix, AllAfter, files
  <2>2. \A p \in Procs : wave["init"][p].cur = [is |-> "full", psi |-> start[p]]
    BY <1>1, <2>1 DEF OrbitalInv, ResetInv
  <2>3. \A p \in Procs : InitFiles[p].is = "full"
    <3> TAKE p \in Procs
    <3>1. InitFiles[p] = [is |-> "full", psi |-> start[p]]
      BY <2>2, Zenon DEF InitFiles
    <3> QED
      BY <3>1
  <2>8. /\ halvings' = halvings + 1
        /\ job' = IF halvings + 1 > MaxHalvings THEN "stopped" ELSE job
    <3> HIDE DEF InitFiles
    <3> QED
      BY <1>2, <2>3 DEF LowerMix
  <2>4. ResetInv'
    BY <1>1, <2>1, <2>2 DEF ResetInv
  <2>5. DirInv'
    BY <1>1, <2>1 DEF OrbitalInv, DirInv
  <2>6. LastInv'
    BY <1>1, <2>1 DEF LastInv
  <2>7. EndInv'
    BY <1>1, <2>8 DEF EndInv
  <2> QED
    BY <2>4, <2>5, <2>6, <2>7 DEF OrbitalInv
<1>3. CASE ScfStep
  <2>1. /\ UNCHANGED <<job, phase, ions, start>>
        /\ \A p \in Procs : call[p] \in {"init", "check"} /\ call'[p] = "check" /\ pc'[p] \in {"out", Enter(p)}
    BY <1>1, <1>3 DEF ScfStep, AllAfter, CallWrite, control
  <2>2. ResetInv'
    BY <1>1, <2>1 DEF OrbitalInv, ResetInv
  <2>3. DirInv'
    BY <1>1, <2>1 DEF DirInv, Enter, WaveStage
  <2> QED
    BY <1>1, <2>1, <2>2, <2>3 DEF OrbitalInv, LastInv, EndInv
<1>4. CASE FinishQuench
  <2>1. /\ UNCHANGED job
        /\ \A p \in Procs : call'[p] = "quench" /\ pc'[p] = Enter(p)
    BY <1>4 DEF FinishQuench, CallWrite, control
  <2> QED
    BY <1>1, <2>1 DEF OrbitalInv, ResetInv, DirInv, LastInv, EndInv, Enter, WaveStage
<1>5. CASE Move \/ LastQuench
  <2>1. /\ UNCHANGED <<job, psi>> /\ start' = psi
        /\ \A p \in Procs : call'[p] = "init" /\ pc'[p] = Enter(p)
    BY <1>5 DEF Move, LastQuench, StartQuench, CallWrite, control
  <2>2. ResetInv'
    BY <2>1 DEF ResetInv, Enter
  <2>3. DirInv'
    BY <1>1, <2>1 DEF DirInv, Enter, WaveStage
  <2> QED
    BY <1>1, <2>1, <2>2, <2>3 DEF OrbitalInv, LastInv, EndInv
<1>6. CASE ExtrapolateOrbitals
  <2>1. /\ UNCHANGED <<job, pc, call, ions, start>> /\ phase = "loop" /\ phase' = "test"
        /\ \A p \in Procs : call[p] = "step"
    BY <1>6 DEF ExtrapolateOrbitals, AllAfter, control
  <2>2. \A p \in Procs : wave["out"][p].prev = [is |-> "full", psi |-> psi[p]]
    BY <1>1, <2>1 DEF OrbitalInv, LastInv, Resumed
  <2>4. \A p \in Procs : Extrapolated(p) = psi[p]
    <3> TAKE p \in Procs
    <3>1. wave["out"][p].prev = [is |-> "full", psi |-> psi[p]]
      BY <2>2, Zenon
    <3>2. wave["out"][p].prev.is = "full" /\ wave["out"][p].prev.psi = psi[p]
      BY <3>1
    <3> QED
      BY <3>2 DEF Extrapolated
  <2>3. psi' = psi
    BY <1>6, <2>4 DEF ExtrapolateOrbitals, TypeOK, ElectronType
  <2> QED
    BY <1>1, <2>1, <2>3 DEF OrbitalInv, ResetInv, DirInv, LastInv, EndInv, Resumed
<1>7. CASE End
  <2>1. /\ UNCHANGED <<pc, call, phase, ions, psi, start, halvings>> /\ job' = "over"
        /\ ~ Resumed /\ \A p \in Procs : call[p] = "step"
    BY <1>7 DEF End, AllAfter, Resumed, electrons
  <2> QED
    BY <1>1, <2>1 DEF OrbitalInv, ResetInv, DirInv, LastInv, EndInv, Resumed
<1> QED
  BY <1>2, <1>3, <1>4, <1>5, <1>6, <1>7

\* A crash, and what is done about it
LEMMA UserOrbitals ==
    ASSUME TypeOK, MixInv, FileInv, OrbitalInv, Crash \/ Rescue \/ Resume \/ StartOver \/ Ended
    PROVE  OrbitalInv'
<1> USE RootIsProc
<1>1. CASE Crash
  <2>1. /\ psi' = start' /\ job' = "crashed"
        /\ \A p \in Procs : call'[p] = "init" /\ pc'[p] = Enter(p)
    BY <1>1 DEF Crash, Begin, StartQuench, CallWrite
  <2>2. ResetInv'
    BY <2>1 DEF ResetInv, Enter
  <2>3. DirInv'
    BY <2>1 DEF DirInv, Enter, WaveStage
  <2> QED
    BY <2>1, <2>2, <2>3 DEF OrbitalInv, LastInv, EndInv
<1>2. CASE Rescue
  <2>1. /\ UNCHANGED <<job, pc, call, psi, start, dir, halvings>> /\ job = "crashed"
        /\ wave'["init"] = wave["init"]
    BY <1>2 DEF Rescue, control, electrons, TypeOK, FileType, Names
  <2>2. \A p \in Procs : call[p] = "init"
    BY <2>1 DEF FileInv, CrashInv, Parked
  <2> QED
    BY <2>1, <2>2 DEF OrbitalInv, ResetInv, DirInv, LastInv, EndInv
<1>3. CASE Resume /\ forceflag = "md"
  <2>1. /\ Resumed' /\ job' = "running"
        /\ \A p \in Procs : call'[p] = "step" /\ pc'[p] = "out"
    BY <1>3 DEF Resume, Begin, Resumed
  <2> QED
    BY <2>1 DEF OrbitalInv, ResetInv, DirInv, LastInv, EndInv, WaveStage
<1>4. CASE Resume /\ forceflag # "md"
  <2>1. /\ psi' = start' /\ job' = "running"
        /\ \A p \in Procs : call'[p] = "init" /\ pc'[p] = Enter(p)
    BY <1>4 DEF Resume, Begin, StartQuench, CallWrite
  <2>2. ResetInv'
    BY <2>1 DEF ResetInv, Enter
  <2>3. DirInv'
    BY <2>1 DEF DirInv, Enter, WaveStage
  <2> QED
    BY <2>1, <2>2, <2>3 DEF OrbitalInv, LastInv, EndInv
<1>5. CASE StartOver
  <2>1. UNCHANGED <<forceflag, pc, call, phase, ions, psi, start, halvings, dir, head, wave>>
        /\ job' = "running"
    BY <1>5 DEF StartOver, electrons, files
  <2> QED
    BY <2>1 DEF OrbitalInv, ResetInv, DirInv, LastInv, EndInv, Resumed
<1>6. CASE Ended
  BY <1>6 DEF Ended, vars, control, electrons, files, OrbitalInv, ResetInv, DirInv, LastInv, EndInv, Resumed
<1> QED
  BY <1>1, <1>2, <1>3, <1>4, <1>5, <1>6
-----------------------------------------------------------------------------
(* How far apart the positions and the orbitals of the files are           *)

\* What a restart would find of a wave file, as LastHead of the head file
LastWave(p) == IF AcceptsWave(wave["out"][p].cur) THEN wave["out"][p].cur ELSE wave["out"][p].prev

\* The steps by which orbitals may lag behind: a job of molecular dynamics that is
\* restarted moves before it calculates.
Gap == IF forceflag = "md" THEN IF phase = "first" THEN crashes ELSE 1 + crashes ELSE 1

\* The orbitals are those of the positions: in a call of WriteRestart for the output,
\* at the end of the SCF loop, and after it but for a job just restarted.
OfThisStep(p) ==
    \/ call[p] # "init" /\ pc[p] # "out"
    \/ call[p] = "check" /\ ~ AnotherScf
    \/ call[p] = "step" /\ ~ Resumed

StepInv == job # "crashed" => \A p \in Procs : OfThisStep(p) => psi[p].step = ions.step

\* Process 0 writes its head file anew before anyone does a wave file.
HeadStepInv ==
    job # "crashed" =>
        /\ HeadBusy => ~ AcceptsHead(head.cur)
        /\ \A p \in Procs :
               Name(p) = "out" /\ (pc[p] \in WaveStage \/ (p = root /\ pc[p] = "meet"))
                   => LastHead.step = ions.step

\* Before the first set of the output is complete the ions have not moved.
UnsavedInv ==
    ~ saved => /\ ions.step = 0 /\ head.cur.step = 0 /\ head.prev.step = 0
               /\ \A p \in Procs :
                      /\ psi[p].step = 0 /\ start[p].step = 0
                      /\ wave["out"][p].cur.psi.step = 0
                      /\ wave["out"][p].prev.psi.step = 0
                      /\ wave["init"][p].cur.psi.step = 0

\* A set is complete when the ions move.
WrittenInv ==
    \A p \in Procs :
        call[p] = "step" /\ pc[p] \notin {"open_wave", "write_wave"} =>
            AcceptsWave(wave["out"][p].cur)

GapInv ==
    saved => \A p \in Procs :
        /\ LastHead.step - LastWave(p).psi.step \in 0..Gap
        /\ job # "crashed" => ions.step - LastWave(p).psi.step \in 0..Gap

CloseInv == /\ StepInv /\ HeadStepInv /\ UnsavedInv /\ WrittenInv /\ GapInv
            /\ job = "crashed" => phase = "first"

LEMMA CloseStutter == CloseInv /\ UNCHANGED vars => CloseInv'
<1> SUFFICES ASSUME CloseInv, UNCHANGED vars PROVE CloseInv'
  OBVIOUS
<1> USE DEF vars, control, electrons, files
<1>1. StepInv'
  BY DEF CloseInv, StepInv, OfThisStep, AnotherScf, Resumed
<1>2. LastHead' = LastHead /\ Gap' = Gap /\ \A p \in Procs : LastWave(p)' = LastWave(p)
  BY DEF LastHead, LastWave, Gap
<1>3. HeadStepInv'
  BY <1>2 DEF CloseInv, HeadStepInv, HeadBusy, Name
<1>4. UnsavedInv' /\ WrittenInv' /\ GapInv'
  BY <1>2 DEF CloseInv, UnsavedInv, WrittenInv, GapInv
<1> QED
  BY <1>1, <1>3, <1>4 DEF CloseInv

LEMMA Steps ==
    ASSUME TypeOK
    PROVE  /\ LastHead \in HeadFile /\ LastHead.step \in Nat
           /\ \A p \in Procs : /\ LastWave(p) \in WaveFile /\ LastWave(p).psi.step \in Nat
                               /\ psi[p].step \in Nat
           /\ ions.step \in Nat /\ Gap \in Nat /\ crashes \in Nat
<1>1. head.cur \in HeadFile /\ head.prev \in HeadFile
  BY DEF TypeOK, FileType
<1>2. LastHead \in HeadFile
  BY <1>1 DEF LastHead
<1>3. \A p \in Procs : wave["out"][p].cur \in WaveFile /\ wave["out"][p].prev \in WaveFile
  BY DEF TypeOK, FileType, Names
<1>4. \A p \in Procs : LastWave(p) \in WaveFile
  BY <1>3 DEF LastWave
<1>5. \A p \in Procs : psi[p] \in Orbitals
  BY DEF TypeOK, ElectronType
<1>6. ions.step \in Nat
  BY DEF TypeOK, JobType
<1>7. crashes \in Nat
  BY RestartAssumption DEF TypeOK, JobType
<1>8. Gap \in Nat
  BY <1>7 DEF Gap
<1>9. \A p \in Procs : LastWave(p).psi.step \in Nat
  <2> TAKE p \in Procs
  <2>1. LastWave(p).psi \in Orbitals
    BY <1>4 DEF WaveFile
  <2> QED
    BY <2>1 DEF Orbitals
<1>10. \A p \in Procs : psi[p].step \in Nat
  BY <1>5 DEF Orbitals
<1> QED
  BY <1>2, <1>4, <1>6, <1>7, <1>8, <1>9, <1>10 DEF HeadFile

LEMMA InitCloseInv == Init => CloseInv
<1> SUFFICES ASSUME Init PROVE CloseInv
  OBVIOUS
<1> USE DEF Init
<1>1. StepInv
  BY DEF StepInv, OfThisStep
<1>2. HeadStepInv
  BY RootIsProc DEF HeadStepInv, HeadBusy, Name
<1>3. UnsavedInv
  BY RootIsProc DEF UnsavedInv, NoHead, NoWave, NewOrbitals, Names
<1>4. WrittenInv /\ GapInv
  BY Zenon DEF WrittenInv, GapInv
<1> QED
  BY <1>1, <1>2, <1>3, <1>4 DEF CloseInv

\* What the head file is when process 0 goes on
LEMMA HeadClose ==
    ASSUME TypeOK, FileInv, CloseInv, SaveHead \/ OpenHead \/ CloseHead \/ MeetInWrite
    PROVE  CloseInv'
<1> USE RootIsProc
<1>1. /\ job = "running" /\ job' = "running"
      /\ UNCHANGED <<wave, saved, call, ions, psi, start, forceflag, phase, crashes,
                     scf_converged, total_scf_steps>>
      /\ \A p \in Procs : pc[p] = "out" <=> pc'[p] = "out"
  <2>1. job = "running"
    BY DEF SaveHead, OpenHead, CloseHead, MeetInWrite, At
  <2>2. UNCHANGED <<control, call, phase, ions, electrons, wave, saved>>
    BY DEF SaveHead, OpenHead, CloseHead, MeetInWrite, files
  <2>3. \A p \in Procs : pc[p] = "out" <=> pc'[p] = "out"
    BY DEF SaveHead, OpenHead, CloseHead, MeetInWrite, At, Goto, TypeOK, WriteType
  <2> QED
    BY <2>1, <2>2, <2>3 DEF control, electrons
<1>2. \A p \in Procs : /\ OfThisStep(p)' <=> OfThisStep(p)
                       /\ LastWave(p)' = LastWave(p) /\ Name(p)' = Name(p)
  BY <1>1 DEF OfThisStep, AnotherScf, Resumed, LastWave, AcceptsWave, Name
<1>3. StepInv' /\ Gap' = Gap
  BY <1>1, <1>2 DEF CloseInv, StepInv, Gap
<1>4. WrittenInv'
  BY <1>1 DEF CloseInv, WrittenInv, AcceptsWave, SaveHead, OpenHead, CloseHead, MeetInWrite, At,
              Goto, TypeOK, WriteType
<1>5. HeadInv
  BY <1>1 DEF FileInv
<1>6. CASE MeetInWrite
  <2>1. /\ \A p \in Procs : pc[p] = "meet" /\ pc'[p] = "save_wave"
        /\ UNCHANGED head
    BY <1>6 DEF MeetInWrite, At, files
  <2>2. LastHead' = LastHead
    BY <2>1 DEF LastHead, AcceptsHead
  <2>3. \A p \in Procs : Name(p) = "out" => Name(root) = "out"
    BY DEF FileInv, Name
  <2>4. HeadStepInv'
    BY <1>1, <1>2, <2>1, <2>2, <2>3 DEF CloseInv, HeadStepInv, HeadBusy
  <2>5. UnsavedInv' /\ GapInv'
    BY <1>1, <1>2, <1>3, <2>1, <2>2 DEF CloseInv, UnsavedInv, GapInv
  <2> QED
    BY <1>1, <1>3, <1>4, <2>4, <2>5 DEF CloseInv
<1>7. CASE (SaveHead \/ OpenHead \/ CloseHead) /\ Name(root) = "init"
  <2>1. /\ UNCHANGED head
        /\ \A p \in Procs : pc'[p] \in WaveStage => pc[p] \in WaveStage
    BY <1>7 DEF SaveHead, OpenHead, CloseHead, SetHead, At, Goto, TypeOK, WriteType, WaveStage
  <2>2. LastHead' = LastHead
    BY <2>1 DEF LastHead, AcceptsHead
  <2>3. \A p \in Procs : Name(p) = "init"
    BY <1>7 DEF FileInv, Name
  <2>4. HeadStepInv'
    BY <1>2, <1>7, <2>3 DEF HeadStepInv, HeadBusy
  <2>5. UnsavedInv' /\ GapInv'
    BY <1>1, <1>2, <1>3, <2>1, <2>2 DEF CloseInv, UnsavedInv, GapInv
  <2> QED
    BY <1>1, <1>3, <1>4, <2>4, <2>5 DEF CloseInv
<1>8. CASE SaveHead /\ Name(root) # "init"
  <2>1. /\ pc[root] = "save_head" /\ pc'[root] = "open_head"
        /\ \A p \in Procs \ {root} : pc'[p] = pc[p]
        /\ Name(root) = "out" /\ head' = Renamed(head, NoHead, TRUE)
    BY <1>8 DEF SaveHead, SetHead, At, Goto, TypeOK, WriteType, Name
  <2>2. HeadWritten => AcceptsHead(head.cur)
    BY <2>1, <1>5 DEF HeadInv, HeadBusy
  <2>3. AcceptsHead(head.cur) => head' = [cur |-> NoHead, prev |-> head.cur]
    BY <2>1 DEF Renamed, AcceptsHead
  <2>4. HeadWritten => LastHead' = LastHead
    BY <2>2, <2>3 DEF LastHead, AcceptsHead, NoHead
  <2>5. ~ AcceptsHead(head'.cur)
    BY <2>1 DEF Renamed, AcceptsHead, NoHead
  <2>6. HeadStepInv'
    <3>1. ASSUME NEW p \in Procs, Name(p) = "out", pc'[p] \in WaveStage \/ (p = root /\ pc'[p] = "meet")
          PROVE  LastHead'.step = ions'.step
      <4>1. p # root /\ pc[p] \in WaveStage
        BY <2>1, <3>1 DEF WaveStage
      <4>2. LastHead.step = ions.step /\ HeadWritten
        BY <1>1, <3>1, <4>1 DEF CloseInv, HeadStepInv, HeadWritten
      <4> QED
        BY <1>1, <2>4, <4>2
    <3> QED
      BY <1>2, <2>5, <3>1 DEF HeadStepInv
  <2>7. UnsavedInv'
    <3>1. head.cur.step = 0 /\ head.prev.step = 0 => head'.cur.step = 0 /\ head'.prev.step = 0
      BY <2>1 DEF Renamed, NoHead
    <3> QED
      BY <1>1, <3>1 DEF CloseInv, UnsavedInv
  <2>8. GapInv'
    BY <1>1, <1>2, <1>3, <2>4 DEF CloseInv, GapInv, HeadWritten
  <2> QED
    BY <1>1, <1>3, <1>4, <2>6, <2>7, <2>8 DEF CloseInv
<1>9. CASE OpenHead /\ Name(root) # "init"
  <2>1. /\ pc[root] = "open_head" /\ pc'[root] = "close_head"
        /\ \A p \in Procs \ {root} : pc'[p] = pc[p]
        /\ Name(root) = "out"
        /\ head' = [head EXCEPT !.cur = [NoHead EXCEPT !.is = "empty"]]
    BY <1>9 DEF OpenHead, SetHead, At, Goto, TypeOK, WriteType, Name
  <2>2. ~ AcceptsHead(head.cur)
    BY <1>1, <2>1 DEF CloseInv, HeadStepInv, HeadBusy
  <2>3. /\ head'.cur = [is |-> "empty", step |-> 0, vel |-> "full"] /\ head'.prev = head.prev
    BY <2>1 DEF TypeOK, FileType, NoHead
  <2>4. ~ AcceptsHead(head'.cur) /\ LastHead' = LastHead
    BY <2>2, <2>3 DEF LastHead, AcceptsHead
  <2>5. HeadStepInv'
    BY <1>1, <1>2, <2>1, <2>4 DEF CloseInv, HeadStepInv, WaveStage
  <2>6. UnsavedInv'
    BY <1>1, <2>3 DEF CloseInv, UnsavedInv
  <2>7. GapInv'
    BY <1>1, <1>2, <1>3, <2>4 DEF CloseInv, GapInv
  <2> QED
    BY <1>1, <1>3, <1>4, <2>5, <2>6, <2>7 DEF CloseInv
<1>10. CASE CloseHead /\ Name(root) # "init"
  <2>1. /\ pc'[root] = "meet"
        /\ Name(root) = "out"
        /\ head' = [head EXCEPT !.cur = [is |-> "full", step |-> ions.step, vel |-> ions.vel]]
    BY <1>10 DEF CloseHead, SetHead, At, Goto, TypeOK, WriteType, Name
  <2>2. /\ head'.cur = [is |-> "full", step |-> ions.step, vel |-> ions.vel] /\ head'.prev = head.prev
    BY <2>1 DEF TypeOK, FileType
  <2>3. LastHead'.step = ions.step
    BY <2>2 DEF LastHead, AcceptsHead
  <2>4. HeadStepInv'
    BY <1>1, <2>1, <2>3 DEF HeadStepInv, HeadBusy
  <2>5. UnsavedInv'
    BY <1>1, <2>2 DEF CloseInv, UnsavedInv
  <2>6. GapInv'
    BY <1>1, <1>2, <1>3, <2>3 DEF CloseInv, GapInv
  <2> QED
    BY <1>1, <1>3, <1>4, <2>4, <2>5, <2>6 DEF CloseInv
<1> QED
  BY <1>6, <1>7, <1>8, <1>9, <1>10 DEF Name

LEMMA WaveClose ==
    ASSUME TypeOK, FileInv, OrbitalInv, CloseInv, NEW p \in Procs,
           SaveWave(p) \/ OpenWave(p) \/ WriteWave(p)
    PROVE  CloseInv'
<1> USE RootIsProc
<1>1. /\ job = "running" /\ pc[p] \in WaveStage
      /\ UNCHANGED <<head, dir, psi, start, forceflag, phase, crashes, scf_converged, total_scf_steps>>
  BY DEF SaveWave, OpenWave, WriteWave, At, WaveStage, control, electrons
<1>2. dir
  BY <1>1 DEF OrbitalInv, DirInv
<1>3. job' = "running"
  BY <1>1, <1>2 DEF SaveWave, OpenWave, WriteWave, control
<1>4. \A q \in Procs \ {p} : pc'[q] = pc[q] /\ call'[q] = call[q]
  BY <1>1, <1>2 DEF SaveWave, OpenWave, WriteWave, NextCall, Goto, TypeOK, WriteType
<1>5. \A q \in Procs \ {p} : /\ wave'["out"][q] = wave["out"][q]
                             /\ wave'["init"][q] = wave["init"][q]
  BY DEF SaveWave, OpenWave, WriteWave, TypeOK, FileType, Names
<1>6. ions'.step = ions.step
  BY DEF SaveWave, OpenWave, WriteWave, NextCall, TypeOK, JobType
<1>7. LastHead' = LastHead /\ Gap' = Gap
  BY <1>1 DEF LastHead, Gap
<1>8. \/ call'[p] = call[p] /\ pc'[p] \in WaveStage /\ ~ WriteWave(p)
      \/ call'[p] = call[p] /\ pc'[p] = "out" /\ WriteWave(p) /\ call[p] # "quench"
      \/ call'[p] = "step" /\ pc'[p] = Enter(p) /\ WriteWave(p) /\ call[p] = "quench"
  <2>1. CASE SaveWave(p)
    <3>1. call' = call /\ pc'[p] = "open_wave" /\ pc[p] = "save_wave"
      BY <2>1 DEF SaveWave, At, Goto, TypeOK, WriteType
    <3> QED
      BY <3>1 DEF WriteWave, At, WaveStage
  <2>2. CASE OpenWave(p)
    <3>1. call' = call /\ pc'[p] = "write_wave" /\ pc[p] = "open_wave"
      BY <1>2, <2>2 DEF OpenWave, At, Goto, TypeOK, WriteType
    <3> QED
      BY <3>1 DEF WriteWave, At, WaveStage
  <2>3. CASE WriteWave(p)
    BY <2>3 DEF WriteWave, NextCall, Goto, TypeOK, WriteType
  <2> QED
    BY <2>1, <2>2, <2>3
<1>9. StepInv'
  <2> SUFFICES ASSUME NEW q \in Procs, OfThisStep(q)' PROVE psi'[q].step = ions'.step
    BY DEF StepInv
  <2>1. OfThisStep(q)
    <3>1. CASE q # p
      BY <1>1, <1>4, <3>1 DEF OfThisStep, AnotherScf, Resumed
    <3>2. CASE q = p
      <4>1. call[p] # "init"
        BY <1>8, <3>2 DEF OfThisStep
      <4> QED
        BY <1>1, <3>2, <4>1 DEF OfThisStep, WaveStage
    <3> QED
      BY <3>1, <3>2
  <2> QED
    BY <1>1, <1>6, <2>1 DEF CloseInv, StepInv
<1>10. HeadStepInv'
  <2>1. HeadBusy' => HeadBusy
    BY <1>4, <1>8 DEF HeadBusy, Name, Enter, WaveStage
  <2>2. ASSUME NEW q \in Procs, Name(q)' = "out", pc'[q] \in WaveStage \/ (q = root /\ pc'[q] = "meet")
        PROVE  Name(q) = "out" /\ (pc[q] \in WaveStage \/ (q = root /\ pc[q] = "meet"))
    BY <1>1, <1>4, <1>8, <2>2 DEF Name, Enter, WaveStage
  <2> QED
    BY <1>1, <1>6, <1>7, <2>1, <2>2 DEF CloseInv, HeadStepInv
<1>11. call[p] # "init" => psi[p].step = ions.step /\ LastHead.step = ions.step
  BY <1>1 DEF CloseInv, StepInv, OfThisStep, HeadStepInv, Name, WaveStage
<1>12. WaveInv /\ ((\A q \in Procs : AcceptsWave(wave["out"][q].cur)) => saved)
  BY <1>1 DEF FileInv
<1>13. \A q \in Procs \ {p} : LastWave(q)' = LastWave(q)
  BY <1>5 DEF LastWave
<1>14. CASE Name(p) = "init"
  <2>1. wave'["out"] = wave["out"]
    BY <1>14 DEF SaveWave, OpenWave, WriteWave, TypeOK, FileType, Names
  <2>2. saved' <=> saved
    <3>1. (\A q \in Procs : wave'["out"][q].cur.is = "full") => saved
      BY <1>12, <2>1 DEF AcceptsWave
    <3>2. \/ saved' = saved
          \/ saved' = (saved \/ \A q \in Procs : wave'["out"][q].cur.is = "full")
      BY DEF SaveWave, OpenWave, WriteWave
    <3>3. CASE saved' = (saved \/ \A q \in Procs : wave'["out"][q].cur.is = "full")
      BY <3>1, <3>3
    <3> QED
      BY <3>2, <3>3
  <2>3. \A q \in Procs : LastWave(q)' = LastWave(q)
    BY <2>1 DEF LastWave
  <2>4. GapInv'
    BY <1>1, <1>3, <1>6, <1>7, <2>2, <2>3 DEF CloseInv, GapInv
  <2>5. call[p] = "init"
    BY <1>14 DEF Name
  <2>6. WrittenInv'
    BY <1>4, <1>8, <2>1, <2>5 DEF CloseInv, WrittenInv
  <2>7. psi[p].step = 0 /\ wave["init"][p].cur.psi.step = 0 => wave'["init"][p].cur.psi.step = 0
    <3>1. CASE SaveWave(p)
      <4>1. wave'["init"][p] = Renamed(wave["init"][p], NoWave, FALSE)
        BY <1>14, <3>1 DEF SaveWave, TypeOK, FileType, Names
      <4> QED
        BY <4>1 DEF Renamed, NoWave, NewOrbitals
    <3>2. CASE OpenWave(p)
      <4>1. wave'["init"][p].cur = [NoWave EXCEPT !.is = "empty"]
        BY <1>2, <1>14, <3>2 DEF OpenWave, TypeOK, FileType, Names
      <4> QED
        BY <4>1 DEF NoWave, NewOrbitals
    <3>3. CASE WriteWave(p)
      <4>1. wave'["init"][p].cur = [is |-> "full", psi |-> psi[p]]
        BY <1>14, <3>3 DEF WriteWave, TypeOK, FileType, Names
      <4> QED
        BY <4>1
    <3> QED
      BY <3>1, <3>2, <3>3
  <2>8. UnsavedInv'
    BY <1>1, <1>5, <1>6, <2>1, <2>2, <2>7 DEF CloseInv, UnsavedInv
  <2> QED
    BY <1>3, <1>9, <1>10, <2>4, <2>6, <2>8 DEF CloseInv
<1>15. CASE Name(p) = "out"
  <2>1. wave'["init"] = wave["init"] /\ call[p] # "init"
    BY <1>15 DEF SaveWave, OpenWave, WriteWave, TypeOK, FileType, Names, Name
  <2>2. \/ /\ ~ WriteWave(p) /\ saved' = saved /\ (saved => LastWave(p)' = LastWave(p))
           /\ pc'[p] \in {"open_wave", "write_wave"}
           /\ UnsavedInv => saved \/ (wave'["out"][p].cur.psi.step = 0 /\ wave'["out"][p].prev.psi.step = 0)
        \/ /\ WriteWave(p) /\ saved' = (saved \/ \A q \in Procs : wave'["out"][q].cur.is = "full")
           /\ wave'["out"][p].cur = [is |-> "full", psi |-> psi[p]]
           /\ wave'["out"][p].prev = wave["out"][p].prev
    <3>1. CASE SaveWave(p)
      <4>1. wave'["out"][p] = Renamed(wave["out"][p], NoWave, TRUE)
        BY <1>15, <3>1 DEF SaveWave, TypeOK, FileType, Names
      <4>2. saved' = saved /\ pc'[p] = "open_wave" /\ pc[p] = "save_wave"
        BY <3>1 DEF SaveWave, At, Goto, TypeOK, WriteType
      <4>3. saved => AcceptsWave(wave["out"][p].cur)
        BY <1>12, <4>2 DEF WaveInv, WaveBusy
      <4>4. saved => LastWave(p)' = LastWave(p)
        BY <4>1, <4>3 DEF Renamed, LastWave, AcceptsWave, NoWave
      <4>5. UnsavedInv => saved \/ (wave'["out"][p].cur.psi.step = 0 /\ wave'["out"][p].prev.psi.step = 0)
        BY <4>1 DEF UnsavedInv, Renamed, NoWave, NewOrbitals
      <4>6. ~ WriteWave(p)
        BY <4>2 DEF WriteWave, At
      <4> QED
        BY <4>2, <4>4, <4>5, <4>6
    <3>2. CASE OpenWave(p)
      <4>1. /\ wave'["out"][p].cur = [NoWave EXCEPT !.is = "empty"]
            /\ wave'["out"][p].prev = wave["out"][p].prev
        <5> DEFINE opened == [wave["out"][p] EXCEPT !.cur = [NoWave EXCEPT !.is = "empty"]]
        <5>1. opened.prev = wave["out"][p].prev /\ opened.cur = [NoWave EXCEPT !.is = "empty"]
          BY DEF TypeOK, FileType, Names
        <5>2. wave' = [wave EXCEPT !["out"] = [@ EXCEPT ![p] = opened]]
          BY <1>2, <1>15, <3>2 DEF OpenWave
        <5> HIDE DEF opened
        <5> QED
          BY <5>1, <5>2 DEF TypeOK, FileType, Names
      <4>2. saved' = saved /\ pc'[p] = "write_wave" /\ pc[p] = "open_wave"
        BY <1>2, <3>2 DEF OpenWave, At, Goto, TypeOK, WriteType
      <4>3. ~ AcceptsWave(wave["out"][p].cur)
        BY <1>12, <1>15, <4>2 DEF WaveInv, WaveBusy, AcceptsWave
      <4>4. wave'["out"][p].cur.is = "empty" /\ wave'["out"][p].cur.psi.step = 0
        BY <4>1 DEF NoWave, NewOrbitals
      <4>5. LastWave(p)' = LastWave(p)
        BY <4>1, <4>3, <4>4 DEF LastWave, AcceptsWave
      <4>6. ~ WriteWave(p)
        BY <4>2 DEF WriteWave, At
      <4> QED
        BY <4>1, <4>2, <4>4, <4>5, <4>6 DEF UnsavedInv
    <3>3. CASE WriteWave(p)
      BY <1>15, <3>3 DEF WriteWave, TypeOK, FileType, Names, WaveFile
    <3> QED
      BY <3>1, <3>2, <3>3
  <2>3. WriteWave(p) => LastWave(p)'.psi = psi[p] /\ AcceptsWave(wave'["out"][p].cur)
    BY <2>2 DEF LastWave, AcceptsWave
  <2>4. WrittenInv'
    BY <1>4, <1>5, <2>2, <2>3 DEF CloseInv, WrittenInv
  <2>5. UnsavedInv'
    <3> SUFFICES ASSUME ~ saved'
                 PROVE  /\ ions'.step = 0 /\ head'.cur.step = 0 /\ head'.prev.step = 0
                        /\ \A q \in Procs :
                             /\ psi'[q].step = 0 /\ start'[q].step = 0
                             /\ wave'["out"][q].cur.psi.step = 0
                             /\ wave'["out"][q].prev.psi.step = 0
                             /\ wave'["init"][q].cur.psi.step = 0
      BY DEF UnsavedInv
    <3>1. ~ saved
      BY <2>2
    <3>2. wave'["out"][p].cur.psi.step = 0 /\ wave'["out"][p].prev.psi.step = 0
      BY <2>2, <3>1 DEF CloseInv, UnsavedInv
    <3> QED
      BY <1>1, <1>5, <1>6, <2>1, <3>1, <3>2 DEF CloseInv, UnsavedInv
  <2>6. GapInv'
    <3> SUFFICES ASSUME saved', NEW q \in Procs
                 PROVE  /\ LastHead.step - LastWave(q)'.psi.step \in 0..Gap
                        /\ ions.step - LastWave(q)'.psi.step \in 0..Gap
      BY <1>6, <1>7 DEF GapInv
    <3>1. /\ LastHead.step = ions.step /\ psi[p].step = ions.step
          /\ ions.step \in Nat /\ Gap \in Nat
      BY <1>11, <2>1, Steps
    <3>2. CASE q = p /\ WriteWave(p)
      <4>1. LastWave(q)'.psi.step = ions.step
        BY <2>3, <3>1, <3>2
      <4> QED
        BY <3>1, <4>1
    <3>3. CASE q # p \/ ~ WriteWave(p)
      <4>1. CASE saved
        <5>1. LastWave(q)' = LastWave(q)
          BY <1>13, <2>2, <3>3, <4>1
        <5> QED
          BY <1>1, <4>1, <5>1 DEF CloseInv, GapInv
      <4>2. CASE ~ saved
        <5>1. q # p
          BY <2>2, <3>3, <4>2
        <5>2. LastWave(q)'.psi.step = 0 /\ ions.step = 0
          BY <1>13, <4>2, <5>1 DEF CloseInv, UnsavedInv, LastWave
        <5> QED
          BY <3>1, <5>2
      <4> QED
        BY <4>1, <4>2
    <3> QED
      BY <3>2, <3>3
  <2> QED
    BY <1>3, <1>9, <1>10, <2>4, <2>5, <2>6 DEF CloseInv
<1> QED
  BY <1>14, <1>15 DEF Name

\* Quench and its callers: the ions move from a set that is complete.
LEMMA LoopClose ==
    ASSUME TypeOK, FileInv, OrbitalInv, CloseInv,
           LowerMix \/ ScfStep \/ FinishQuench \/ Move \/ ExtrapolateOrbitals \/ LastQuench \/ End
    PROVE  CloseInv'
<1> USE RootIsProc
<1>1. /\ job = "running" /\ job' # "crashed" /\ UNCHANGED <<wave, head, saved, forceflag, crashes>>
      /\ \A p \in Procs : pc[p] = "out"
  <2>1. job = "running" /\ \A p \in Procs : pc[p] = "out"
    BY DEF LowerMix, ScfStep, FinishQuench, Move, ExtrapolateOrbitals, LastQuench, End, AllAfter, At
  <2>2. UNCHANGED <<wave, head, saved, forceflag, crashes>>
    BY DEF LowerMix, ScfStep, FinishQuench, Move, ExtrapolateOrbitals, LastQuench, End, control, files
  <2>3. job' # "crashed"
    BY <2>1 DEF LowerMix, ScfStep, FinishQuench, Move, ExtrapolateOrbitals, LastQuench, End, control
  <2> QED
    BY <2>1, <2>2, <2>3
<1>2. LastHead' = LastHead /\ \A p \in Procs : LastWave(p)' = LastWave(p)
  BY <1>1 DEF LastHead, LastWave
<1>3. /\ LastHead.step \in Nat /\ ions.step \in Nat /\ Gap \in Nat /\ crashes \in Nat
      /\ \A p \in Procs : LastWave(p).psi.step \in Nat
  BY Steps
<1>4. \A p \in Procs : pc'[p] \in {"out", Enter(p)}
  <2>1. CASE LowerMix \/ ExtrapolateOrbitals \/ End
    BY <1>1, <2>1 DEF LowerMix, ExtrapolateOrbitals, End
  <2>2. CASE ScfStep
    BY <1>1, <2>2 DEF ScfStep, CallWrite
  <2>3. CASE FinishQuench
    BY <2>3 DEF FinishQuench, CallWrite
  <2>4. CASE Move \/ LastQuench
    BY <2>4 DEF Move, LastQuench, StartQuench, CallWrite
  <2> QED
    BY <2>1, <2>2, <2>3, <2>4
<1>5. HeadBusy' = FALSE /\ \A p \in Procs : pc'[p] \notin WaveStage /\ ~ (p = root /\ pc'[p] = "meet")
  BY <1>4 DEF HeadBusy, Enter, WaveStage
<1>6. HeadStepInv'
  BY <1>5 DEF HeadStepInv
<1>7. \A p \in Procs : call[p] = "step" => AcceptsWave(wave["out"][p].cur)
  BY <1>1 DEF CloseInv, WrittenInv
<1>8. \A p \in Procs : call'[p] = "step" => call[p] = "step"
  BY DEF LowerMix, ScfStep, FinishQuench, Move, ExtrapolateOrbitals, LastQuench, End, StartQuench, CallWrite
<1>9. WrittenInv'
  BY <1>1, <1>7, <1>8 DEF WrittenInv, AcceptsWave
<1>10. CASE LowerMix
  <2>1. UNCHANGED <<pc, call, phase, ions, start, scf_converged, total_scf_steps>> /\ AnotherScf
    BY <1>10 DEF LowerMix
  <2>2. \A p \in Procs : call[p] \in {"init", "check"} /\ pc'[p] = "out"
    BY <1>1, <1>10, <2>1 DEF LowerMix, AllAfter
  <2>3. AnotherScf' /\ Gap' = Gap
    BY <1>1, <2>1 DEF AnotherScf, Gap
  <2>4. StepInv'
    BY <2>1, <2>2, <2>3 DEF StepInv, OfThisStep
  <2>5. \/ psi' = psi
        \/ psi' = [p \in Procs |-> wave["init"][p].cur.psi]
    BY <1>10 DEF LowerMix, InitFiles
  <2>6. UnsavedInv'
    BY <1>1, <2>1, <2>5 DEF CloseInv, UnsavedInv
  <2>7. GapInv'
    BY <1>1, <1>2, <2>1, <2>3 DEF CloseInv, GapInv
  <2> QED
    BY <1>1, <1>6, <1>9, <2>4, <2>6, <2>7 DEF CloseInv
<1>11. CASE ScfStep
  <2>1. /\ UNCHANGED <<phase, ions, start>>
        /\ psi' = [p \in Procs |-> [step |-> ions.step, scf |-> total_scf_steps + 1, ahead |-> FALSE]]
    BY <1>11 DEF ScfStep
  <2>2. \A p \in Procs : psi'[p].step = ions.step
    BY <2>1
  <2>3. StepInv' /\ Gap' = Gap
    BY <1>1, <2>1, <2>2 DEF StepInv, Gap
  <2>4. UnsavedInv'
    BY <1>1, <2>1, <2>2 DEF CloseInv, UnsavedInv
  <2>5. GapInv'
    BY <1>1, <1>2, <2>1, <2>3 DEF CloseInv, GapInv
  <2> QED
    BY <1>1, <1>6, <1>9, <2>3, <2>4, <2>5 DEF CloseInv
<1>12. CASE FinishQuench
  <2>1. /\ UNCHANGED <<phase, ions, start, psi>>
        /\ \A p \in Procs : call[p] = "check" /\ ~ AnotherScf
    BY <1>12 DEF FinishQuench, AllAfter, electrons
  <2>2. \A p \in Procs : psi[p].step = ions.step
    BY <1>1, <2>1 DEF CloseInv, StepInv, OfThisStep
  <2>3. StepInv' /\ Gap' = Gap
    BY <1>1, <2>1, <2>2 DEF StepInv, Gap
  <2>4. UnsavedInv'
    BY <1>1, <2>1 DEF CloseInv, UnsavedInv
  <2>5. GapInv'
    BY <1>1, <1>2, <2>1, <2>3 DEF CloseInv, GapInv
  <2> QED
    BY <1>1, <1>6, <1>9, <2>3, <2>4, <2>5 DEF CloseInv
<1>13. CASE Move
  <2>1. /\ phase \in {"first", "test"} /\ phase' = "loop" /\ ions'.step = ions.step + 1
        /\ UNCHANGED psi
        /\ \A p \in Procs : call[p] = "step" /\ call'[p] = "init"
    BY <1>13 DEF Move, AllAfter, StartQuench, CallWrite
  <2>2. StepInv'
    BY <2>1 DEF StepInv, OfThisStep
  <2>3. saved
    BY <1>1, <1>7, <2>1 DEF FileInv
  <2>4. saved'
    BY <1>1, <2>3
  <2>5. Gap' = IF forceflag = "md" THEN 1 + crashes ELSE 1
    BY <1>1, <2>1 DEF Gap
  <2>6. ASSUME NEW p \in Procs PROVE ions.step - LastWave(p).psi.step \in 0..(Gap' - 1)
    <3>1. CASE Resumed
      <4>1. ions.step - LastWave(p).psi.step \in 0..Gap
        BY <1>1, <2>3 DEF CloseInv, GapInv
      <4>2. Gap = crashes /\ Gap' = 1 + crashes
        BY <2>5, <3>1 DEF Gap, Resumed
      <4> QED
        BY <1>3, <4>1, <4>2
    <3>2. CASE ~ Resumed
      <4>1. wave["out"][p].cur = [is |-> "full", psi |-> psi[p]]
        BY <1>1, <2>1, <3>2 DEF OrbitalInv, LastInv
      <4>2. LastWave(p).psi = psi[p]
        BY <4>1 DEF LastWave, AcceptsWave
      <4>3. psi[p].step = ions.step
        BY <1>1, <2>1, <3>2 DEF CloseInv, StepInv, OfThisStep
      <4> QED
        BY <1>3, <2>5, <4>2, <4>3
    <3> QED
      BY <3>1, <3>2
  <2>7. ASSUME NEW p \in Procs
        PROVE  /\ LastHead'.step - LastWave(p)'.psi.step \in 0..Gap'
               /\ ions'.step - LastWave(p)'.psi.step \in 0..Gap'
    <3>1. PICK i \in Nat, l \in Nat, h \in Nat, g \in Nat :
              i = ions.step /\ l = LastWave(p).psi.step /\ h = LastHead.step /\ g = Gap'
      <4>1. Gap' \in Nat
        BY <1>3, <2>5
      <4> QED
        BY <1>3, <4>1
    <3>2. h - l \in 0..Gap
      BY <2>3, <3>1 DEF CloseInv, GapInv
    <3>3. g = IF forceflag = "md" THEN 1 + crashes ELSE 1
      BY <2>5, <3>1
    <3>4. Gap =< g /\ Gap \in Nat
      BY <1>3, <3>3 DEF Gap
    <3>5. i - l \in 0..(g - 1)
      BY <2>6, <3>1
    <3>6. ions'.step = i + 1 /\ LastWave(p)'.psi.step = l /\ LastHead'.step = h
      BY <1>2, <2>1, <3>1
    <3>7. h - l \in 0..g /\ i + 1 - l \in 0..g
      BY <3>2, <3>4, <3>5
    <3>8. LastHead'.step - LastWave(p)'.psi.step = h - l
      BY <3>6
    <3>9. ions'.step - LastWave(p)'.psi.step = i + 1 - l
      BY <3>6
    <3> QED
      BY <3>1, <3>7, <3>8, <3>9
  <2>8. UnsavedInv' /\ GapInv'
    BY <2>4, <2>7 DEF UnsavedInv, GapInv
  <2> QED
    BY <1>1, <1>6, <1>9, <2>2, <2>8 DEF CloseInv
<1>14. CASE ExtrapolateOrbitals
  <2>1. /\ UNCHANGED <<pc, call, ions, start>> /\ phase = "loop" /\ phase' = "test"
        /\ \A p \in Procs : call[p] = "step"
        /\ psi' = [p \in Procs |-> Extrapolated(p)]
    BY <1>14 DEF ExtrapolateOrbitals, AllAfter
  <2>2. \A p \in Procs : psi'[p].step = psi[p].step
    <3> TAKE p \in Procs
    <3>1. psi[p] \in Orbitals
      BY DEF TypeOK, ElectronType
    <3>2. Extrapolated(p).step = psi[p].step
      BY <3>1 DEF Extrapolated, Orbitals
    <3> QED
      BY <2>1, <3>2
  <2>3. ~ Resumed /\ ~ Resumed' /\ Gap' = Gap
    BY <1>1, <2>1 DEF Resumed, Gap
  <2>4. StepInv'
    BY <1>1, <2>1, <2>2, <2>3 DEF CloseInv, StepInv, OfThisStep
  <2>5. UnsavedInv'
    BY <1>1, <2>1, <2>2 DEF CloseInv, UnsavedInv
  <2>6. GapInv'
    BY <1>1, <1>2, <2>1, <2>3 DEF CloseInv, GapInv
  <2> QED
    BY <1>1, <1>6, <1>9, <2>4, <2>5, <2>6 DEF CloseInv
<1>15. CASE LastQuench
  <2>1. /\ phase' = "last" /\ UNCHANGED <<ions, psi>> /\ start' = psi
        /\ \A p \in Procs : call'[p] = "init" /\ pc'[p] = Enter(p)
    BY <1>15 DEF LastQuench, StartQuench, CallWrite
  <2>2. StepInv'
    BY <2>1 DEF StepInv, OfThisStep
  <2>3. UnsavedInv'
    BY <1>1, <2>1 DEF CloseInv, UnsavedInv
  <2>4. GapInv'
    <3>1. Gap =< Gap' /\ Gap' \in Nat
      BY <1>1, <1>3, <2>1 DEF Gap
    <3> QED
      BY <1>1, <1>2, <1>3, <2>1, <3>1 DEF CloseInv, GapInv
  <2> QED
    BY <1>1, <1>6, <1>9, <2>2, <2>3, <2>4 DEF CloseInv
<1>16. CASE End
  <2>1. UNCHANGED <<pc, call, phase, ions, psi, start, scf_converged, total_scf_steps>>
    BY <1>16 DEF End, electrons
  <2>2. StepInv' /\ Gap' = Gap
    BY <1>1, <2>1 DEF CloseInv, StepInv, OfThisStep, AnotherScf, Resumed, Gap
  <2>3. UnsavedInv'
    BY <1>1, <2>1 DEF CloseInv, UnsavedInv
  <2>4. GapInv'
    BY <1>1, <1>2, <2>1, <2>2 DEF CloseInv, GapInv
  <2> QED
    BY <1>1, <1>6, <1>9, <2>2, <2>3, <2>4 DEF CloseInv
<1> QED
  BY <1>10, <1>11, <1>12, <1>13, <1>14, <1>15, <1>16

\* A crash counts, and makes the job begin with its first phase.
LEMMA UserClose ==
    ASSUME TypeOK, FileInv, OrbitalInv, CloseInv, Crash \/ Rescue \/ Resume \/ StartOver \/ Ended
    PROVE  CloseInv'
<1> USE RootIsProc
<1>1. /\ LastHead.step \in Nat /\ ions.step \in Nat /\ Gap \in Nat /\ crashes \in Nat
      /\ \A p \in Procs : LastWave(p).psi.step \in Nat
  BY Steps
<1>2. (\A p \in Procs : AcceptsWave(wave["out"][p].cur)) => saved
  BY DEF FileInv
<1>3. CASE Crash
  <2>1. /\ job = "running" /\ job' = "crashed" /\ crashes' = crashes + 1 /\ phase' = "first"
        /\ UNCHANGED <<forceflag, wave, saved>>
        /\ ions'.step = 0
        /\ psi' = [p \in Procs |-> NewOrbitals] /\ start' = psi'
        /\ \A p \in Procs : call'[p] = "init"
    BY <1>3 DEF Crash, Begin, StartQuench, CallWrite
  <2>2. \/ head' = head
        \/ head'.cur.step = ions.step /\ AcceptsHead(head'.cur) /\ head'.prev = head.prev
    <3>1. CASE UNCHANGED head
      BY <3>1
    <3>2. CASE SetHead([head EXCEPT !.cur = [is |-> "atoms", step |-> ions.step, vel |-> "off"]])
      <4>1. CASE head' = head
        BY <4>1
      <4>2. CASE head' = [head EXCEPT !.cur = [is |-> "atoms", step |-> ions.step, vel |-> "off"]]
        <5>1. /\ head'.cur = [is |-> "atoms", step |-> ions.step, vel |-> "off"]
              /\ head'.prev = head.prev
          BY <4>2 DEF TypeOK, FileType
        <5> QED
          BY <5>1 DEF AcceptsHead
      <4> QED
        BY <3>2, <4>1, <4>2 DEF SetHead
    <3> QED
      BY <1>3, <3>1, <3>2 DEF Crash
  <2>3. LastHead'.step \in {LastHead.step, ions.step}
    BY <2>2 DEF LastHead
  <2>4. \A p \in Procs : LastWave(p)' = LastWave(p)
    BY <2>1 DEF LastWave
  <2>5. Gap =< Gap' /\ Gap' \in Nat
    <3>1. Gap' = IF forceflag = "md" THEN 1 + crashes ELSE 1
      BY <1>1, <2>1 DEF Gap
    <3> QED
      BY <1>1, <3>1 DEF Gap
  <2>6. GapInv'
    <3> SUFFICES ASSUME saved, NEW p \in Procs
                 PROVE  LastHead'.step - LastWave(p).psi.step \in 0..Gap'
      BY <2>1, <2>4 DEF GapInv
    <3>1. /\ LastHead.step - LastWave(p).psi.step \in 0..Gap
          /\ ions.step - LastWave(p).psi.step \in 0..Gap
      BY <2>1 DEF CloseInv, GapInv
    <3>2. LastHead'.step - LastWave(p).psi.step \in 0..Gap
      BY <2>3, <3>1
    <3> QED
      BY <1>1, <2>5, <3>2
  <2>7. UnsavedInv'
    <3>1. \A p \in Procs : psi'[p].step = 0 /\ start'[p].step = 0
      BY <2>1 DEF NewOrbitals
    <3>2. UnsavedInv /\ ~ saved => head'.cur.step = 0 /\ head'.prev.step = 0
      BY <2>2 DEF UnsavedInv
    <3> QED
      BY <2>1, <3>1, <3>2 DEF CloseInv, UnsavedInv
  <2>8. StepInv' /\ HeadStepInv' /\ WrittenInv'
    BY <2>1 DEF StepInv, HeadStepInv, WrittenInv
  <2> QED
    BY <2>1, <2>6, <2>7, <2>8 DEF CloseInv
<1>4. CASE Rescue
  <2>1. /\ job = "crashed" /\ saved
        /\ UNCHANGED <<job, pc, call, phase, forceflag, crashes, saved>>
        /\ head' = Kept(head, AcceptsHead(head.cur), NoHead)
        /\ wave' = [wave EXCEPT !["out"] = [p \in Procs |->
               Kept(@[p], AcceptsWave(@[p].cur), NoWave)]]
    BY <1>4 DEF Rescue, control
  <2>2. CrashInv
    BY <2>1 DEF FileInv
  <2>3. LastHead' = LastHead
    <3>1. AcceptsHead(head.cur) \/ AcceptsHead(head.prev)
      BY <2>1, <2>2 DEF CrashInv, EveryFileHasACopy
    <3> QED
      BY <2>1, <3>1 DEF LastHead, Kept
  <2>4. ASSUME NEW p \in Procs PROVE LastWave(p)' = LastWave(p)
    <3>1. AcceptsWave(wave["out"][p].cur) \/ AcceptsWave(wave["out"][p].prev)
      BY <2>1, <2>2 DEF CrashInv, EveryFileHasACopy
    <3>2. wave'["out"][p] = Kept(wave["out"][p], AcceptsWave(wave["out"][p].cur), NoWave)
      BY <2>1 DEF TypeOK, FileType, Names
    <3> QED
      BY <3>1, <3>2 DEF LastWave, Kept
  <2>5. Gap' = Gap /\ phase' = "first"
    BY <2>1 DEF CloseInv, Gap
  <2>6. GapInv'
    BY <2>1, <2>3, <2>4, <2>5 DEF CloseInv, GapInv
  <2>7. \A p \in Procs : call'[p] = "init"
    BY <2>1, <2>2 DEF CrashInv, Parked
  <2> QED
    BY <2>1, <2>5, <2>6, <2>7 DEF CloseInv, StepInv, HeadStepInv, WrittenInv, UnsavedInv
<1>5. CASE Resume
  <2>1. /\ job = "crashed" /\ Restartable /\ job' = "running" /\ phase' = "first"
        /\ ions'.step = head.cur.step
        /\ psi' = [p \in Procs |-> wave["out"][p].cur.psi]
        /\ UNCHANGED <<forceflag, crashes, head, wave, saved>>
        /\ \/ forceflag = "md" /\ \A p \in Procs : call'[p] = "step" /\ pc'[p] = "out"
           \/ \A p \in Procs : call'[p] = "init"
    BY <1>5 DEF Resume, Begin, StartQuench, CallWrite, files
  <2>2. saved
    BY <1>2, <2>1 DEF Restartable
  <2>3. LastHead' = LastHead /\ LastHead.step = head.cur.step /\ \A p \in Procs : LastWave(p)' = LastWave(p)
    BY <2>1 DEF LastHead, LastWave, Restartable
  <2>4. Gap' = Gap
    BY <2>1 DEF CloseInv, Gap
  <2>5. GapInv'
    BY <2>1, <2>2, <2>3, <2>4 DEF CloseInv, GapInv
  <2>6. HeadStepInv' /\ StepInv'
    <3>1. \A p \in Procs : ~ OfThisStep(p)'
      BY <2>1 DEF OfThisStep, Resumed
    <3>2. ~ HeadBusy' /\ \A p \in Procs : Name(p)' = "out" => pc'[p] = "out"
      BY <2>1 DEF HeadBusy, Name
    <3> QED
      BY <3>1, <3>2 DEF HeadStepInv, StepInv, WaveStage
  <2>7. WrittenInv' /\ UnsavedInv'
    BY <2>1, <2>2 DEF WrittenInv, UnsavedInv, Restartable, AcceptsWave
  <2> QED
    BY <2>1, <2>5, <2>6, <2>7 DEF CloseInv
<1>6. CASE StartOver
  <2>1. /\ job = "crashed" /\ ~ saved
        /\ UNCHANGED <<forceflag, crashes, pc, call, phase, ions, psi, start, head, wave, saved>>
    BY <1>6 DEF StartOver, electrons, files
  <2>2. \A p \in Procs : call'[p] = "init"
    BY <2>1 DEF FileInv, CrashInv, Parked
  <2>3. StepInv' /\ HeadStepInv'
    BY <2>2, <1>6 DEF StepInv, HeadStepInv, OfThisStep, HeadBusy, Name, StartOver
  <2>4. UnsavedInv' /\ WrittenInv' /\ GapInv'
    BY <2>1, <2>2 DEF CloseInv, UnsavedInv, WrittenInv, GapInv
  <2>5. job' = "running"
    BY <1>6 DEF StartOver
  <2> QED
    BY <2>3, <2>4, <2>5 DEF CloseInv
<1>7. CASE Ended
  <2>1. UNCHANGED vars
    BY <1>7 DEF Ended
  <2> QED
    BY <2>1, CloseStutter
<1> QED
  BY <1>3, <1>4, <1>5, <1>6, <1>7
-----------------------------------------------------------------------------
(* Half a step of the velocities                                           *)

\* Only molecular dynamics that has a complete set makes half steps, and what is
\* there of a file that is not usable has none.
NoHalfSteps == forceflag # "md" \/ ~ saved

PhaseInv ==
    /\ HalfStepIsShort
    /\ ~ AcceptsHead(head.cur) => head.cur.vel # "half"
    /\ ~ AcceptsHead(head.prev) => head.prev.vel # "half"
    /\ NoHalfSteps => ions.vel # "half" /\ head.cur.vel # "half" /\ head.prev.vel # "half"

LEMMA InitPhase == Init => PhaseInv
BY DEF Init, PhaseInv, NoHalfSteps, HalfStepIsShort, LastHead, AcceptsHead, NoHead

\* A file that is renamed keeps its velocities, a new one gets those in memory.
LEMMA HeadPhase ==
    ASSUME TypeOK, CloseInv, PhaseInv, SaveHead \/ OpenHead \/ CloseHead
    PROVE  PhaseInv'
<1> USE RootIsProc
<1>1. UNCHANGED <<control, call, phase, ions, saved>>
  BY DEF SaveHead, OpenHead, CloseHead
<1>2. job = "running" /\ job' = "running" /\ UNCHANGED NoHalfSteps
  BY <1>1 DEF SaveHead, OpenHead, CloseHead, At, control, NoHalfSteps
<1>3. pc \in [Procs -> {"save_head", "open_head", "close_head", "meet",
                        "save_wave", "open_wave", "write_wave", "out"}]
  BY DEF TypeOK, WriteType
<1>4. CASE Name(root) # "out"
  <2>1. UNCHANGED head
    BY <1>4 DEF SaveHead, OpenHead, CloseHead, SetHead
  <2>2. call[root] = "init"
    BY <1>4 DEF Name
  <2>3. ~ (ions.vel = "full" /\ LastHead.vel = "half")
    BY <1>2, <2>2 DEF PhaseInv, HalfStepIsShort
  <2> QED
    BY <1>1, <2>1, <2>2, <2>3, <1>2 DEF PhaseInv, HalfStepIsShort, LastHead, AcceptsHead
<1>5. CASE Name(root) = "out" /\ SaveHead
  <2>1. pc[root] = "save_head" /\ pc'[root] = "open_head"
    BY <1>3, <1>5 DEF SaveHead, At, Goto
  <2>2. head' = IF head.cur.is = "none" THEN head ELSE [cur |-> NoHead, prev |-> head.cur]
    BY <1>5 DEF SaveHead, SetHead, Renamed
  <2>3. LastHead'.vel = "half" => LastHead.vel = "half"
    <3>1. CASE AcceptsHead(head.cur)
      BY <2>2, <3>1 DEF LastHead, AcceptsHead, NoHead
    <3>2. CASE ~ AcceptsHead(head.cur)
      BY <2>2, <3>2 DEF PhaseInv, LastHead, AcceptsHead, NoHead
    <3> QED
      BY <3>1, <3>2
  <2>4. /\ ~ AcceptsHead(head.cur)' => head'.cur.vel # "half"
        /\ ~ AcceptsHead(head.prev)' => head'.prev.vel # "half"
        /\ NoHalfSteps => head'.cur.vel # "half" /\ head'.prev.vel # "half"
    BY <2>2 DEF PhaseInv, AcceptsHead, NoHead
  <2> QED
    BY <1>1, <1>2, <2>1, <2>3, <2>4 DEF PhaseInv, HalfStepIsShort
<1>6. CASE Name(root) = "out" /\ OpenHead
  <2>1. pc[root] = "open_head" /\ pc'[root] = "close_head"
    BY <1>3, <1>6 DEF OpenHead, At, Goto
  <2>2. head'.cur = [is |-> "empty", step |-> 0, vel |-> "full"] /\ head'.prev = head.prev
    BY <1>6 DEF OpenHead, SetHead, TypeOK, FileType, NoHead
  <2>3. ~ AcceptsHead(head.cur)
    BY <1>2, <1>6, <2>1 DEF CloseInv, HeadStepInv, HeadBusy
  <2>4. LastHead' = LastHead
    BY <2>2, <2>3 DEF LastHead, AcceptsHead
  <2>5. /\ ~ AcceptsHead(head.cur)' => head'.cur.vel # "half"
        /\ ~ AcceptsHead(head.prev)' => head'.prev.vel # "half"
        /\ NoHalfSteps => head'.cur.vel # "half" /\ head'.prev.vel # "half"
    BY <2>2 DEF PhaseInv, AcceptsHead
  <2> QED
    BY <1>1, <1>2, <2>1, <2>4, <2>5 DEF PhaseInv, HalfStepIsShort
<1>7. CASE Name(root) = "out" /\ CloseHead
  <2>1. head'.cur = [is |-> "full", step |-> ions.step, vel |-> ions.vel] /\ head'.prev = head.prev
    BY <1>7 DEF CloseHead, SetHead, TypeOK, FileType
  <2>2. LastHead'.vel = ions.vel
    BY <2>1 DEF LastHead, AcceptsHead
  <2>3. call[root] # "init"
    BY <1>7 DEF Name
  <2>4. /\ ~ AcceptsHead(head.cur)' => head'.cur.vel # "half"
        /\ ~ AcceptsHead(head.prev)' => head'.prev.vel # "half"
        /\ NoHalfSteps => head'.cur.vel # "half" /\ head'.prev.vel # "half"
    BY <2>1 DEF PhaseInv, AcceptsHead
  <2> QED
    BY <1>1, <1>2, <2>2, <2>3, <2>4 DEF PhaseInv, HalfStepIsShort
<1> QED
  BY <1>4, <1>5, <1>6, <1>7

LEMMA MeetPhase ==
    ASSUME PhaseInv, MeetInWrite
    PROVE  PhaseInv'
<1>1. UNCHANGED <<control, call, phase, ions, head, saved>> /\ pc[root] = "meet"
  BY RootIsProc DEF MeetInWrite, At, files
<1> QED
  BY <1>1 DEF PhaseInv, HalfStepIsShort, NoHalfSteps, LastHead, AcceptsHead, MeetInWrite, At, control

\* When process 0 has written what Quench calls for, the step is completed in memory
\* and the next call is about to write it.
LEMMA WavePhase ==
    ASSUME TypeOK, PhaseInv, NEW p \in Procs, SaveWave(p) \/ OpenWave(p) \/ WriteWave(p)
    PROVE  PhaseInv'
<1> USE RootIsProc
<1>1. /\ job = "running" /\ pc[p] \in WaveStage
      /\ UNCHANGED <<head, phase, forceflag>>
  BY DEF SaveWave, OpenWave, WriteWave, At, WaveStage, control
<1>2. /\ pc \in [Procs -> {"save_head", "open_head", "close_head", "meet",
                           "save_wave", "open_wave", "write_wave", "out"}]
      /\ call \in [Procs -> {"init", "check", "quench", "step"}]
  BY DEF TypeOK, WriteType
<1>3. ions' = ions \/ (ions.vel = "half" /\ ions'.vel = "full" /\ p = root
                       /\ call'[p] = "step" /\ pc'[p] = "save_head")
  BY <1>2 DEF SaveWave, OpenWave, WriteWave, NextCall, Goto, Enter, TypeOK, JobType
<1>4. /\ ~ AcceptsHead(head.cur)' => head'.cur.vel # "half"
      /\ ~ AcceptsHead(head.prev)' => head'.prev.vel # "half"
      /\ NoHalfSteps' => ions'.vel # "half" /\ head'.cur.vel # "half" /\ head'.prev.vel # "half"
  <2>1. saved => saved'
    <3>1. CASE UNCHANGED saved
      BY <3>1
    <3>2. CASE WriteWave(p)
      BY <3>2, Zenon DEF WriteWave
    <3> QED
      BY <3>1, <3>2 DEF SaveWave, OpenWave
  <2>2. NoHalfSteps' => NoHalfSteps
    BY <1>1, <2>1 DEF NoHalfSteps
  <2> QED
    BY <1>1, <1>3, <2>2 DEF PhaseInv, AcceptsHead
<1>5. LastHead' = LastHead
  BY <1>1 DEF LastHead, AcceptsHead
<1>6. HalfStepIsShort'
  <2>1. CASE p # root
    <3>1. UNCHANGED ions /\ call'[root] = call[root] /\ pc'[root] = pc[root]
      BY <1>2, <1>3, <2>1 DEF SaveWave, OpenWave, WriteWave, NextCall, Goto
    <3> QED
      BY <1>1, <1>5, <3>1 DEF PhaseInv, HalfStepIsShort
  <2>2. CASE p = root /\ ~ (ions.vel = "half" /\ ions'.vel = "full")
    <3>1. UNCHANGED ions
      BY <1>3, <2>2
    <3>2. call'[root] = call[root] \/ (call[root] = "quench" /\ call'[root] = "step")
      BY <1>2, <2>2 DEF SaveWave, OpenWave, WriteWave, NextCall
    <3>3. ~ (ions.vel = "full" /\ LastHead.vel = "half")
      BY <1>1, <2>2 DEF PhaseInv, HalfStepIsShort, WaveStage
    <3> QED
      BY <1>1, <1>5, <3>1, <3>2, <3>3 DEF PhaseInv, HalfStepIsShort
  <2>3. CASE p = root /\ ions.vel = "half" /\ ions'.vel = "full"
    BY <1>3, <2>3 DEF HalfStepIsShort
  <2> QED
    BY <2>1, <2>2, <2>3
<1> QED
  BY <1>4, <1>6 DEF PhaseInv

\* The loops call WriteRestart only when process 0 has written what it had to.
LEMMA LoopPhase ==
    ASSUME TypeOK, FileInv, CloseInv, PhaseInv,
           LowerMix \/ ScfStep \/ FinishQuench \/ Move \/ ExtrapolateOrbitals \/ LastQuench \/ End
    PROVE  PhaseInv'
<1> USE RootIsProc
<1>1. /\ job = "running" /\ \A p \in Procs : pc[p] = "out"
      /\ UNCHANGED <<head, saved, forceflag>>
  BY DEF LowerMix, ScfStep, FinishQuench, Move, ExtrapolateOrbitals, LastQuench, End, AllAfter,
         At, files, control
<1>2. ~ (ions.vel = "full" /\ LastHead.vel = "half")
  BY <1>1 DEF PhaseInv, HalfStepIsShort
<1>3. LastHead' = LastHead
  BY <1>1 DEF LastHead, AcceptsHead
<1>4. CASE LowerMix \/ ScfStep \/ FinishQuench
  <2>1. UNCHANGED <<ions, phase>>
    BY <1>4 DEF LowerMix, ScfStep, FinishQuench
  <2>2. call'[root] = "init" => call[root] = "init"
    BY <1>4 DEF LowerMix, ScfStep, FinishQuench, CallWrite
  <2> QED
    BY <1>1, <1>2, <1>3, <2>1, <2>2 DEF PhaseInv, HalfStepIsShort, NoHalfSteps, AcceptsHead
<1>5. CASE Move
  <2>1. saved
    BY <1>5 DEF Move, AllAfter, At, CloseInv, WrittenInv, FileInv
  <2>2. CASE forceflag = "md"
    <3>1. ions'.vel # "full" /\ (ions'.vel = "half" => ions.vel = "full")
      BY <1>5, <2>2 DEF Move
    <3> QED
      BY <1>1, <1>2, <1>3, <2>1, <2>2, <3>1 DEF PhaseInv, HalfStepIsShort, NoHalfSteps, AcceptsHead
  <2>3. CASE forceflag # "md"
    <3>1. ions'.vel = ions.vel
      BY <1>5, <2>3 DEF Move
    <3> QED
      BY <1>1, <1>2, <1>3, <2>1, <2>3, <3>1 DEF PhaseInv, HalfStepIsShort, NoHalfSteps, AcceptsHead
  <2> QED
    BY <2>2, <2>3
<1>6. CASE ExtrapolateOrbitals \/ LastQuench \/ End
  <2>1. /\ UNCHANGED ions
        /\ phase' # "loop" \/ UNCHANGED <<phase, call>>
    BY <1>6 DEF ExtrapolateOrbitals, LastQuench, End
  <2> QED
    BY <1>1, <1>2, <1>3, <2>1 DEF PhaseInv, HalfStepIsShort, NoHalfSteps, AcceptsHead
<1> QED
  BY <1>4, <1>5, <1>6

\* A job that is restarted has the velocities it finds.
LEMMA UserPhase ==
    ASSUME TypeOK, FileInv, CloseInv, PhaseInv, Rescue \/ Resume \/ StartOver \/ Crash \/ Ended
    PROVE  PhaseInv'
<1>1. CASE Rescue
  <2>1. /\ head' = IF AcceptsHead(head.cur) THEN head ELSE [cur |-> head.prev, prev |-> NoHead]
        /\ job' = "crashed" /\ saved' /\ UNCHANGED <<ions, forceflag>>
    BY <1>1 DEF Rescue, Kept, control
  <2> QED
    BY <2>1 DEF PhaseInv, HalfStepIsShort, NoHalfSteps, AcceptsHead, NoHead
<1>2. CASE Resume
  <2>1. /\ UNCHANGED <<head, saved>> /\ saved /\ AcceptsHead(head.cur)
        /\ ions'.vel = head.cur.vel /\ phase' = "first" /\ UNCHANGED forceflag
    BY <1>2 DEF Resume, files, Restartable, FileInv, Begin
  <2> QED
    BY <2>1 DEF PhaseInv, HalfStepIsShort, NoHalfSteps, LastHead, AcceptsHead
<1>3. CASE StartOver
  <2>1. UNCHANGED <<head, saved, ions, forceflag>> /\ ~ saved
    BY <1>3 DEF StartOver, files
  <2>2. LastHead'.vel # "half"
    BY <2>1 DEF PhaseInv, NoHalfSteps, LastHead, AcceptsHead
  <2> QED
    BY <2>1, <2>2 DEF PhaseInv, HalfStepIsShort, NoHalfSteps, AcceptsHead
<1>4. CASE Crash
  <2>1. job' = "crashed" /\ UNCHANGED <<saved, forceflag>> /\ ions'.vel = "full"
    BY <1>4 DEF Crash, Begin
  <2>2. head' = head \/ head' = [head EXCEPT !.cur = [is |-> "atoms", step |-> ions.step, vel |-> "off"]]
    BY <1>4 DEF Crash, SetHead
  <2>3. /\ head'.prev = head.prev
        /\ head'.cur = head.cur \/ head'.cur.vel = "off"
    BY <2>2 DEF TypeOK, FileType
  <2> QED
    BY <2>1, <2>2, <2>3 DEF PhaseInv, HalfStepIsShort, NoHalfSteps, AcceptsHead
<1>5. CASE Ended
  BY <1>5 DEF Ended, vars, control, files, PhaseInv, HalfStepIsShort, NoHalfSteps, LastHead, AcceptsHead
<1> QED
  BY <1>1, <1>2, <1>3, <1>4, <1>5
-----------------------------------------------------------------------------
IInv == TypeOK /\ MixInv /\ FileInv /\ OrbitalInv /\ CloseInv

LEMMA InitIInv == Init => IInv
<1>1. Init => MixInv
  BY RestartAssumption DEF Init, MixInv
<1> QED
  BY <1>1, InitType, InitFileInv, InitOrbitalInv, InitCloseInv DEF IInv

LEMMA NextIInv == IInv /\ [Next]_vars => IInv'
<1> SUFFICES ASSUME IInv, [Next]_vars PROVE IInv'
  OBVIOUS
<1> USE DEF IInv
<1>1. CASE SaveHead \/ OpenHead \/ CloseHead
  BY <1>1, RootIsProc, WriteRestartType, HeadStep, HeadOrbitals, HeadClose
<1>2. CASE MeetInWrite
  BY <1>2, RootIsProc, WriteRestartType, MeetStep, HeadOrbitals, HeadClose
<1>3. CASE \E p \in Procs : SaveWave(p) \/ OpenWave(p) \/ WriteWave(p)
  <2>1. PICK p \in Procs : SaveWave(p) \/ OpenWave(p) \/ WriteWave(p)
    BY <1>3
  <2> QED
    BY <2>1, WriteRestartType, WaveStep, WaveOrbitals, WaveClose
<1>4. CASE LowerMix \/ ScfStep \/ FinishQuench \/ Move \/ ExtrapolateOrbitals \/ LastQuench \/ End
  BY <1>4, LoopType, LoopStep, LoopOrbitals, LoopClose
<1>5. CASE User \/ Crash \/ Ended
  BY <1>5, CrashType, UserStep, UserOrbitals, UserClose DEF User
<1>6. CASE UNCHANGED vars
  <2>1. TypeOK'
    <3>1. FlagType'
      BY <1>6, Zenon DEF TypeOK, FlagType, vars, electrons, files
    <3> QED
      BY <1>6, <3>1 DEF vars, control, electrons, files, TypeOK, JobType, Moves, WriteType,
                        ElectronType, FileType
  <2>2. MixInv'
    BY <1>6 DEF vars, control, electrons, MixInv
  <2>3. FileInv'
    BY <1>6 DEF vars, control, files, FileInv, CrashInv, Parked, EveryFileHasACopy, HeadInv,
                WaveInv, HeadBusy, WaveBusy, HeadWritten, Name, Enter
  <2>4. OrbitalInv'
    BY <1>6 DEF vars, control, electrons, files, OrbitalInv, ResetInv, DirInv, LastInv, EndInv, Resumed
  <2>5. CloseInv'
    BY <1>6, CloseStutter
  <2> QED
    BY <2>1, <2>2, <2>3, <2>4, <2>5
<1> QED
  BY <1>1, <1>2, <1>3, <1>4, <1>5, <1>6 DEF Next, Job

LEMMA Invariance == Spec => []IInv
BY InitIInv, NextIInv, PTL DEF Spec

\* The variables keep their types, whatever the number of processes, of steps and of
\* crashes: no more halvings than take mix below 0.02, no more moves than the input.
THEOREM TypeCorrect == Spec => []TypeOK
<1>1. IInv => TypeOK
  BY DEF IInv
<1> QED
  BY <1>1, Invariance, PTL

\* Once a set of the output has been written, each of its files is there at every
\* moment in a state the program accepts, under its name or with "_1": WriteRestart
\* renames a file before it writes it anew, and a crash may come at any step.
THEOREM NoFileIsLost == Spec => []EveryFileHasACopy
<1>1. IInv => EveryFileHasACopy
  <2>1. CASE job = "crashed"
    BY <2>1 DEF IInv, FileInv, CrashInv
  <2>2. CASE job # "crashed"
    BY <2>2 DEF IInv, FileInv, HeadInv, HeadWritten, WaveInv, EveryFileHasACopy
  <2> QED
    BY <2>1, <2>2
<1> QED
  BY <1>1, Invariance, PTL

\* When AutoMix lowers the mixing, the orbitals it returns to are on every process
\* those with which this quench began, not those of a checkpoint or of an earlier
\* quench.
THEOREM LowerMixFindsStart == Spec => ResetFindsStart
<1>1. IInv /\ [Next]_vars => [halvings' > halvings => psi' \in {psi, start}]_vars
  <2> SUFFICES ASSUME IInv, Next, halvings' > halvings PROVE psi' \in {psi, start}
    BY DEF vars, electrons
  <2>1. halvings \in Nat
    BY RestartAssumption DEF IInv, TypeOK, ElectronType
  <2>2. LowerMix
    <3>1. CASE User \/ Crash \/ Ended
      BY <2>1, <3>1 DEF User, Crash, Resume, Begin, Rescue, StartOver, Ended, vars, electrons
    <3>2. CASE SaveHead \/ OpenHead \/ CloseHead \/ MeetInWrite
      <4>1. UNCHANGED electrons
        BY <3>2 DEF SaveHead, OpenHead, CloseHead, MeetInWrite
      <4> QED
        BY <2>1, <4>1 DEF electrons
    <3>3. CASE \E p \in Procs : SaveWave(p) \/ OpenWave(p) \/ WriteWave(p)
      BY <2>1, <3>3 DEF SaveWave, OpenWave, WriteWave, electrons
    <3>4. CASE ScfStep \/ FinishQuench \/ Move \/ ExtrapolateOrbitals \/ LastQuench \/ End
      BY <2>1, <3>4 DEF ScfStep, FinishQuench, Move, ExtrapolateOrbitals, LastQuench, End, electrons
    <3> QED
      BY <3>1, <3>2, <3>3, <3>4 DEF Next, Job
  <2>3. \A p \in Procs : pc[p] = "out" /\ call[p] \in {"init", "check"}
    BY <2>2 DEF LowerMix, AllAfter, At
  <2>4. \A p \in Procs : wave["init"][p].cur = [is |-> "full", psi |-> start[p]]
    BY <2>3 DEF IInv, OrbitalInv, ResetInv
  <2>5. \A p \in Procs : InitFiles[p].psi = start[p]
    <3> TAKE p \in Procs
    <3>1. InitFiles[p] = [is |-> "full", psi |-> start[p]]
      BY <2>4, Zenon DEF InitFiles
    <3> QED
      BY <3>1
  <2>6. start \in [Procs -> Orbitals]
    BY DEF IInv, TypeOK, ElectronType
  <2> QED
    BY <2>2, <2>5, <2>6 DEF LowerMix
<1>2. ResetFindsStart <=> [][halvings' > halvings => psi' \in {psi, start}]_vars
  BY PTL DEF ResetFindsStart
<1> QED
  BY <1>1, <1>2, Invariance, PTL DEF Spec

\* A job stops early only because its mixing fell too low, never because a file or
\* the directory of the output was not there to be opened; and one that goes to its
\* end leaves the set of its last positions, velocities and orbitals.
THEOREM JobsEndWell == Spec => []EndsWell
<1>1. IInv => EndsWell
  BY RootIsProc DEF IInv, OrbitalInv, EndInv, LastInv, EndsWell
<1> QED
  BY <1>1, Invariance, PTL

\* Whatever set of the output a restart may find, its orbitals are those of the step
\* of its positions or of the one before; in molecular dynamics, where a restarted job
\* moves the ions before it calculates, each restart may add one step to that.
THEOREM RestartsFindNearOrbitals == Spec => []RestartIsClose
<1>1. IInv => RestartIsClose
  <2> SUFFICES ASSUME IInv, Restartable, NEW p \in Procs
               PROVE  head.cur.step - wave["out"][p].cur.psi.step \in
                          0..(IF forceflag = "md" THEN 1 + crashes ELSE 1)
    BY DEF RestartIsClose
  <2>1. saved
    BY DEF IInv, FileInv, Restartable
  <2>2. LastHead = head.cur /\ LastWave(p) = wave["out"][p].cur
    BY DEF Restartable, LastHead, LastWave
  <2>3. head.cur.step - wave["out"][p].cur.psi.step \in 0..Gap
    BY <2>1, <2>2 DEF IInv, CloseInv, GapInv
  <2>4. crashes \in Nat /\ Gap \in Nat
    BY Steps DEF IInv
  <2> QED
    BY <2>3, <2>4 DEF Gap
<1> QED
  BY <1>1, Invariance, PTL

\* A restart may find velocities half a step behind the positions only between the
\* sets that the quench of this ionic step writes and the head file that its caller
\* writes after velup2, and never those of the step before.
THEOREM HalfStepsPass == Spec => []HalfStepIsShort
<1>1. Init => PhaseInv
  BY InitPhase
<1>2. IInv /\ PhaseInv /\ [Next]_vars => PhaseInv'
  <2> SUFFICES ASSUME IInv, PhaseInv, [Next]_vars PROVE PhaseInv'
    OBVIOUS
  <2> USE DEF IInv
  <2>1. CASE SaveHead \/ OpenHead \/ CloseHead
    BY <2>1, HeadPhase
  <2>2. CASE MeetInWrite
    BY <2>2, MeetPhase
  <2>3. CASE \E p \in Procs : SaveWave(p) \/ OpenWave(p) \/ WriteWave(p)
    BY <2>3, WavePhase
  <2>4. CASE LowerMix \/ ScfStep \/ FinishQuench \/ Move \/ ExtrapolateOrbitals \/ LastQuench \/ End
    BY <2>4, LoopPhase
  <2>5. CASE User \/ Crash \/ Ended
    BY <2>5, UserPhase DEF User
  <2>6. CASE UNCHANGED vars
    BY <2>6 DEF vars, control, files, PhaseInv, HalfStepIsShort, NoHalfSteps, LastHead, AcceptsHead
  <2> QED
    BY <2>1, <2>2, <2>3, <2>4, <2>5, <2>6 DEF Next, Job
<1>3. PhaseInv => HalfStepIsShort
  BY DEF PhaseInv
<1> QED
  BY <1>1, <1>2, <1>3, Invariance, PTL DEF Spec
=============================================================================
