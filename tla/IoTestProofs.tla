---------------------------- MODULE IoTestProofs ----------------------------
(***************************************************************************)
(* Proofs about IoTest: for every number of test programs, of trials and   *)
(* of setups, and whichever calls fail, tests that share the cache never   *)
(* use a generated file that is not complete, and a test leaves nothing    *)
(* of its command running.                                                 *)
(*                                                                         *)
(* That a file is complete where it is used depends on who may still write *)
(* to it.  A generated file has one writer, until it is renamed            *)
(* (GenInv); what commands can reach is read-only or a file of their own   *)
(* run directory (InputInv), which only tests that have ended share        *)
(* (KeepInv); and no command runs before its test has set up its files     *)
(* (CommandInv).                                                           *)
(***************************************************************************)
EXTENDS IoTest, TLAPS

\* Nothing of the test is left that could change a file.
Dead(t) == tpc[t] = "ended" /\ child[t] \notin Live /\ others[t] = "none"

SetupPCs == {"new", "setup", "gen", "fill", "rename", "link"}

\* The command of t, by where its tester is.
CommandOK(t) ==
  /\ tpc[t] \in SetupPCs => nrun[t] = 0
  /\ nrun[t] = 0 => child[t] = "none" /\ others[t] = "none"
  /\ tpc[t] \in {"exec", "results"} => child[t] \in {"none", "reaped"} /\ others[t] # "run"
  /\ tpc[t] = "exec" => nrun[t] < 1 + 2 * TRIALS
  /\ tpc[t] \in {"loop", "wait4", "waited"} => group[t]
  /\ tpc[t] = "waited" => child[t] = "reaped"
  /\ tpc[t] \in {"fail", "ended"} /\ cause[t] \notin {"killed", "lost"} =>
       child[t] \notin {"pre", "set", "run"} /\ others[t] # "run"
CommandInv == \A t \in Testers : CommandOK(t)

\* The run directory of t, and who shares one.
KeepOK(t) ==
  /\ tpc[t] = "new" => ~keep[t] /\ t \notin dir
  /\ keep[t] => t \notin dir
  /\ \A u \in Testers : keep[t] /\ keep[u] /\ t # u => Dead(t) \/ Dead(u)
KeepInv == \A t \in Testers : KeepOK(t)

\* Generated files, and the one from before.
Generated == Testers \X {"gen"}

\* What the name in a run directory may stand for.
InputOK(d) ==
  \/ input[d] = NoFile
  \/ \E w \in Testers : input[d] = <<w, "own">> /\ d = DirOf(w) /\ tpc[w] # "new"
  \/ input[d] \in Generated \cup {Before} /\ ~root /\ input[d] \notin writable
InputInv == \A d \in Dirs : InputOK(d)

\* The cache: nobody writes to a file it holds.
CacheInv ==
  /\ cached \in Generated \cup {Before, NoFile}
  /\ data[Before] \in {"short", "full"} /\ Before \notin writable
  /\ cached \in Generated => data[cached] = "full" /\ cached \notin writable
  /\ \A d \in Dirs : input[d] \in Generated => cached \in Generated

\* A tester that generates is alone with its file.
GenOK(t) ==
  /\ tpc[t] \in {"gen", "fill", "rename"} =>
       cached # <<t, "gen">> /\ \A d \in Dirs : input[d] # <<t, "gen">>
  /\ tpc[t] = "rename" => data[<<t, "gen">>] = "full"
  /\ tpc[t] = "link" => cached # NoFile /\ data[cached] = "full"
GenInv == \A t \in Testers : GenOK(t)

\* The test has the file it asked for until its command runs.
WantOK(t) ==
  /\ tpc[t] = "new" => want[t] = "none"
  /\ tpc[t] \in {"setup", "exec"} /\ nrun[t] = 0 /\ want[t] = "full" =>
       input[DirOf(t)] # NoFile /\ data[input[DirOf(t)]] = "full"
WantInv == \A t \in Testers : WantOK(t)

\* The inductive invariant.
IInv == TypeOK /\ CommandInv /\ KeepInv /\ InputInv /\ CacheInv /\ GenInv /\ WantInv

-----------------------------------------------------------------------------
\* Files are told apart by who made them.
LEMMA InodeFacts ==
  /\ Before \in Inodes /\ NoFile \notin Inodes /\ Before \notin Generated /\ NoFile \notin Generated
  /\ \A t \in Testers : <<t, "own">> \in Inodes /\ <<t, "gen">> \in Inodes
  /\ \A t, u \in Testers : /\ <<t, "own">> # <<u, "gen">>
                           /\ <<t, "own">> # Before /\ <<t, "gen">> # Before
                           /\ <<t, "own">> = <<u, "own">> => t = u
                           /\ <<t, "gen">> = <<u, "gen">> => t = u
  BY IoTestAssumption DEF Before, NoFile, Inodes, Generated

\* DirOf() names a run directory, which is the tester's own or the one that is kept.
LEMMA DirFacts ==
  ASSUME TypeOK
  PROVE  /\ "kept" \in Dirs /\ Testers \subseteq Dirs
         /\ \A t \in Testers : DirOf(t) \in Dirs
         /\ \A t, u \in Testers : DirOf(t) = DirOf(u) => t = u \/ (keep[t] /\ keep[u])
  BY IoTestAssumption DEF DirOf, Dirs, TypeOK

\* The invariant holds when the first test starts.
LEMMA InitInv == Init => IInv
<1> SUFFICES ASSUME Init PROVE IInv
  OBVIOUS
<1>1. TypeOK
  BY InodeFacts, IoTestAssumption
  DEF Init, TypeOK, TesterPCs, Causes, Contents, ChildStates, NoStatus, Dirs
<1>2. CommandInv
  BY IoTestAssumption DEF Init, CommandInv, CommandOK
<1>3. KeepInv
  BY IoTestAssumption DEF Init, KeepInv, KeepOK
<1>4. InputInv
  BY DEF Init, InputInv, InputOK
<1>5. CacheInv
  BY InodeFacts DEF Init, CacheInv, Generated
<1>6. GenInv /\ WantInv
  BY DEF Init, GenInv, GenOK, WantInv, WantOK
<1> QED
  BY <1>1, <1>2, <1>3, <1>4, <1>5, <1>6 DEF IInv

\* A step of a tester, its command or its clock.
Step(t) == TesterStep(t) \/ TesterFault(t) \/ CommandStep(t) \/ Alarm(t) \/ Tick(t)

\* Every step keeps the types; trials are bounded because a test that goes on has
\* not made its last one.
LEMMA NextType ==
  ASSUME TypeOK, CommandInv, GenInv, NEW t \in Testers, Step(t)
  PROVE  TypeOK'
<1> USE DEF TypeOK, TesterPCs, Causes, ChildStates, cvars, pvars, fvars, Goto, Fail, End, Exit
<1>1. 0 \in 0 .. MAX_TIME
  BY IoTestAssumption
<1>2. CASE Construct(t)
  BY <1>2 DEF Construct, Dirs
<1>3. CASE ConstructFails(t)
  BY <1>3, <1>1 DEF ConstructFails
<1>4. CASE Killed(t)
  BY <1>4, <1>1 DEF Killed
<1>5. CASE ExecuteFails(t)
  <2>1. CASE End(t, "library")
    BY <1>5, <2>1, <1>1 DEF ExecuteFails
  <2>2. CASE Fail(t, "setup") /\ UNCHANGED <<elapsed, armed, status>>
    BY <1>5, <2>2 DEF ExecuteFails
  <2> QED
    BY <1>5, <2>1, <2>2 DEF ExecuteFails
<1>6. CASE WriteFile(t)
  <2>1. DirOf(t) \in Dirs /\ <<t, "own">> \in Inodes
    BY InodeFacts, DirFacts
  <2>2. data' \in [Inodes -> Contents] /\ input' \in [Dirs -> Inodes \cup {NoFile}]
    BY <1>6, <2>1 DEF WriteFile, NewInput, Contents
  <2>3. setups' \in [Testers -> 0 .. SETUPS] /\ writable' \subseteq Inodes
    BY <1>6, <2>1, IoTestAssumption DEF WriteFile
  <2>4. tpc' \in [Testers -> TesterPCs] /\ cause' \in [Testers -> Causes]
        /\ want' \in [Testers -> {"none", "full", "own"}]
    BY <1>6 DEF WriteFile
  <2> QED
    BY <1>6, <2>2, <2>3, <2>4 DEF WriteFile
<1>7. CASE MakeInput(t)
  BY <1>7, IoTestAssumption DEF MakeInput
<1>8. CASE MakeInputOpen(t)
  BY <1>8, InodeFacts DEF MakeInputOpen, OpenTmp, Contents
<1>9. CASE MakeInputFill(t)
  BY <1>9, InodeFacts DEF MakeInputFill, Contents
<1>10. CASE MakeInputRename(t)
  BY <1>10, InodeFacts DEF MakeInputRename, ReadOnly
<1>11. CASE MakeInputLink(t)
  <2>1. DirOf(t) \in Dirs /\ <<t, "own">> \in Inodes
    BY InodeFacts, DirFacts
  <2>2. data[cached] \in Contents
    BY <1>11 DEF MakeInputLink, GenInv, GenOK
  <2>3. data' \in [Inodes -> Contents]
    BY <1>11, <2>1, <2>2 DEF MakeInputLink, NewInput
  <2>4. input' \in [Dirs -> Inodes \cup {NoFile}] /\ writable' \subseteq Inodes
    BY <1>11, <2>1 DEF MakeInputLink, NewInput
  <2>5. tpc' \in [Testers -> TesterPCs] /\ cause' \in [Testers -> Causes]
        /\ want' \in [Testers -> {"none", "full", "own"}]
    BY <1>11 DEF MakeInputLink
  <2> QED
    BY <1>11, <2>3, <2>4, <2>5 DEF MakeInputLink
<1>12. CASE WrongOrder(t) \/ Run(t) \/ Wait(t) \/ ReportTiming(t)
  BY <1>12 DEF WrongOrder, Run, Wait, ReportTiming
<1>13. CASE Fork(t)
  BY <1>13, IoTestAssumption DEF Fork, CommandInv, CommandOK
<1>14. CASE Forked(t)
  BY <1>14 DEF Forked, ParentGroup
<1>15. CASE Reap(t)
  BY <1>15, IoTestAssumption DEF Reap
<1>16. CASE LostTrack(t)
  BY <1>16 DEF LostTrack
<1>17. CASE Alarm(t)
  BY <1>17 DEF Alarm, Rearmed, KillGroup
<1>18. CASE Finish(t)
  BY <1>18 DEF Finish, KillGroup
<1>19. CASE FailRemove(t)
  BY <1>19, <1>1 DEF FailRemove, FailRemoves, RemoveAll
<1>20. CASE Abort(t)
  BY <1>20, <1>1 DEF Abort, RemoveAll
<1>21. CASE Return(t)
  BY <1>21, <1>1 DEF Return, RemoveAll
<1>22. CASE ChildGroup(t)
  BY <1>22 DEF ChildGroup
<1>23. CASE ChildExec(t) \/ ChildEnds(t)
  BY <1>23 DEF ChildExec, ChildEnds
<1>24. CASE CommandForks(t) \/ OthersEnd(t)
  BY <1>24 DEF CommandForks, OthersEnd
<1>25. CASE CommandWrites(t)
  BY <1>25 DEF CommandWrites, Contents
<1>26. CASE Tick(t)
  BY <1>26, IoTestAssumption DEF Tick
<1> QED
  BY <1>2, <1>3, <1>4, <1>5, <1>6, <1>7, <1>8, <1>9, <1>10, <1>11, <1>12, <1>13, <1>14, <1>15,
     <1>16, <1>17, <1>18, <1>19, <1>20, <1>21, <1>22, <1>23, <1>24, <1>25, <1>26
  DEF Step, TesterStep, TesterFault, CommandStep

\* A test goes on to its results, or fails, with its command's group killed, and
\* fails earlier only while there is no command.
LEMMA NextCommand ==
  ASSUME TypeOK, CommandInv, NEW t \in Testers, Step(t)
  PROVE  CommandInv'
<1> SUFFICES ASSUME NEW u \in Testers PROVE CommandOK(u)'
  BY DEF CommandInv
<1>0. CommandOK(u) /\ CommandOK(t)
  BY DEF CommandInv
<1> USE <1>0 DEF TypeOK, CommandOK, SetupPCs, cvars, pvars, fvars, Goto, Fail, End, Exit
<1>1. CASE Construct(t) \/ ConstructFails(t) \/ Killed(t)
  BY <1>1 DEF Construct, ConstructFails, Killed
<1>2. CASE WriteFile(t) \/ MakeInput(t)
  BY <1>2 DEF WriteFile, MakeInput
<1>3. CASE MakeInputOpen(t) \/ MakeInputFill(t)
  BY <1>3 DEF MakeInputOpen, MakeInputFill
<1>4. CASE MakeInputRename(t) \/ MakeInputLink(t)
  BY <1>4 DEF MakeInputRename, MakeInputLink
<1>5. CASE WrongOrder(t) \/ ExecuteFails(t) \/ Wait(t)
  BY <1>5 DEF WrongOrder, ExecuteFails, Wait
<1>6. CASE Run(t) \/ ReportTiming(t)
  BY <1>6, IoTestAssumption DEF Run, ReportTiming
<1>7. CASE Fork(t)
  BY <1>7 DEF Fork
<1>8. CASE Forked(t)
  BY <1>8 DEF Forked, ParentGroup
<1>9. CASE Reap(t) \/ LostTrack(t)
  BY <1>9 DEF Reap, LostTrack
<1>10. CASE Alarm(t)
  BY <1>10 DEF Alarm, Rearmed, KillGroup, Live, ChildStates
<1>11. CASE Finish(t)
  BY <1>11, IoTestAssumption DEF Finish, KillGroup, Live, TrialsDone
<1>12. CASE FailRemove(t) \/ Abort(t) \/ Return(t)
  BY <1>12 DEF FailRemove, Abort, Return
<1>13. CASE ChildGroup(t) \/ ChildExec(t) \/ ChildEnds(t)
  BY <1>13 DEF ChildGroup, ChildExec, ChildEnds
<1>14. CASE CommandForks(t) \/ OthersEnd(t)
  BY <1>14 DEF CommandForks, OthersEnd
<1>15. CASE CommandWrites(t) \/ Tick(t)
  BY <1>15 DEF CommandWrites, Tick
<1> QED
  BY <1>1, <1>2, <1>3, <1>4, <1>5, <1>6, <1>7, <1>8, <1>9, <1>10, <1>11, <1>12, <1>13, <1>14,
     <1>15
  DEF Step, TesterStep, TesterFault, CommandStep

\* Who has ended stays so.
LEMMA DeadStays ==
  ASSUME TypeOK, NEW t \in Testers, Step(t), NEW u \in Testers, Dead(u)
  PROVE  Dead(u)'
<1> USE DEF TypeOK, Dead, Live, cvars, pvars, fvars, Goto, Fail, End, Exit
<1>1. CASE Construct(t) \/ ConstructFails(t) \/ Killed(t)
  BY <1>1 DEF Construct, ConstructFails, Killed
<1>2. CASE WriteFile(t) \/ MakeInput(t) \/ MakeInputOpen(t) \/ MakeInputFill(t)
  BY <1>2 DEF WriteFile, MakeInput, MakeInputOpen, MakeInputFill
<1>3. CASE MakeInputRename(t) \/ MakeInputLink(t)
  BY <1>3 DEF MakeInputRename, MakeInputLink
<1>4. CASE WrongOrder(t) \/ ExecuteFails(t) \/ Wait(t) \/ Run(t) \/ ReportTiming(t)
  BY <1>4 DEF WrongOrder, ExecuteFails, Wait, Run, ReportTiming
<1>5. CASE Fork(t) \/ Forked(t) \/ Reap(t) \/ LostTrack(t)
  BY <1>5 DEF Fork, Forked, Reap, LostTrack
<1>6. CASE Alarm(t) \/ Finish(t)
  BY <1>6 DEF Alarm, Finish, KillGroup
<1>7. CASE FailRemove(t) \/ Abort(t) \/ Return(t)
  BY <1>7 DEF FailRemove, Abort, Return
<1>8. CASE ChildGroup(t) \/ ChildExec(t) \/ ChildEnds(t)
  BY <1>8 DEF ChildGroup, ChildExec, ChildEnds
<1>9. CASE CommandForks(t) \/ OthersEnd(t) \/ CommandWrites(t) \/ Tick(t)
  BY <1>9 DEF CommandForks, OthersEnd, CommandWrites, Tick
<1> QED
  BY <1>1, <1>2, <1>3, <1>4, <1>5, <1>6, <1>7, <1>8, <1>9
  DEF Step, TesterStep, TesterFault, CommandStep

-----------------------------------------------------------------------------
\* The steps that use the cache or an input file, or choose a run directory.
FileStep(t) ==
  \/ Construct(t) \/ WriteFile(t) \/ MakeInput(t) \/ MakeInputOpen(t) \/ MakeInputFill(t)
  \/ MakeInputRename(t) \/ MakeInputLink(t) \/ CommandWrites(t)

\* Where a tester may get by another step.
LaterPCs == TesterPCs \ SetupPCs

\* The other steps change no file and do not go back to setting one up.
LEMMA OtherSteps ==
  ASSUME TypeOK, CommandInv, NEW t \in Testers, Step(t), ~FileStep(t)
  PROVE  /\ UNCHANGED <<root, keep, want, cached, data, writable, input>> /\ dir' \subseteq dir
         /\ \A u \in Testers :
              \/ tpc'[u] = tpc[u] /\ nrun'[u] = nrun[u]
              \/ tpc'[u] \in LaterPCs /\ (tpc'[u] = "exec" /\ nrun'[u] = 0
                                            => tpc[u] = "setup" /\ nrun[u] = 0)
<1> USE DEF TypeOK, TesterPCs, SetupPCs, LaterPCs, cvars, pvars, fvars, Goto, Fail, End, Exit
<1>1. CASE ConstructFails(t) \/ Killed(t) \/ ExecuteFails(t) \/ LostTrack(t)
  BY <1>1 DEF ConstructFails, Killed, ExecuteFails, LostTrack
<1>2. CASE WrongOrder(t) \/ Run(t) \/ Wait(t)
  BY <1>2 DEF WrongOrder, Run, Wait
<1>3. CASE Fork(t) \/ Forked(t) \/ Reap(t)
  BY <1>3 DEF Fork, Forked, Reap
<1>4. CASE ReportTiming(t)
  BY <1>4 DEF ReportTiming
<1>5. CASE Alarm(t)
  BY <1>5 DEF Alarm
<1>6. CASE Finish(t)
  BY <1>6 DEF Finish, CommandInv, CommandOK
<1>7. CASE FailRemove(t)
  BY <1>7 DEF FailRemove, FailRemoves, RemoveAll
<1>8. CASE Abort(t) \/ Return(t)
  BY <1>8 DEF Abort, Return, RemoveAll
<1>9. CASE ChildGroup(t) \/ ChildExec(t) \/ ChildEnds(t)
  BY <1>9 DEF ChildGroup, ChildExec, ChildEnds
<1>10. CASE CommandForks(t) \/ OthersEnd(t) \/ Tick(t)
  BY <1>10 DEF CommandForks, OthersEnd, Tick
<1> QED
  BY <1>1, <1>2, <1>3, <1>4, <1>5, <1>6, <1>7, <1>8, <1>9, <1>10
  DEF Step, FileStep, TesterStep, TesterFault, CommandStep

\* A test uses the directory of -d only when the last one that did is dead.
LEMMA NextKeep ==
  ASSUME TypeOK, CommandInv, KeepInv, NEW t \in Testers, Step(t)
  PROVE  KeepInv'
<1> SUFFICES ASSUME NEW u \in Testers PROVE KeepOK(u)'
  BY DEF KeepInv
<1>0. KeepOK(u)
  BY DEF KeepInv
<1> USE <1>0 DEF TypeOK
<1>1. \A w \in Testers : Dead(w) => Dead(w)'
  BY DeadStays
<1>2. CASE Construct(t)
  <2>1. tpc'[u] = "new" => ~keep'[u] /\ u \notin dir'
    BY <1>2, IoTestAssumption DEF Construct, KeepOK, Goto
  <2>2. keep'[u] => u \notin dir'
    BY <1>2, IoTestAssumption DEF Construct, KeepOK, Goto
  <2>3. ASSUME NEW w \in Testers, keep'[u], keep'[w], u # w PROVE Dead(u)' \/ Dead(w)'
    <3>1. Dead(u) \/ Dead(w)
      BY <1>2, <2>3 DEF Construct, KeepOK, Goto, Dead
    <3> QED BY <1>1, <3>1
  <2> QED
    BY <2>1, <2>2, <2>3 DEF KeepOK
<1>3. CASE ~Construct(t)
  <2>1. keep' = keep /\ dir' \subseteq dir /\ (tpc'[u] = "new" => tpc[u] = "new")
    <3>1. CASE FileStep(t)
      BY <1>3, <3>1 DEF FileStep, WriteFile, MakeInput, MakeInputOpen, MakeInputFill,
                        MakeInputRename, MakeInputLink, CommandWrites, Goto, Fail, cvars, fvars
    <3>2. CASE ~FileStep(t)
      BY <3>2, OtherSteps DEF LaterPCs, SetupPCs
    <3> QED BY <3>1, <3>2
  <2> QED
    BY <1>1, <2>1 DEF KeepOK
<1> QED
  BY <1>2, <1>3

\* What a command can write to is a file that a test made in the directory they share.
LEMMA CommandReach ==
  ASSUME TypeOK, InputInv, NEW t \in Testers, CommandWrites(t)
  PROVE  \E w \in Testers : /\ input[DirOf(t)] = <<w, "own">> /\ DirOf(t) = DirOf(w)
                            /\ data' = [data EXCEPT ![<<w, "own">>] = "junk"]
  BY DirFacts DEF CommandWrites, InputInv, InputOK

\* Neither a test that makes a file of its own nor a command changes a file that is, or
\* may become, a cached one.
LEMMA CachedKept ==
  ASSUME TypeOK, InputInv, NEW t \in Testers,
         WriteFile(t) \/ MakeInputLink(t) \/ CommandWrites(t)
  PROVE  \A i \in Generated \cup {Before} : data'[i] = data[i] /\ (i \in writable' => i \in writable)
<1> SUFFICES ASSUME NEW i \in Generated \cup {Before}
             PROVE  data'[i] = data[i] /\ (i \in writable' => i \in writable)
  OBVIOUS
<1>1. i \in Inodes /\ \A w \in Testers : i # <<w, "own">>
  <2>1. CASE i = Before
    BY <2>1, InodeFacts
  <2>2. CASE i \in Generated
    <3>1. PICK u \in Testers : i = <<u, "gen">>
      BY <2>2 DEF Generated
    <3> QED BY <3>1, InodeFacts
  <2> QED BY <2>1, <2>2
<1>2. CASE WriteFile(t)
  BY <1>1, <1>2 DEF WriteFile, NewInput, TypeOK
<1>3. CASE MakeInputLink(t)
  BY <1>1, <1>3 DEF MakeInputLink, NewInput, TypeOK
<1>4. CASE CommandWrites(t)
  <2>1. PICK w \in Testers : data' = [data EXCEPT ![<<w, "own">>] = "junk"]
    BY <1>4, CommandReach
  <2> QED
    BY <1>1, <1>4, <2>1 DEF CommandWrites, TypeOK
<1> QED
  BY <1>2, <1>3, <1>4

\* Files of the cache enter a run directory read-only, and nobody else's file does.
LEMMA NextInput ==
  ASSUME TypeOK, CommandInv, InputInv, CacheInv, GenInv, NEW t \in Testers, Step(t)
  PROVE  InputInv'
<1> SUFFICES ASSUME NEW d \in Dirs PROVE InputOK(d)'
  BY DEF InputInv
<1>0. InputOK(d)
  BY DEF InputInv
<1> USE <1>0 DEF TypeOK, InputOK, DirOf
<1>1. CASE Construct(t)
  BY <1>1 DEF Construct, Goto
<1>2. CASE WriteFile(t)
  BY <1>2, InodeFacts, DirFacts DEF WriteFile, NewInput, Goto, Fail, Generated
<1>3. CASE MakeInput(t)
  BY <1>3 DEF MakeInput, Goto, fvars
<1>4. CASE MakeInputOpen(t)
  <2>1. input[d] # <<t, "gen">>
    BY <1>4 DEF MakeInputOpen, GenInv, GenOK
  <2> QED
    BY <1>4, <2>1 DEF MakeInputOpen, OpenTmp, Goto, cvars
<1>5. CASE MakeInputFill(t)
  BY <1>5 DEF MakeInputFill, Goto, Fail, cvars
<1>6. CASE MakeInputRename(t)
  BY <1>6 DEF MakeInputRename, ReadOnly, Goto, Fail, cvars
<1>7. CASE MakeInputLink(t)
  <2>1. cached \in Generated \cup {Before} /\ cached \notin writable
    BY <1>7 DEF MakeInputLink, GenInv, GenOK, CacheInv
  <2>2. \A w \in Testers : tpc[w] # "new" => tpc'[w] # "new"
    BY <1>7 DEF MakeInputLink, Goto, Fail
  <2>3. keep' = keep /\ root' = root
    BY <1>7 DEF MakeInputLink
  <2>4. CASE d # DirOf(t)
    <3>1. input'[d] = input[d]
      BY <1>7, <2>4 DEF MakeInputLink, NewInput
    <3>2. input[d] \in Generated \cup {Before} /\ input[d] \notin writable
            => input[d] \notin writable'
      BY <1>7, InodeFacts DEF MakeInputLink, Generated
    <3> QED BY <2>2, <2>3, <3>1, <3>2
  <2>5. CASE d = DirOf(t)
    BY <1>7, <2>1, <2>2, <2>3, <2>5 DEF MakeInputLink, NewInput, MustCopy
  <2> QED BY <2>4, <2>5
<1>8. CASE CommandWrites(t)
  BY <1>8 DEF CommandWrites, cvars
<1>9. CASE ~FileStep(t)
  BY <1>9, OtherSteps DEF LaterPCs, SetupPCs
<1> QED
  BY <1>1, <1>2, <1>3, <1>4, <1>5, <1>6, <1>7, <1>8, <1>9 DEF FileStep

\* Only the tester that generates a file writes to it, before it is cached.
LEMMA NextCache ==
  ASSUME TypeOK, CommandInv, InputInv, CacheInv, GenInv, NEW t \in Testers, Step(t)
  PROVE  CacheInv'
<1> USE InodeFacts DEF TypeOK, CacheInv
<1>1. CASE Construct(t)
  BY <1>1 DEF Construct
<1>2. CASE WriteFile(t)
  BY <1>2, DirFacts DEF WriteFile, NewInput, Generated
<1>3. CASE MakeInput(t)
  BY <1>3 DEF MakeInput, fvars
<1>4. CASE MakeInputOpen(t)
  BY <1>4 DEF MakeInputOpen, OpenTmp, GenInv, GenOK, Generated
<1>5. CASE MakeInputFill(t)
  BY <1>5 DEF MakeInputFill, GenInv, GenOK, Generated
<1>6. CASE MakeInputRename(t)
  BY <1>6 DEF MakeInputRename, ReadOnly, GenInv, GenOK, Generated
<1>7. CASE MakeInputLink(t)
  <2>1. \A d \in Dirs : input'[d] \in {input[d], cached, NoFile, <<t, "own">>}
    BY <1>7 DEF MakeInputLink, NewInput
  <2>2. <<t, "own">> \notin Generated /\ cached' = cached
    BY <1>7 DEF MakeInputLink, Generated
  <2> QED
    BY <1>7, <2>1, <2>2, CachedKept
<1>8. CASE CommandWrites(t)
  BY <1>8, CachedKept DEF CommandWrites
<1>9. CASE ~FileStep(t)
  BY <1>9, OtherSteps
<1> QED
  BY <1>1, <1>2, <1>3, <1>4, <1>5, <1>6, <1>7, <1>8, <1>9 DEF FileStep

\* A tester begins to generate only while no generated file is cached or used.
LEMMA NextGen ==
  ASSUME TypeOK, CommandInv, InputInv, CacheInv, GenInv, NEW t \in Testers, Step(t)
  PROVE  GenInv'
<1> SUFFICES ASSUME NEW u \in Testers PROVE GenOK(u)'
  BY DEF GenInv
<1>0. GenOK(u)
  BY DEF GenInv
<1> USE <1>0, InodeFacts DEF TypeOK, GenOK
<1>1. CASE Construct(t)
  BY <1>1 DEF Construct, Goto
<1>2. CASE WriteFile(t)
  BY <1>2, DirFacts DEF WriteFile, NewInput, Goto, Fail, CacheInv, Generated
<1>3. CASE MakeInput(t)
  BY <1>3 DEF MakeInput, CacheHit, Goto, fvars, CacheInv, Generated
<1>4. CASE MakeInputOpen(t)
  BY <1>4 DEF MakeInputOpen, OpenTmp, Goto, GenInv
<1>5. CASE MakeInputFill(t)
  BY <1>5 DEF MakeInputFill, Goto, Fail, GenInv
<1>6. CASE MakeInputRename(t)
  <2>1. <<t, "gen">> # NoFile /\ (u # t => <<u, "gen">> # <<t, "gen">>)
    OBVIOUS
  <2>4. data[<<t, "gen">>] = "full" /\ data' = data /\ input' = input
    BY <1>6 DEF MakeInputRename, GenInv
  <2>2. CASE u = t
    BY <1>6, <2>1, <2>4, <2>2 DEF MakeInputRename, Goto, Fail
  <2>3. CASE u # t
    BY <1>6, <2>1, <2>4, <2>3 DEF MakeInputRename, Goto, Fail
  <2> QED BY <2>2, <2>3
<1>7. CASE MakeInputLink(t)
  <2>1. \A d \in Dirs : input'[d] \in {input[d], cached, NoFile, <<t, "own">>}
    BY <1>7 DEF MakeInputLink, NewInput
  <2>2. cached' = cached /\ tpc'[u] \in {tpc[u], "setup", "fail"}
    BY <1>7 DEF MakeInputLink, Goto, Fail
  <2>3. <<u, "gen">> \in Generated
    BY DEF Generated
  <2> QED
    BY <1>7, <2>1, <2>2, <2>3, CachedKept DEF CacheInv
<1>8. CASE CommandWrites(t)
  <2>1. <<u, "gen">> \in Generated
    BY DEF Generated
  <2> QED
    BY <1>8, <2>1, CachedKept DEF CommandWrites, CacheInv
<1>9. CASE ~FileStep(t)
  BY <1>9, OtherSteps DEF LaterPCs, SetupPCs
<1> QED
  BY <1>1, <1>2, <1>3, <1>4, <1>5, <1>6, <1>7, <1>8, <1>9 DEF FileStep

\* A file that a test has written or copied is in its own run directory.
LEMMA OwnFile ==
  ASSUME InputInv, NEW d \in Dirs, NEW w \in Testers, input[d] = <<w, "own">>
  PROVE  d = DirOf(w)
<1>1. InputOK(d)
  BY DEF InputInv
<1>2. input[d] # NoFile /\ input[d] # Before
  BY InodeFacts
<1>3. input[d] \notin Generated
  BY InodeFacts DEF Generated
<1>4. \A v \in Testers : input[d] = <<v, "own">> => v = w
  BY InodeFacts
<1> QED
  BY <1>1, <1>2, <1>3, <1>4 DEF InputOK

\* Two tests that are not over have different directories and different files.
LEMMA Apart ==
  ASSUME TypeOK, KeepInv, InputInv, NEW t \in Testers, NEW u \in Testers, t # u,
         ~Dead(t), tpc[u] # "ended"
  PROVE  DirOf(t) # DirOf(u) /\ input[DirOf(u)] # <<t, "own">>
<1>1. ~(keep[t] /\ keep[u])
  BY DEF KeepInv, KeepOK, Dead
<1>2. DirOf(t) # DirOf(u)
  BY <1>1, DirFacts
<1> QED
  BY <1>2, OwnFile, DirFacts

\* No other test, and no command, changes the file a test has set up.
LEMMA NextWant ==
  ASSUME TypeOK, CommandInv, KeepInv, InputInv, CacheInv, GenInv, WantInv,
         NEW t \in Testers, Step(t)
  PROVE  WantInv'
<1> SUFFICES ASSUME NEW u \in Testers PROVE WantOK(u)'
  BY DEF WantInv
<1>0. WantOK(u) /\ DirOf(t) \in Dirs /\ DirOf(u) \in Dirs
  BY DirFacts DEF WantInv
<1> USE <1>0 DEF TypeOK, WantOK
<1>1. CASE Construct(t)
  BY <1>1 DEF Construct, Goto, DirOf, pvars
<1>2. CASE WriteFile(t)
  <2>1. CASE u = t
    BY <1>2, <2>1 DEF WriteFile, Goto, Fail
  <2>2. CASE u # t
    <3>1. tpc'[u] = tpc[u] /\ want'[u] = want[u] /\ nrun'[u] = nrun[u] /\ keep' = keep
      BY <1>2, <2>2 DEF WriteFile, Goto, Fail
    <3>2. ~Dead(t)
      BY <1>2 DEF WriteFile, Dead
    <3>3. tpc[u] # "ended" => /\ input'[DirOf(u)] = input[DirOf(u)]
                              /\ input[DirOf(u)] # NoFile
                                   => data'[input[DirOf(u)]] = data[input[DirOf(u)]]
      BY <1>2, <2>2, <3>2, Apart DEF WriteFile, NewInput
    <3> QED
      BY <3>1, <3>3 DEF DirOf
  <2> QED BY <2>1, <2>2
<1>3. CASE MakeInput(t)
  BY <1>3 DEF MakeInput, Goto, fvars, DirOf
<1>4. CASE MakeInputOpen(t)
  <2>1. input[DirOf(u)] # <<t, "gen">>
    BY <1>4 DEF MakeInputOpen, GenInv, GenOK
  <2> QED
    BY <1>4, <2>1 DEF MakeInputOpen, OpenTmp, Goto, DirOf, cvars
<1>5. CASE MakeInputFill(t)
  <2>1. input[DirOf(u)] # <<t, "gen">>
    BY <1>5 DEF MakeInputFill, GenInv, GenOK
  <2> QED
    BY <1>5, <2>1 DEF MakeInputFill, Goto, Fail, DirOf, cvars
<1>6. CASE MakeInputRename(t)
  BY <1>6 DEF MakeInputRename, Goto, Fail, DirOf, cvars
<1>7. CASE MakeInputLink(t)
  <2>1. keep' = keep
    BY <1>7 DEF MakeInputLink
  <2>2. CASE u = t
    <3>1. cached # NoFile /\ data[cached] = "full" /\ <<t, "own">> \in Inodes
          /\ <<t, "own">> # NoFile
      BY <1>7, InodeFacts DEF MakeInputLink, GenInv, GenOK
    <3> QED
      BY <1>7, <2>1, <2>2, <3>1 DEF MakeInputLink, NewInput, Goto, Fail, DirOf
  <2>3. CASE u # t
    <3>1. tpc'[u] = tpc[u] /\ want'[u] = want[u] /\ nrun'[u] = nrun[u]
      BY <1>7, <2>3 DEF MakeInputLink, Goto, Fail
    <3>2. ~Dead(t)
      BY <1>7 DEF MakeInputLink, Dead
    <3>3. tpc[u] # "ended" => /\ input'[DirOf(u)] = input[DirOf(u)]
                              /\ input[DirOf(u)] # NoFile
                                   => data'[input[DirOf(u)]] = data[input[DirOf(u)]]
      BY <1>7, <2>3, <3>2, Apart DEF MakeInputLink, NewInput
    <3> QED
      BY <2>1, <3>1, <3>3 DEF DirOf
  <2> QED BY <2>2, <2>3
<1>8. CASE CommandWrites(t)
  <2>1. PICK w \in Testers : /\ input[DirOf(t)] = <<w, "own">> /\ DirOf(t) = DirOf(w)
                             /\ data' = [data EXCEPT ![<<w, "own">>] = "junk"]
    BY <1>8, CommandReach
  <2>2. UNCHANGED <<tpc, want, nrun, keep, input>>
    BY <1>8 DEF CommandWrites, cvars
  <2>3. CASE u = t
    BY <1>8, <2>2, <2>3 DEF CommandWrites, CommandInv, CommandOK, DirOf
  <2>4. CASE u # t
    <3>1. ~Dead(t)
      BY <1>8 DEF CommandWrites, Dead, Live
    <3>2. tpc[u] # "ended" => input[DirOf(u)] # <<w, "own">>
      BY <2>1, <2>4, <3>1, Apart, OwnFile
    <3> QED
      BY <2>1, <2>2, <3>2 DEF DirOf
  <2> QED BY <2>3, <2>4
<1>9. CASE ~FileStep(t)
  BY <1>9, OtherSteps DEF LaterPCs, SetupPCs, DirOf
<1> QED
  BY <1>1, <1>2, <1>3, <1>4, <1>5, <1>6, <1>7, <1>8, <1>9 DEF FileStep

-----------------------------------------------------------------------------
\* The invariant is inductive.
LEMMA Invariance == Spec => []IInv
<1>1. IInv /\ [Next]_vars => IInv'
  <2> SUFFICES ASSUME IInv, [Next]_vars PROVE IInv'
    OBVIOUS
  <2>1. ASSUME NEW t \in Testers, Step(t) PROVE IInv'
    BY <2>1, NextType, NextCommand, NextKeep, NextInput, NextCache, NextGen, NextWant DEF IInv
  <2>2. CASE UNCHANGED vars
    BY <2>2 DEF vars, IInv, TypeOK, CommandInv, CommandOK, KeepInv, KeepOK, Dead, InputInv,
                InputOK, CacheInv, GenInv, GenOK, WantInv, WantOK, DirOf
  <2> QED
    BY <2>1, <2>2 DEF Next, AllOver, Step
<1> QED
  BY InitInv, <1>1, PTL DEF Spec

\* For every set of tests, however many generate the file at the same time, fail or
\* are killed, the cache holds no wrong bytes of the right size and a command starts
\* with the complete file its test asked for.
THEOREM FilesAreRight == Spec => []FilesRight
<1>1. IInv => FilesRight
  <2> SUFFICES ASSUME IInv PROVE FilesRight
    OBVIOUS
  <2>1. CacheRight
    BY DEF IInv, CacheInv, CacheRight
  <2>2. InputRight
    BY DEF IInv, WantInv, WantOK, InputRight
  <2> QED
    BY <2>1, <2>2 DEF IInv, FilesRight
<1> QED
  BY <1>1, Invariance, PTL

\* For every set of tests, whether a command ends, fails or runs out of time, no process
\* of it goes on running when its test has ended, unless the test was killed or lost
\* track of it.
THEOREM CommandsLeaveNothing == Spec => []NothingLeft
<1>1. IInv => NothingLeft
  BY DEF IInv, CommandInv, CommandOK, NothingLeft
<1> QED
  BY <1>1, Invariance, PTL

\* A status that execute() does not report is an exit with 0.
LEMMA ReportsNone ==
  ASSUME NEW s \in Statuses \cup {NoStatus}, Reports(s) = "none"
  PROVE  s = Exited(0)
<1>1. PICK n \in Int : s = Exited(n) \/ (s = Signaled(n) /\ n \in {SIGKILL, SIGXFSZ})
  BY DEF Statuses, NoStatus, SIGKILL, SIGXFSZ, NSIG
<1>2. CASE s = Exited(n)
  BY <1>2 DEF Reports, SignalOf, ExitStatus, Exited, SIGXFSZ, NSIG
<1>3. CASE s = Signaled(n) /\ n \in {SIGKILL, SIGXFSZ}
  BY <1>3 DEF Reports, SignalOf, Signaled, SIGKILL, SIGXFSZ
<1> QED
  BY <1>1, <1>2, <1>3

\* Only the end of execute() lets a test see results.
LEMMA ResultsStep ==
  ASSUME TypeOK, NEW t \in Testers, Step(t), NEW u \in Testers,
         tpc[u] # "results", tpc'[u] = "results"
  PROVE  u = t /\ Finish(t)
<1> USE DEF TypeOK, cvars, pvars, fvars, Goto, Fail, End, Exit
<1>1. CASE FileStep(t)
  BY <1>1 DEF FileStep, Construct, WriteFile, MakeInput, MakeInputOpen, MakeInputFill,
              MakeInputRename, MakeInputLink, CommandWrites
<1>2. CASE TesterFault(t)
  BY <1>2 DEF TesterFault, ConstructFails, WrongOrder, ExecuteFails, LostTrack, Killed
<1>3. CASE Run(t) \/ Fork(t) \/ Forked(t) \/ Wait(t) \/ Reap(t) \/ ReportTiming(t)
  BY <1>3 DEF Run, Fork, Forked, Wait, Reap, ReportTiming
<1>4. CASE FailRemove(t) \/ Abort(t) \/ Return(t)
  BY <1>4 DEF FailRemove, Abort, Return
<1>5. CASE Finish(t)
  BY <1>5 DEF Finish
<1>6. CASE Alarm(t) \/ Tick(t)
  BY <1>6 DEF Alarm, Tick
<1>7. CASE CommandStep(t)
  BY <1>1, <1>7 DEF CommandStep, FileStep, ChildGroup, ChildExec, CommandForks, ChildEnds, OthersEnd
<1> QED
  BY <1>1, <1>2, <1>3, <1>4, <1>5, <1>6, <1>7 DEF Step, FileStep, TesterStep

\* A test sees the results of a command that has exited with 0 and has been waited
\* for, and whose group has been killed; no alarm comes later.
THEOREM ResultsAreRight == Spec => ResultsRight
<1> DEFINE Right == \A t \in Testers :
                      tpc[t] # "results" /\ tpc'[t] = "results" =>
                        /\ status[t] = Exited(0) /\ child'[t] = "reaped"
                        /\ others'[t] # "run" /\ ~armed'[t]
<1>1. IInv /\ [Next]_vars => [Right]_vars
  <2> SUFFICES ASSUME IInv, Next,
                      NEW u \in Testers, tpc[u] # "results", tpc'[u] = "results"
               PROVE  /\ status[u] = Exited(0) /\ child'[u] = "reaped"
                      /\ others'[u] # "run" /\ ~armed'[u]
    OBVIOUS
  <2>1. PICK t \in Testers : Step(t)
    BY DEF Next, AllOver, vars, Step
  <2>2. u = t /\ Finish(t)
    BY <2>1, ResultsStep DEF IInv
  <2>3. Reports(status[u]) = "none" /\ status[u] \in Statuses \cup {NoStatus}
    BY <2>2 DEF Finish, Fail, Goto, IInv, TypeOK
  <2>4. child[u] = "reaped" /\ group[u]
    BY <2>2 DEF Finish, IInv, CommandInv, CommandOK
  <2>5. child'[u] = "reaped" /\ others'[u] # "run"
    BY <2>2, <2>4 DEF Finish, KillGroup, Live, IInv, TypeOK
  <2>6. ~armed'[u]
    BY <2>2 DEF Finish, IInv, TypeOK
  <2> QED
    BY <2>3, <2>5, <2>6, ReportsNone
<1> QED
  BY <1>1, Invariance, PTL DEF Spec, ResultsRight

\* Whichever way a test exits, its own run directory is gone afterwards, if its command
\* is.
THEOREM RunDirIsRemoved == Spec => RunDirRemoved
<1> DEFINE Removed == \A t \in Testers :
                        /\ tpc[t] # "ended" /\ tpc'[t] = "ended"
                        /\ cause'[t] \notin {"killed", "library"}
                        /\ child[t] \notin Live /\ others[t] = "none"
                        => t \notin dir'
<1>1. IInv /\ [Next]_vars => [Removed]_vars
  <2> SUFFICES ASSUME IInv, Next, NEW u \in Testers, tpc[u] # "ended", tpc'[u] = "ended",
                      cause'[u] \notin {"killed", "library"},
                      child[u] \notin Live, others[u] = "none"
               PROVE  u \notin dir'
    OBVIOUS
  <2>1. PICK t \in Testers : Step(t)
    BY DEF Next, AllOver, vars, Step
  <2>2. TypeOK /\ (keep[u] \/ tpc[u] = "new" => u \notin dir)
    BY DEF IInv, KeepInv, KeepOK
  <2> USE <2>2 DEF TypeOK, cvars, pvars, fvars, Goto, Fail, End, Exit
  <2>3. CASE FileStep(t)
    BY <2>3 DEF FileStep, Construct, WriteFile, MakeInput, MakeInputOpen, MakeInputFill,
                MakeInputRename, MakeInputLink, CommandWrites
  <2>4. CASE TesterFault(t)
    BY <2>4 DEF TesterFault, ConstructFails, WrongOrder, ExecuteFails, LostTrack, Killed
  <2>5. CASE Run(t) \/ Fork(t) \/ Forked(t) \/ Wait(t) \/ Reap(t) \/ ReportTiming(t) \/ Finish(t)
    BY <2>5 DEF Run, Fork, Forked, Wait, Reap, ReportTiming, Finish
  <2>6. CASE FailRemove(t)
    BY <2>6 DEF FailRemove, FailRemoves, RemoveAll
  <2>7. CASE Abort(t) \/ Return(t)
    BY <2>7 DEF Abort, Return, RemoveAll
  <2>8. CASE Alarm(t) \/ Tick(t)
    BY <2>8 DEF Alarm, Tick
  <2>9. CASE CommandStep(t)
    BY <2>3, <2>9 DEF CommandStep, FileStep, ChildGroup, ChildExec, CommandForks, ChildEnds,
                      OthersEnd
  <2> QED
    BY <2>1, <2>3, <2>4, <2>5, <2>6, <2>7, <2>8, <2>9 DEF Step, FileStep, TesterStep
<1> QED
  BY <1>1, Invariance, PTL DEF Spec, RunDirRemoved
=============================================================================
