--------------------------- MODULE ShTesterProofs ---------------------------
(***************************************************************************)
(* Proofs about ShTester: for every time limit, set of jobs and number of  *)
(* rounds, and whichever calls fail, the harness signals only its own      *)
(* governor, run() returns the truth about the shell, and kill_all()       *)
(* leaves nothing behind.                                                  *)
(*                                                                         *)
(* None of this is inductive alone.  What the tester believes is right     *)
(* because a report is written once, by a governor that is past its fork,  *)
(* about a shell that has been reaped (StageInv, ReportInv, BeliefInv);    *)
(* what kill_all() leaves is nothing because a list without processes      *)
(* stays true: only a process that runs can fork (KillInv).                *)
(***************************************************************************)
EXTENDS ShTester, TLAPS

\* How far the governor is: until its fork() there is no process on the terminal,
\* and until its loop no report.
StageInv ==
  /\ tpc = "setup" => gpc = "none"
  /\ gpc \in {"none", "start", "setup", "fork"} => \A p \in Procs : proc[p] = "none"
  /\ gpc \in {"none", "start", "setup", "fork", "pgrp"} => reports = {} /\ status = "none"

\* A report, read or not, is the status of the shell, which has been waited for.
ReportInv ==
  /\ proc["shell"] = "zombie" => shstatus \in Statuses
  /\ reports # {} \/ status # "none" => proc["shell"] = "none" /\ shstatus \in Statuses
  /\ reports \subseteq {shstatus}
  /\ status # "none" => status = shstatus /\ reports = {}

\* What the tester believes: running_ until it has read a report, and it goes on
\* only after the report of an exit.
BeliefInv ==
  /\ gpc # "none" /\ status = "none" => running
  /\ tpc = "read" => running
  /\ tpc \in {"reap", "decide", "interrupt"} /\ ~running => status = "exited"
  /\ tpc \in {"main", "destroy", "destroywait", "remove"} =>
       ~running /\ NoneLeft /\ status = "exited"

\* kill_all(): once ps has listed nothing, there is nothing that could fork.
KillInv ==
  gpc = "kill" /\ targets = {} /\ ~listfailed => \A p \in Procs : proc[p] \notin {"pre", "run"}

\* The inductive invariant.
IInv == /\ TypeOK /\ NoStrayKill /\ ForegroundSet
        /\ StageInv /\ ReportInv /\ BeliefInv /\ KillInv /\ NothingLeft

-----------------------------------------------------------------------------
\* The types, in two parts that are proved apart.
FlagTypes == /\ running \in BOOLEAN /\ governor_pid \in BOOLEAN /\ stopping \in BOOLEAN
             /\ woken \in BOOLEAN /\ listfailed \in BOOLEAN /\ dir \in BOOLEAN
OtherTypes ==
  /\ tpc \in TesterPCs /\ tnext \in {"decide", "interrupt"}
  /\ status \in Statuses \cup {"none"} /\ afters \in [Times -> Nat] /\ clock \in Times
  /\ gpc \in GovernorPCs /\ gtester \in {"none", "tester", "init"}
  /\ reports \subseteq Statuses /\ targets \subseteq Procs /\ round \in 0 .. ROUNDS - 1
  /\ proc \in [Procs -> ProcStates] /\ shstatus \in Statuses \cup {"none"}
  /\ fg \in Procs \cup {"governor"}

\* The invariant holds when a test starts.
LEMMA InitInv == Init => IInv
<1> SUFFICES ASSUME Init PROVE IInv
  OBVIOUS
<1>1. "shell" \in Procs /\ proc["shell"] = "none"
  BY DEF Init, Procs
<1>2. FlagTypes
  BY DEF Init, FlagTypes
<1>3. OtherTypes
  BY TimeAssumption DEF Init, OtherTypes, TesterPCs, GovernorPCs, ProcStates, Times
<1>4. TypeOK
  BY <1>2, <1>3 DEF TypeOK, FlagTypes, OtherTypes
<1> QED
  BY <1>1, <1>4 DEF Init, IInv, NoStrayKill, ForegroundSet, StageInv, ReportInv, BeliefInv,
                    KillInv, NothingLeft, TesterAlive

\* Every step keeps the flags Boolean.
LEMMA NextFlags ==
  ASSUME FlagTypes, [Next]_vars
  PROVE  FlagTypes'
<1> USE DEF FlagTypes
<1>1. CASE Run \/ RunFails \/ MainEnds \/ DecideAfter \/ DecideElse
  BY <1>1 DEF Run, RunFails, MainEnds, DecideAfter, DecideElse, gvars
<1>2. CASE CheckReap \/ WaitGovernor
  BY <1>2 DEF CheckReap, WaitGovernor, ForgetGovernor
<1>3. CASE CheckRead
  BY <1>3 DEF CheckRead, gvars
<1>4. CASE Interrupt
  BY <1>4 DEF Interrupt, ControlC, ShellSignaled
<1>5. CASE StopGovernor
  BY <1>5 DEF StopGovernor, Sigterm
<1>6. CASE RemoveDir \/ TesterCrash
  BY <1>6 DEF RemoveDir, TesterCrash
<1>7. CASE GovernorStart \/ GovernorSetup \/ GovernorPoll \/ GovernorFork \/ GovernorPgrp
  BY <1>7 DEF GovernorStart, GovernorSetup, GovernorPoll, GovernorFork, GovernorPgrp, tvars
<1>8. CASE GovernorLoop \/ GovernorList \/ GovernorKill
  BY <1>8 DEF GovernorLoop, GovernorList, GovernorKill, tvars
<1>9. CASE GovernorRemove
  BY <1>9 DEF GovernorRemove, RemoveRunDir, tvars
<1>10. CASE ShellStep
  BY <1>10 DEF ShellStep, ShellExec, ShellExit, JobFork, JobExit, ShellForeground, tvars, gvars
<1>11. CASE Tick \/ UNCHANGED vars
  BY <1>11 DEF Tick, vars, tvars, gvars
<1> QED
  BY <1>1, <1>2, <1>3, <1>4, <1>5, <1>6, <1>7, <1>8, <1>9, <1>10, <1>11
  DEF Next, TesterStep, GovernorStep, AllOver

\* Every step keeps the other types.
LEMMA NextOthers ==
  ASSUME OtherTypes, ReportInv, [Next]_vars
  PROVE  OtherTypes'
<1> USE DEF OtherTypes, TesterPCs, GovernorPCs
<1>1. "shell" \in Procs
  BY DEF Procs
<1>2. CASE Run
  BY <1>2, TimeAssumption DEF Run, pvars, Times
<1>3. CASE RunFails \/ MainEnds
  BY <1>3 DEF RunFails, MainEnds, pvars, gvars
<1>4. CASE CheckReap
  BY <1>4 DEF CheckReap, pvars
<1>5. CASE CheckRead
  BY <1>5 DEF CheckRead, Acceptable, pvars, gvars
<1>6. CASE DecideAfter
  <2>1. afters' \in [Times -> Nat]
    <3>1. PICK t \in Times : t \in Due /\ afters' = [afters EXCEPT ![t] = @ - 1]
      BY <1>6 DEF DecideAfter, Due
    <3>2. afters[t] - 1 \in Nat
      BY <3>1 DEF Due
    <3> QED BY <3>1, <3>2
  <2> QED
    BY <1>6, <2>1 DEF DecideAfter, pvars, gvars
<1>7. CASE DecideElse
  BY <1>7 DEF DecideElse, pvars, gvars
<1>8. CASE Interrupt
  BY <1>8, <1>1 DEF Interrupt, ControlC, ShellSignaled, TesterDies, Statuses, ProcStates
<1>9. CASE StopGovernor
  BY <1>9 DEF StopGovernor, Sigterm, pvars
<1>10. CASE WaitGovernor
  BY <1>10 DEF WaitGovernor, pvars
<1>11. CASE RemoveDir \/ TesterCrash
  BY <1>11 DEF RemoveDir, TesterCrash, TesterDies, pvars
<1>12. CASE GovernorStart \/ GovernorSetup \/ GovernorPoll
  BY <1>12 DEF GovernorStart, GovernorSetup, GovernorPoll, Getppid, ExitState, tvars, pvars
<1>13. CASE GovernorFork \/ GovernorPgrp
  BY <1>13, <1>1 DEF GovernorFork, GovernorPgrp, TakeForeground, ProcStates, tvars
<1>14. CASE GovernorLoop
  BY <1>14, <1>1, TimeAssumption DEF GovernorLoop, Reaped, ProcStates, ReportInv, tvars
<1>15. CASE GovernorList
  BY <1>15 DEF GovernorList, Listed, tvars, pvars
<1>16. CASE GovernorKill
  <2>1. proc' \in [Procs -> ProcStates] /\ shstatus' \in Statuses \cup {"none"}
    BY <1>16 DEF GovernorKill, ProcStates, Statuses
  <2>2. round' \in 0 .. ROUNDS - 1
    BY <1>16, TimeAssumption DEF GovernorKill, LastRound
  <2> QED
    BY <1>16, <2>1, <2>2 DEF GovernorKill, tvars
<1>17. CASE GovernorRemove
  BY <1>17 DEF GovernorRemove, ExitState, tvars, pvars
<1>18. CASE ShellExec \/ ShellExit
  BY <1>18, <1>1 DEF ShellExec, ShellExit, ProcStates, tvars, gvars
<1>19. CASE JobFork \/ JobExit \/ ShellForeground
  BY <1>19 DEF JobFork, JobExit, ShellForeground, ProcStates, Procs, tvars, gvars
<1>20. CASE Tick
  BY <1>20, TimeAssumption DEF Tick, Times, tvars, gvars, pvars
<1>21. CASE UNCHANGED vars
  BY <1>21 DEF vars
<1> QED
  BY <1>2, <1>3, <1>4, <1>5, <1>6, <1>7, <1>8, <1>9, <1>10, <1>11, <1>12, <1>13, <1>14,
     <1>15, <1>16, <1>17, <1>18, <1>19, <1>20, <1>21
  DEF Next, TesterStep, GovernorStep, ShellStep, AllOver

\* Every step keeps the types.
LEMMA NextType == TypeOK /\ ReportInv /\ [Next]_vars => TypeOK'
  BY NextFlags, NextOthers DEF TypeOK, FlagTypes, OtherTypes

-----------------------------------------------------------------------------
\* governor_pid_ is given up when the governor is waited for, and the governor can
\* only vanish otherwise once the tester is dead.
LEMMA NextNoStrayKill == TypeOK /\ NoStrayKill /\ StageInv /\ [Next]_vars => NoStrayKill'
<1> SUFFICES ASSUME TypeOK, NoStrayKill, StageInv, [Next]_vars PROVE NoStrayKill'
  OBVIOUS
<1> USE DEF NoStrayKill, TesterAlive
<1>1. CASE Run \/ RunFails \/ MainEnds \/ CheckRead \/ DecideAfter \/ DecideElse
  BY <1>1 DEF Run, RunFails, MainEnds, CheckRead, DecideAfter, DecideElse, gvars, TypeOK
<1>2. CASE CheckReap \/ WaitGovernor
  BY <1>2 DEF CheckReap, WaitGovernor, ForgetGovernor
<1>3. CASE Interrupt \/ RemoveDir \/ TesterCrash
  BY <1>3 DEF Interrupt, ControlC, ShellSignaled, RemoveDir, TesterCrash, TesterDies
<1>4. CASE StopGovernor
  BY <1>4 DEF StopGovernor, Sigterm
<1>5. CASE GovernorStep
  BY <1>5 DEF GovernorStep, GovernorStart, GovernorSetup, GovernorFork, GovernorPgrp,
              GovernorLoop, GovernorPoll, GovernorList, GovernorKill, GovernorRemove,
              ExitState, tvars
<1>6. CASE ShellStep \/ Tick \/ UNCHANGED vars
  BY <1>6 DEF ShellStep, ShellExec, ShellExit, JobFork, JobExit, ShellForeground, Tick,
              vars, tvars, gvars
<1> QED
  BY <1>1, <1>2, <1>3, <1>4, <1>5, <1>6 DEF Next, TesterStep, AllOver

\* The foreground is taken from the governor by whoever comes first, and nobody
\* gives it back.
LEMMA NextForegroundSet ==
  TypeOK /\ StageInv /\ ForegroundSet /\ [Next]_vars => ForegroundSet'
<1> SUFFICES ASSUME TypeOK, StageInv, ForegroundSet, [Next]_vars PROVE ForegroundSet'
  OBVIOUS
<1> USE DEF ForegroundSet, GovernorAlive
<1>1. "shell" \in Procs /\ "shell" \notin Jobs /\ "governor" \notin Jobs
  BY JobsAssumption DEF Procs
<1>2. proc \in [Procs -> ProcStates]
  BY DEF TypeOK
<1>3. CASE Run \/ RunFails \/ MainEnds \/ CheckRead \/ DecideAfter \/ DecideElse
  BY <1>3, <1>1 DEF Run, RunFails, MainEnds, CheckRead, DecideAfter, DecideElse, gvars, pvars,
              StageInv, TypeOK
<1>4. CASE CheckReap \/ WaitGovernor
  BY <1>4 DEF CheckReap, WaitGovernor, pvars
<1>5. CASE Interrupt
  BY <1>5, <1>1, <1>2 DEF Interrupt, ControlC, ShellSignaled, TesterDies
<1>6. CASE RemoveDir \/ TesterCrash \/ StopGovernor
  BY <1>6 DEF RemoveDir, TesterCrash, TesterDies, StopGovernor, Sigterm, pvars
<1>7. CASE GovernorStart \/ GovernorSetup \/ GovernorPoll \/ GovernorList \/ GovernorRemove
  BY <1>7 DEF GovernorStart, GovernorSetup, GovernorPoll, GovernorList, GovernorRemove,
              ExitState, pvars
<1>8. CASE GovernorFork
  BY <1>8, <1>1, <1>2 DEF GovernorFork
<1>9. CASE GovernorPgrp
  BY <1>9, <1>1, <1>2 DEF GovernorPgrp, TakeForeground, TypeOK
<1>10. CASE GovernorLoop
  BY <1>10, <1>1, <1>2 DEF GovernorLoop, Reaped
<1>11. CASE GovernorKill
  BY <1>11, <1>1, <1>2 DEF GovernorKill
<1>12. CASE ShellExec \/ ShellExit
  BY <1>12, <1>1, <1>2 DEF ShellExec, ShellExit, gvars
<1>13. CASE JobFork \/ JobExit
  BY <1>13, <1>1, <1>2 DEF JobFork, JobExit, gvars, Procs
<1>14. CASE ShellForeground
  BY <1>14, <1>1 DEF ShellForeground, gvars
<1>15. CASE Tick \/ UNCHANGED vars
  BY <1>15 DEF Tick, vars, gvars, pvars
<1> QED
  BY <1>3, <1>4, <1>5, <1>6, <1>7, <1>8, <1>9, <1>10, <1>11, <1>12, <1>13, <1>14, <1>15
  DEF Next, TesterStep, GovernorStep, ShellStep, AllOver

\* The governor goes forward only, and before its fork nothing runs that could fork,
\* exit or be reported.
LEMMA NextStageInv ==
  TypeOK /\ StageInv /\ [Next]_vars => StageInv'
<1> SUFFICES ASSUME TypeOK, StageInv, [Next]_vars PROVE StageInv'
  OBVIOUS
<1> USE DEF StageInv
<1>1. "shell" \in Procs /\ "shell" \notin Jobs
  BY JobsAssumption DEF Procs
<1>2. proc \in [Procs -> ProcStates]
  BY DEF TypeOK
<1>3. CASE Run \/ RunFails \/ MainEnds
  BY <1>3 DEF Run, RunFails, MainEnds, gvars, pvars
<1>4. CASE CheckRead
  BY <1>4 DEF CheckRead, gvars, pvars, TypeOK
<1>5. CASE DecideAfter \/ DecideElse
  BY <1>5 DEF DecideAfter, DecideElse, gvars, pvars
<1>6. CASE CheckReap \/ WaitGovernor
  BY <1>6 DEF CheckReap, WaitGovernor, pvars, TypeOK
<1>7. CASE Interrupt
  BY <1>7, <1>1, <1>2 DEF Interrupt, ControlC, ShellSignaled, TesterDies
<1>8. CASE RemoveDir \/ TesterCrash
  BY <1>8 DEF RemoveDir, TesterCrash, TesterDies, pvars
<1>9. CASE StopGovernor
  BY <1>9 DEF StopGovernor, Sigterm, pvars
<1>10. CASE GovernorStart \/ GovernorSetup \/ GovernorPoll \/ GovernorRemove
  BY <1>10 DEF GovernorStart, GovernorSetup, GovernorPoll, GovernorRemove, ExitState, tvars, pvars
<1>11. CASE GovernorFork
  BY <1>11, <1>1, <1>2 DEF GovernorFork, tvars
<1>12. CASE GovernorPgrp
  BY <1>12 DEF GovernorPgrp, tvars
<1>13. CASE GovernorLoop
  BY <1>13, <1>1, <1>2 DEF GovernorLoop, Reaped, tvars
<1>14. CASE GovernorList
  BY <1>14 DEF GovernorList, Listed, tvars, pvars
<1>15. CASE GovernorKill
  BY <1>15, <1>1, <1>2 DEF GovernorKill, tvars
<1>16. CASE ShellExec \/ ShellExit
  BY <1>16, <1>1, <1>2 DEF ShellExec, ShellExit, tvars, gvars
<1>17. CASE JobFork \/ JobExit
  BY <1>17, <1>1, <1>2 DEF JobFork, JobExit, Procs, tvars, gvars
<1>18. CASE ShellForeground \/ Tick \/ UNCHANGED vars
  BY <1>18 DEF ShellForeground, Tick, vars, tvars, gvars, pvars
<1> QED
  BY <1>3, <1>4, <1>5, <1>6, <1>7, <1>8, <1>9, <1>10, <1>11, <1>12, <1>13, <1>14, <1>15,
     <1>16, <1>17, <1>18
  DEF Next, TesterStep, GovernorStep, ShellStep, AllOver

\* A shell that has been reported has been reaped, so it cannot exit again, and the
\* governor does not fork another.
LEMMA NextReportInv ==
  TypeOK /\ StageInv /\ ReportInv /\ [Next]_vars => ReportInv'
<1> SUFFICES ASSUME TypeOK, StageInv, ReportInv, [Next]_vars PROVE ReportInv'
  OBVIOUS
<1> USE DEF ReportInv
<1>1. "shell" \in Procs /\ "shell" \notin Jobs
  BY JobsAssumption DEF Procs
<1>2. proc \in [Procs -> ProcStates]
  BY DEF TypeOK
<1>3. CASE Run \/ RunFails \/ MainEnds
  BY <1>3 DEF Run, RunFails, MainEnds, gvars, pvars
<1>4. CASE CheckRead
  BY <1>4 DEF CheckRead, gvars, pvars
<1>5. CASE DecideAfter \/ DecideElse
  BY <1>5 DEF DecideAfter, DecideElse, gvars, pvars
<1>6. CASE CheckReap \/ WaitGovernor
  BY <1>6 DEF CheckReap, WaitGovernor, pvars
<1>7. CASE Interrupt
  BY <1>7, <1>1, <1>2 DEF Interrupt, ControlC, ShellSignaled, TesterDies, Statuses
<1>8. CASE RemoveDir \/ TesterCrash
  BY <1>8 DEF RemoveDir, TesterCrash, TesterDies, pvars
<1>9. CASE StopGovernor
  BY <1>9 DEF StopGovernor, Sigterm, pvars
<1>10. CASE GovernorStart \/ GovernorSetup \/ GovernorPoll \/ GovernorRemove
  BY <1>10 DEF GovernorStart, GovernorSetup, GovernorPoll, GovernorRemove, ExitState, tvars, pvars
<1>11. CASE GovernorFork
  BY <1>11, <1>1, <1>2 DEF GovernorFork, tvars, StageInv
<1>12. CASE GovernorPgrp
  BY <1>12 DEF GovernorPgrp, tvars
<1>13. CASE GovernorLoop
  BY <1>13, <1>1, <1>2 DEF GovernorLoop, Reaped, tvars
<1>14. CASE GovernorList
  BY <1>14 DEF GovernorList, Listed, tvars, pvars
<1>15. CASE GovernorKill
  BY <1>15, <1>1, <1>2 DEF GovernorKill, tvars
<1>16. CASE ShellExec \/ ShellExit
  BY <1>16, <1>1, <1>2 DEF ShellExec, ShellExit, tvars, gvars
<1>17. CASE JobFork \/ JobExit
  BY <1>17, <1>1, <1>2 DEF JobFork, JobExit, Procs, tvars, gvars
<1>18. CASE ShellForeground \/ Tick \/ UNCHANGED vars
  BY <1>18 DEF ShellForeground, Tick, vars, tvars, gvars, pvars
<1> QED
  BY <1>3, <1>4, <1>5, <1>6, <1>7, <1>8, <1>9, <1>10, <1>11, <1>12, <1>13, <1>14, <1>15,
     <1>16, <1>17, <1>18
  DEF Next, TesterStep, GovernorStep, ShellStep, AllOver

\* running_ is cleared by the report only, and only the report of an exit lets the
\* tester go on.
LEMMA NextBeliefInv ==
  TypeOK /\ StageInv /\ BeliefInv /\ [Next]_vars => BeliefInv'
<1> SUFFICES ASSUME TypeOK, StageInv, BeliefInv, [Next]_vars PROVE BeliefInv'
  OBVIOUS
<1> USE DEF BeliefInv, NoneLeft
<1>1. "shell" \in Procs /\ "shell" \notin Jobs
  BY JobsAssumption DEF Procs
<1>2. proc \in [Procs -> ProcStates]
  BY DEF TypeOK
<1>3. CASE Run \/ RunFails \/ MainEnds
  BY <1>3 DEF Run, RunFails, MainEnds, gvars, pvars
<1>4. CASE CheckRead
  BY <1>4 DEF CheckRead, gvars, pvars, Acceptable, Statuses, TypeOK
<1>5. CASE DecideAfter \/ DecideElse
  BY <1>5 DEF DecideAfter, DecideElse, gvars, pvars
<1>6. CASE CheckReap \/ WaitGovernor
  BY <1>6 DEF CheckReap, WaitGovernor, pvars, TypeOK
<1>7. CASE Interrupt
  BY <1>7, <1>1, <1>2 DEF Interrupt, ControlC, ShellSignaled, TesterDies
<1>8. CASE RemoveDir \/ TesterCrash
  BY <1>8 DEF RemoveDir, TesterCrash, TesterDies, pvars
<1>9. CASE StopGovernor
  BY <1>9 DEF StopGovernor, Sigterm, pvars
<1>10. CASE GovernorStart \/ GovernorSetup \/ GovernorPoll \/ GovernorRemove
  BY <1>10 DEF GovernorStart, GovernorSetup, GovernorPoll, GovernorRemove, ExitState, tvars, pvars
<1>11. CASE GovernorFork
  BY <1>11, <1>1, <1>2 DEF GovernorFork, tvars
<1>12. CASE GovernorPgrp
  BY <1>12 DEF GovernorPgrp, tvars
<1>13. CASE GovernorLoop
  BY <1>13, <1>1, <1>2 DEF GovernorLoop, Reaped, tvars
<1>14. CASE GovernorList
  BY <1>14 DEF GovernorList, Listed, tvars, pvars
<1>15. CASE GovernorKill
  BY <1>15, <1>1, <1>2 DEF GovernorKill, tvars
<1>16. CASE ShellExec \/ ShellExit
  BY <1>16, <1>1, <1>2 DEF ShellExec, ShellExit, tvars, gvars
<1>17. CASE JobFork \/ JobExit
  BY <1>17, <1>1, <1>2 DEF JobFork, JobExit, Procs, tvars, gvars
<1>18. CASE ShellForeground \/ Tick \/ UNCHANGED vars
  BY <1>18 DEF ShellForeground, Tick, vars, tvars, gvars, pvars
<1> QED
  BY <1>3, <1>4, <1>5, <1>6, <1>7, <1>8, <1>9, <1>10, <1>11, <1>12, <1>13, <1>14, <1>15,
     <1>16, <1>17, <1>18
  DEF Next, TesterStep, GovernorStep, ShellStep, AllOver

\* Where ps has found nothing that runs, nothing starts to.
LEMMA NextKillInv ==
  TypeOK /\ KillInv /\ [Next]_vars => KillInv'
<1> SUFFICES ASSUME TypeOK, KillInv, [Next]_vars PROVE KillInv'
  OBVIOUS
<1> USE DEF KillInv
<1>1. "shell" \in Procs /\ "shell" \notin Jobs
  BY JobsAssumption DEF Procs
<1>2. proc \in [Procs -> ProcStates]
  BY DEF TypeOK
<1>3. CASE Run \/ RunFails \/ MainEnds
  BY <1>3 DEF Run, RunFails, MainEnds, gvars, pvars
<1>4. CASE CheckRead
  BY <1>4 DEF CheckRead, gvars, pvars
<1>5. CASE DecideAfter \/ DecideElse
  BY <1>5 DEF DecideAfter, DecideElse, gvars, pvars
<1>6. CASE CheckReap \/ WaitGovernor
  BY <1>6 DEF CheckReap, WaitGovernor, pvars
<1>7. CASE Interrupt
  BY <1>7, <1>1, <1>2 DEF Interrupt, ControlC, ShellSignaled, TesterDies
<1>8. CASE RemoveDir \/ TesterCrash
  BY <1>8 DEF RemoveDir, TesterCrash, TesterDies, pvars
<1>9. CASE StopGovernor
  BY <1>9 DEF StopGovernor, Sigterm, pvars
<1>10. CASE GovernorStart \/ GovernorSetup \/ GovernorPoll \/ GovernorRemove
  BY <1>10 DEF GovernorStart, GovernorSetup, GovernorPoll, GovernorRemove, ExitState, tvars, pvars
<1>11. CASE GovernorFork
  BY <1>11, <1>1, <1>2 DEF GovernorFork, tvars
<1>12. CASE GovernorPgrp
  BY <1>12 DEF GovernorPgrp, tvars
<1>13. CASE GovernorLoop
  BY <1>13, <1>1, <1>2 DEF GovernorLoop, Reaped, tvars
<1>14. CASE GovernorList
  BY <1>14 DEF GovernorList, Listed, tvars, pvars
<1>15. CASE GovernorKill
  BY <1>15, <1>1, <1>2 DEF GovernorKill, tvars
<1>16. CASE ShellExec \/ ShellExit
  BY <1>16, <1>1, <1>2 DEF ShellExec, ShellExit, tvars, gvars
<1>17. CASE JobFork \/ JobExit
  BY <1>17, <1>1, <1>2 DEF JobFork, JobExit, Procs, tvars, gvars
<1>18. CASE ShellForeground \/ Tick \/ UNCHANGED vars
  BY <1>18 DEF ShellForeground, Tick, vars, tvars, gvars, pvars
<1> QED
  BY <1>3, <1>4, <1>5, <1>6, <1>7, <1>8, <1>9, <1>10, <1>11, <1>12, <1>13, <1>14, <1>15,
     <1>16, <1>17, <1>18
  DEF Next, TesterStep, GovernorStep, ShellStep, AllOver

\* kill_all() ends before its last round only after a list without processes.
LEMMA NextNothingLeft ==
  TypeOK /\ StageInv /\ KillInv /\ NothingLeft /\ [Next]_vars => NothingLeft'
<1> SUFFICES ASSUME TypeOK, StageInv, KillInv, NothingLeft, [Next]_vars PROVE NothingLeft'
  OBVIOUS
<1> USE DEF NothingLeft
<1>1. "shell" \in Procs /\ "shell" \notin Jobs
  BY JobsAssumption DEF Procs
<1>2. proc \in [Procs -> ProcStates]
  BY DEF TypeOK
<1>3. CASE Run \/ RunFails \/ MainEnds
  BY <1>3 DEF Run, RunFails, MainEnds, gvars, pvars
<1>4. CASE CheckRead
  BY <1>4 DEF CheckRead, gvars, pvars
<1>5. CASE DecideAfter \/ DecideElse
  BY <1>5 DEF DecideAfter, DecideElse, gvars, pvars
<1>6. CASE CheckReap \/ WaitGovernor
  BY <1>6 DEF CheckReap, WaitGovernor, pvars
<1>7. CASE Interrupt
  BY <1>7, <1>1, <1>2 DEF Interrupt, ControlC, ShellSignaled, TesterDies
<1>8. CASE RemoveDir \/ TesterCrash
  BY <1>8 DEF RemoveDir, TesterCrash, TesterDies, pvars
<1>9. CASE StopGovernor
  BY <1>9 DEF StopGovernor, Sigterm, pvars
<1>10. CASE GovernorStart \/ GovernorSetup \/ GovernorPoll \/ GovernorRemove
  BY <1>10 DEF GovernorStart, GovernorSetup, GovernorPoll, GovernorRemove, ExitState, tvars, pvars
<1>11. CASE GovernorFork
  BY <1>11, <1>1, <1>2 DEF GovernorFork, tvars
<1>12. CASE GovernorPgrp
  BY <1>12 DEF GovernorPgrp, tvars
<1>13. CASE GovernorLoop
  BY <1>13, <1>1, <1>2 DEF GovernorLoop, Reaped, tvars
<1>14. CASE GovernorList
  BY <1>14 DEF GovernorList, Listed, tvars, pvars
<1>15. CASE GovernorKill
  BY <1>15, <1>1, <1>2 DEF GovernorKill, LastRound, KillInv, ProcStates, TypeOK, tvars
<1>16. CASE ShellExec \/ ShellExit
  BY <1>16, <1>1, <1>2 DEF ShellExec, ShellExit, tvars, gvars
<1>17. CASE JobFork \/ JobExit
  BY <1>17, <1>1, <1>2 DEF JobFork, JobExit, Procs, tvars, gvars
<1>18. CASE ShellForeground \/ Tick \/ UNCHANGED vars
  BY <1>18 DEF ShellForeground, Tick, vars, tvars, gvars, pvars
<1> QED
  BY <1>3, <1>4, <1>5, <1>6, <1>7, <1>8, <1>9, <1>10, <1>11, <1>12, <1>13, <1>14, <1>15,
     <1>16, <1>17, <1>18
  DEF Next, TesterStep, GovernorStep, ShellStep, AllOver

-----------------------------------------------------------------------------
\* The invariant is inductive.
LEMMA Invariance == Spec => []IInv
<1>1. IInv /\ [Next]_vars => IInv'
  BY NextType, NextNoStrayKill, NextForegroundSet, NextStageInv, NextReportInv, NextBeliefInv,
     NextKillInv, NextNothingLeft DEF IInv
<1> QED
  BY InitInv, <1>1, PTL DEF Spec

\* For every set of jobs, stop_governor() signals and waits for a governor of this
\* test only, and a shell that runs, or is governed, is in the foreground of its
\* terminal, whether it or the governor was first.
THEOREM SignalsAreRight == Spec => []SignalsRight
<1>1. IInv => SignalsRight
  BY DEF IInv, SignalsRight
<1> QED
  BY <1>1, Invariance, PTL

\* For every plan of `after` functions, when run() returns they have been called and
\* the shell has exited with the status the tester has read; it has been waited for
\* and nothing is left in the pipe.
THEOREM RunReturnsTheTruth == Spec => []RunReturnsRight
<1>1. IInv => RunReturnsRight
  BY DEF IInv, BeliefInv, ReportInv, RunReturnsRight
<1> QED
  BY <1>1, Invariance, PTL

\* For every number of rounds and every set of jobs that fork while they are killed,
\* the governor's clean-up leaves no process on the terminal, unless it gave up or
\* could not list them.
THEOREM KillAllLeavesNothing == Spec => []NothingLeft
<1>1. IInv => NothingLeft
  BY DEF IInv
<1> QED
  BY <1>1, Invariance, PTL

\* The governor writes one report of a shell, with the status it has just waited for,
\* while the tester still takes the shell to be running.
THEOREM ShellReportedOnce == Spec => ReportedOnce
<1> DEFINE Once == \A s \in Statuses :
                     s \in reports' \ reports => /\ running /\ status = "none"
                                                 /\ s = shstatus /\ proc["shell"] = "zombie"
<1>1. IInv /\ [Next]_vars => [Once]_vars
  <2> SUFFICES ASSUME IInv, Next PROVE Once
    BY DEF vars
  <2>1. CASE GovernorLoop
    <3> SUFFICES ASSUME NEW s \in Statuses, s \in reports' \ reports
                 PROVE  running /\ status = "none" /\ s = shstatus /\ proc["shell"] = "zombie"
      OBVIOUS
    <3>1. s = shstatus /\ proc["shell"] = "zombie"
      BY <2>1 DEF GovernorLoop
    <3>2. status = "none"
      BY <3>1 DEF IInv, ReportInv
    <3>3. running
      BY <2>1, <3>2 DEF GovernorLoop, IInv, BeliefInv
    <3> QED
      BY <3>1, <3>2, <3>3
  <2>2. CASE CheckRead
    BY <2>2 DEF CheckRead
  <2>3. CASE ~GovernorLoop /\ ~CheckRead
    <3>1. reports' = reports
      BY <2>3 DEF Next, TesterStep, GovernorStep, ShellStep, AllOver, vars, Run, RunFails,
                  MainEnds, DecideAfter, DecideElse, CheckReap, WaitGovernor, Interrupt,
                  RemoveDir, TesterCrash, StopGovernor, GovernorStart, GovernorSetup,
                  GovernorFork, GovernorPgrp, GovernorPoll, GovernorList, GovernorKill,
                  GovernorRemove, ShellExec, ShellExit, JobFork, JobExit, ShellForeground, Tick
    <3> QED BY <3>1
  <2> QED
    BY <2>1, <2>2, <2>3
<1> QED
  BY <1>1, Invariance, PTL DEF Spec, ReportedOnce
=============================================================================
