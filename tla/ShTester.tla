------------------------------ MODULE ShTester ------------------------------
(***************************************************************************)
(* The shell test harness of pset4 (shtest.cc): the tester process, the    *)
(* governor it forks to own a pseudo-terminal, and the shell under test    *)
(* with its jobs.  The three run concurrently and interact through         *)
(* signals, wait statuses, the exit-report pipe, the terminal's foreground *)
(* process group and the run directory (option -d, which keeps it, is not  *)
(* given).                                                                 *)
(***************************************************************************)
EXTENDS Naturals, FiniteSets

CONSTANTS
  Jobs,          \* processes the shell and its jobs may fork
  MAX_TIME,      \* last instant of the clock; time is counted from the start of run()
  TIME_LIMIT,    \* time_limit_
  AfterCount,    \* AfterCount[t]: number of functions to be called after t
  ROUNDS,        \* rounds of kill_all() (200 in the code)
  MaySetupFail,  \* whether creating the terminal, pipe, files may fail
  MayListFail,   \* whether popen() in list_processes() may fail
  EarlyDeath     \* whether the tester may die before its governor looks for it

Times == 0 .. MAX_TIME

ASSUME TimeAssumption ==
  /\ MAX_TIME \in Nat /\ TIME_LIMIT \in Nat /\ TIME_LIMIT < MAX_TIME
  /\ AfterCount \in [Times -> Nat]
  /\ ROUNDS \in Nat \ {0}
  /\ MaySetupFail \in BOOLEAN /\ MayListFail \in BOOLEAN /\ EarlyDeath \in BOOLEAN
ASSUME JobsAssumption ==
  IsFiniteSet(Jobs) /\ "shell" \notin Jobs /\ "governor" \notin Jobs

Procs == {"shell"} \cup Jobs

VARIABLES
  tpc,       \* where the tester is: see TesterPCs
  tnext,     \* where check_exit() returns to
  running,   \* running_
  status,    \* status_: "none" for -1
  afters,    \* afters_ still to be called, by time
  governor_pid,  \* TRUE while governor_pid_ > 0
  clock,     \* now() - start_time_
  gpc,       \* where the governor is: see GovernorPCs
  gtester,   \* the governor's local `tester`
  stopping,  \* governor_stopping
  woken,     \* whether a signal has interrupted the governor's poll()
  reports,   \* exit reports in the pipe: a set of at most one status
  targets,   \* the processes kill_all() has listed
  round,     \* kill_all()'s round
  listfailed,  \* whether ps has failed in kill_all() (history)
  proc,      \* state of the shell and its jobs
  shstatus,  \* the shell's wait status
  fg,        \* foreground process group of the terminal
  dir        \* whether the run directory exists

tvars == <<tpc, tnext, running, status, afters, governor_pid>>
gvars == <<gpc, gtester, stopping, woken, targets, round, listfailed>>
pvars == <<proc, shstatus, fg>>
vars  == <<tpc, tnext, running, status, afters, governor_pid, clock,
           gpc, gtester, stopping, woken, reports, targets, round, listfailed,
           proc, shstatus, fg, dir>>

TesterPCs == {"setup", "reap", "read", "decide", "interrupt", "main", "fail",
              "failwait", "destroy", "destroywait", "remove", "dead"}
GovernorPCs == {"none", "start", "setup", "fork", "pgrp", "loop", "reaped", "poll",
                "list", "kill", "remove", "zombie", "gone"}
\* "pre": between fork() and execvp(); a zombie waits for the governor or, once
\* that is gone, for init.
ProcStates == {"none", "pre", "run", "zombie"}
Statuses == {"exited", "signaled"}

Init ==
  /\ tpc = "setup" /\ tnext = "decide" /\ running = FALSE /\ status = "none"
  /\ afters = AfterCount /\ governor_pid = FALSE
  /\ clock = 0
  /\ gpc = "none" /\ gtester = "none" /\ stopping = FALSE /\ woken = FALSE
  /\ reports = {} /\ targets = {} /\ round = 0 /\ listfailed = FALSE
  /\ proc = [p \in Procs |-> "none"] /\ shstatus = "none" /\ fg = "governor"
  /\ dir = TRUE

-----------------------------------------------------------------------------
(* The world: time, and what POSIX does.                                   *)

Tick ==
  /\ clock < MAX_TIME
  /\ clock' = clock + 1
  /\ UNCHANGED <<tvars, gvars, reports, pvars, dir>>

TesterAlive == tpc # "dead"
GovernorAlive == gpc \notin {"none", "zombie", "gone"}

\* What getppid() returns to the governor.
Getppid == IF TesterAlive THEN "tester" ELSE "init"

\* The governor's place after it exits: its parent has to wait for it, unless
\* that is init.
ExitState == IF TesterAlive THEN "zombie" ELSE "gone"

\* The tester is gone; a zombie governor is reaped by init.
TesterDies ==
  /\ tpc' = "dead"
  /\ gpc' = IF gpc = "zombie" THEN "gone" ELSE gpc

\* Somebody still has the write end of the report pipe open.  The shell's copy
\* is closed by execvp().
PipeOpen == GovernorAlive \/ proc["shell"] = "pre"

\* kill(governor_pid_, SIGTERM): before sigaction() it kills the governor, in
\* its loop request_stop() runs, and in its clean-up it is ignored.
Sigterm ==
  IF gpc \in {"start", "setup"} THEN gpc' = "zombie" /\ UNCHANGED <<stopping, woken>>
  ELSE IF gpc \in {"fork", "pgrp", "loop", "reaped", "poll"}
  THEN stopping' = TRUE /\ woken' = (gpc = "poll") /\ UNCHANGED gpc
  ELSE UNCHANGED <<gpc, stopping, woken>>

-----------------------------------------------------------------------------
(* The tester.                                                             *)

\* run() up to its loop: make the terminal and the pipe, fork the governor.
Run ==
  /\ tpc = "setup"
  /\ tpc' = "reap" /\ tnext' = "decide" /\ running' = TRUE
  /\ governor_pid' = TRUE
  /\ gpc' = "start"
  /\ clock' = 0
  /\ UNCHANGED <<status, afters, gtester, stopping, woken, targets, round, listfailed,
                 reports, pvars, dir>>

\* run() fails before there is a governor.
RunFails ==
  /\ tpc = "setup" /\ MaySetupFail
  /\ tpc' = "fail"
  /\ UNCHANGED <<tnext, running, status, afters, governor_pid, clock, gvars,
                 reports, pvars, dir>>

\* governor_pid_ = -1 once the governor has been waited for.
\* Mutant of ForgetGovernor: the old process ID is kept.
KeepGovernor == UNCHANGED governor_pid
ForgetGovernor == governor_pid' = FALSE

\* check_exit(): collect the governor if it has exited.
CheckReap ==
  /\ tpc = "reap"
  /\ tpc' = IF running THEN "read" ELSE tnext
  /\ IF gpc = "zombie"
     THEN gpc' = "gone" /\ ForgetGovernor
     ELSE UNCHANGED <<gpc, governor_pid>>
  /\ UNCHANGED <<tnext, running, status, afters, clock, gtester, stopping, woken,
                 targets, round, listfailed, reports, pvars, dir>>

\* check_exit() accepts an exit, but not a signal.
\* Mutant of Acceptable: WIFSIGNALED is not checked.
AcceptAny(r) == r \in Statuses
Acceptable(r) == r = "exited"

\* check_exit(): read the exit report.  A report of a signal, or an end of
\* file, fails the test; so may what the shell wrote to its stderr.
CheckRead ==
  /\ tpc = "read"
  /\ \/ /\ reports = {} /\ PipeOpen
        /\ tpc' = tnext
        /\ UNCHANGED <<running, status, reports>>
     \/ /\ reports = {} /\ ~PipeOpen
        /\ tpc' = "fail"
        /\ UNCHANGED <<running, status, reports>>
     \/ \E r \in reports :
          /\ reports' = reports \ {r}
          /\ running' = FALSE /\ status' = r
          /\ \/ tpc' = "fail"
             \/ Acceptable(r) /\ tpc' = tnext
  /\ UNCHANGED <<tnext, afters, governor_pid, clock, gvars, pvars, dir>>

\* The functions that are due, and whether any is left.
Due == {t \in Times : t <= clock /\ afters[t] > 0}
NoneLeft == \A t \in Times : afters[t] = 0

\* run()'s loop calls the next `after` function, in order of their times.  The
\* function returns, asks for the shell's state (check_exit() again) or calls
\* interrupt().
DecideAfter ==
  /\ tpc = "decide"
  /\ \E t \in Due :
       /\ \A u \in Due : t <= u
       /\ afters' = [afters EXCEPT ![t] = @ - 1]
  /\ tpc' = "reap"
  /\ tnext' \in {"decide", "interrupt"}
  /\ UNCHANGED <<running, status, governor_pid, clock, gvars, reports, pvars, dir>>

\* The shell has run for too long.
\* Mutant of TimeOver: only a shell that has exited is told so.
TimeOverStopped == ~running /\ clock > TIME_LIMIT
TimeOver == running /\ clock > TIME_LIMIT

\* ... or run() returns, or the time limit is over, or it sleeps a little.
DecideElse ==
  /\ tpc = "decide"
  /\ Due = {}
  /\ tpc' = IF ~running /\ NoneLeft THEN "main"
            ELSE IF TimeOver THEN "fail"
            ELSE "reap"
  /\ tnext' = "decide"
  /\ UNCHANGED <<running, status, afters, governor_pid, clock, gvars, reports,
                 pvars, dir>>

\* The terminal turns Control-C into SIGINT for its foreground group.  SIGINT has
\* its default action in the governor, which dies of it while it still holds the
\* terminal itself, as may a shell that has yet to leave its group.  A shell or a
\* job may die of it.  There is no foreground group before the governor has opened
\* the terminal, nor once it, the session's leader, is dead.
GovernorOnTerminal == fg = "governor" /\ GovernorAlive /\ gpc # "start"
ShellSignaled == /\ proc["shell"] \in {"pre", "run"}
                 /\ proc' = [proc EXCEPT !["shell"] = "zombie"]
                 /\ shstatus' = "signaled"

ControlC ==
  \/ /\ GovernorOnTerminal => gpc = "setup"
     /\ UNCHANGED <<gpc, proc, shstatus, woken>>
  \/ /\ GovernorOnTerminal
     /\ gpc' = "zombie"
     /\ UNCHANGED <<proc, shstatus>> \/ (proc["shell"] = "pre" /\ ShellSignaled)
     /\ UNCHANGED woken
  \/ /\ fg = "shell" /\ ShellSignaled
     /\ woken' = (woken \/ gpc = "poll")
     /\ UNCHANGED gpc
  \/ /\ fg \in Jobs
     /\ proc' = [proc EXCEPT ![fg] = "none"]
     /\ UNCHANGED <<gpc, shstatus, woken>>

\* interrupt() after its check_exit(): type Control-C.
Interrupt ==
  /\ tpc = "interrupt"
  /\ IF ~running
     THEN TesterDies /\ UNCHANGED <<tnext, proc, shstatus, woken>>
     ELSE tpc' = "reap" /\ tnext' = "decide" /\ ControlC
  /\ UNCHANGED <<running, status, afters, governor_pid, clock, gtester, stopping,
                 targets, round, listfailed, reports, fg, dir>>

\* main() returns after run(): the destructor stops the governor.
MainEnds ==
  /\ tpc = "main"
  /\ tpc' = "destroy"
  /\ UNCHANGED <<tnext, running, status, afters, governor_pid, clock, gvars,
                 reports, pvars, dir>>

\* stop_governor(): ask it to stop ...
StopGovernor ==
  /\ tpc \in {"fail", "destroy"}
  /\ tpc' = IF tpc = "fail" THEN "failwait" ELSE "destroywait"
  /\ IF governor_pid THEN Sigterm ELSE UNCHANGED <<gpc, stopping, woken>>
  /\ UNCHANGED <<tnext, running, status, afters, governor_pid, clock, gtester,
                 targets, round, listfailed, reports, pvars, dir>>

\* ... and wait for it.  fail() then calls exit(), which does not destroy the
\* sh61_tester.
WaitGovernor ==
  /\ tpc \in {"failwait", "destroywait"}
  /\ IF governor_pid
     THEN gpc = "zombie" /\ gpc' = "gone" /\ ForgetGovernor
     ELSE UNCHANGED <<gpc, governor_pid>>
  /\ tpc' = IF tpc = "failwait" THEN "dead" ELSE "remove"
  /\ UNCHANGED <<tnext, running, status, afters, clock, gtester, stopping, woken,
                 targets, round, listfailed, reports, pvars, dir>>

\* The destructor removes the run directory.
RemoveDir ==
  /\ tpc = "remove"
  /\ dir' = FALSE
  /\ TesterDies
  /\ UNCHANGED <<tnext, running, status, afters, governor_pid, clock, gtester,
                 stopping, woken, targets, round, listfailed, reports, pvars>>

\* An assertion of the test fails, or somebody kills the tester.
TesterCrash ==
  /\ TesterAlive
  /\ EarlyDeath \/ gtester # "none"
  /\ TesterDies
  /\ UNCHANGED <<tnext, running, status, afters, governor_pid, clock, gtester,
                 stopping, woken, targets, round, listfailed, reports, pvars, dir>>

-----------------------------------------------------------------------------
(* The governor: run_governor() and kill_all().                            *)

\* pid_t tester = getppid()
GovernorStart ==
  /\ gpc = "start"
  /\ gpc' = "setup" /\ gtester' = Getppid
  /\ UNCHANGED <<tvars, clock, stopping, woken, targets, round, listfailed, reports, pvars, dir>>

\* Open the files and the terminal and install signal handlers, or fail to.
GovernorSetup ==
  /\ gpc = "setup"
  /\ \/ gpc' = "fork"
     \/ MaySetupFail /\ gpc' = ExitState
  /\ UNCHANGED <<tvars, clock, gtester, stopping, woken, targets, round, listfailed, reports,
                 pvars, dir>>

\* pid_t shell = fork(), which is not checked for failure
GovernorFork ==
  /\ gpc = "fork"
  /\ gpc' = "pgrp"
  /\ \/ proc' = [proc EXCEPT !["shell"] = "pre"]
     \/ MaySetupFail /\ UNCHANGED proc
  /\ UNCHANGED <<tvars, clock, gtester, stopping, woken, targets, round, listfailed, reports,
                 shstatus, fg, dir>>

\* tcsetpgrp(tty_fd, shell), as in the shell's own half; without a shell it does
\* nothing.
\* Mutant of TakeForeground: left to the shell.
ShellsOwnJob == UNCHANGED fg
TakeForeground == fg' = IF proc["shell"] = "none" THEN fg ELSE "shell"

GovernorPgrp ==
  /\ gpc = "pgrp"
  /\ gpc' = "loop"
  /\ TakeForeground
  /\ UNCHANGED <<tvars, clock, gtester, stopping, woken, targets, round, listfailed, reports,
                 proc, shstatus, dir>>

\* One round of the governor's loop up to poll(): stop, or wait for the shell
\* and report.
\* Mutant of MustStop: the tester's death is not noticed.
MustStopOnSignal == stopping
MustStop == stopping \/ Getppid # gtester

\* Mutant of Reaped: the shell's status is looked at but not collected.
NotReaped == UNCHANGED proc
Reaped == proc' = [proc EXCEPT !["shell"] = "none"]

GovernorLoop ==
  /\ gpc = "loop"
  /\ IF MustStop
     THEN /\ gpc' = "list" /\ round' = 0
          /\ UNCHANGED <<proc, reports>>
     ELSE /\ gpc' = "reaped"
          /\ IF proc["shell"] = "zombie"
             THEN Reaped /\ reports' = reports \cup {shstatus}
             ELSE UNCHANGED <<proc, reports>>
          /\ UNCHANGED round
  /\ UNCHANGED <<tvars, clock, gtester, stopping, woken, targets, listfailed, shstatus, fg, dir>>

\* poll() ends after 20 ms, or when a signal arrives while it waits.  A signal
\* that came just before is not noticed.
GovernorPoll ==
  /\ \/ gpc = "reaped" /\ gpc' = "poll"
     \/ gpc = "poll" /\ gpc' = "loop"
  /\ woken' = FALSE
  /\ UNCHANGED <<tvars, clock, gtester, stopping, targets, round, listfailed, reports, pvars, dir>>

\* The processes on the terminal that kill_all() kills: the output of ps, taken
\* to be a snapshot.
\* Mutant of Listed: only the shell.
ListedShell == {p \in {"shell"} : proc[p] \in {"pre", "run"}}
Listed == {p \in Procs : proc[p] \in {"pre", "run"}}

\* kill_all(): list the processes; without a ps there are none ...
GovernorList ==
  /\ gpc = "list"
  /\ gpc' = "kill"
  /\ \/ targets' = Listed /\ UNCHANGED listfailed
     \/ MayListFail /\ targets' = {} /\ listfailed' = TRUE
  /\ UNCHANGED <<tvars, clock, gtester, stopping, woken, round, reports, pvars, dir>>

\* Mutant of LastRound: off by one.
LastRoundLate == round = ROUNDS
LastRound == round + 1 = ROUNDS

\* ... kill them, reap children, and go on until there was none or ROUNDS are
\* over.
GovernorKill ==
  /\ gpc = "kill"
  /\ proc' = [p \in Procs |-> IF p \in targets \/ proc[p] = "zombie" THEN "none"
                              ELSE proc[p]]
  /\ shstatus' = IF "shell" \in targets /\ proc["shell"] \in {"pre", "run"}
                 THEN "signaled" ELSE shstatus
  /\ targets' = {}
  /\ IF targets = {} \/ LastRound
     THEN gpc' = "remove" /\ UNCHANGED round
     ELSE gpc' = "list" /\ round' = round + 1
  /\ UNCHANGED <<tvars, clock, gtester, stopping, woken, listfailed, reports, fg, dir>>

\* Mutant of RemoveRunDir: left to the tester.
KeepRunDir == UNCHANGED dir
RemoveRunDir == dir' = FALSE

\* Remove the run directory and exit.
GovernorRemove ==
  /\ gpc = "remove"
  /\ RemoveRunDir
  /\ gpc' = ExitState
  /\ UNCHANGED <<tvars, clock, gtester, stopping, woken, targets, round, listfailed, reports, pvars>>

-----------------------------------------------------------------------------
(* The shell and its jobs.  They run, fork and exit as they please.        *)

\* The shell's half of run_governor(): enter the foreground, execvp().  With the
\* governor the terminal is gone, and tcsetpgrp() fails.
ShellExec ==
  /\ proc["shell"] = "pre"
  /\ proc' = [proc EXCEPT !["shell"] = "run"]
  /\ fg' = IF GovernorAlive THEN "shell" ELSE fg
  /\ UNCHANGED <<tvars, gvars, clock, reports, shstatus, dir>>

\* The shell's exit or crash interrupts the governor's poll().
ShellExit ==
  /\ proc["shell"] \in {"pre", "run"}
  /\ proc' = [proc EXCEPT !["shell"] = "zombie"]
  /\ \E s \in Statuses : shstatus' = s
  /\ woken' = (woken \/ gpc = "poll")
  /\ UNCHANGED <<tvars, clock, gpc, gtester, stopping, targets, round, listfailed, reports, fg, dir>>

JobFork ==
  /\ \E p \in Procs, j \in Jobs :
       /\ proc[p] = "run" /\ proc[j] = "none"
       /\ proc' = [proc EXCEPT ![j] = "run"]
  /\ UNCHANGED <<tvars, gvars, clock, reports, shstatus, fg, dir>>

JobExit ==
  /\ \E j \in Jobs : proc[j] = "run" /\ proc' = [proc EXCEPT ![j] = "none"]
  /\ UNCHANGED <<tvars, gvars, clock, reports, shstatus, fg, dir>>

\* The shell gives the terminal to a job, or takes it back.
ShellForeground ==
  /\ proc["shell"] = "run" /\ GovernorAlive
  /\ \E g \in {"shell"} \cup {j \in Jobs : proc[j] = "run"} : fg' = g
  /\ UNCHANGED <<tvars, gvars, clock, reports, proc, shstatus, dir>>

-----------------------------------------------------------------------------
TesterStep == \/ Run \/ CheckReap \/ CheckRead \/ DecideAfter \/ DecideElse
              \/ Interrupt \/ MainEnds \/ StopGovernor \/ WaitGovernor \/ RemoveDir
GovernorStep == \/ GovernorStart \/ GovernorSetup \/ GovernorFork \/ GovernorPgrp
                \/ GovernorLoop \/ GovernorPoll
                \/ GovernorList \/ GovernorKill \/ GovernorRemove
ShellStep == ShellExec \/ ShellExit \/ JobFork \/ JobExit \/ ShellForeground

\* Everything has ended; what the test left behind may go on.
AllOver == tpc = "dead" /\ ~GovernorAlive /\ UNCHANGED vars

Next == TesterStep \/ RunFails \/ TesterCrash \/ GovernorStep \/ ShellStep
        \/ Tick \/ AllOver

Spec == Init /\ [][Next]_vars

\* Time passes, and the system schedules the tester, the governor and a shell
\* that has yet to start.  A running shell may do nothing for ever.
Fairness == /\ WF_vars(Tick)
            /\ WF_vars(TesterStep)
            /\ WF_vars(GovernorStep)
            /\ WF_vars(ShellExec)
FairSpec == Spec /\ Fairness

-----------------------------------------------------------------------------
(* Properties.                                                             *)

TypeOK ==
  /\ tpc \in TesterPCs /\ tnext \in {"decide", "interrupt"}
  /\ running \in BOOLEAN /\ status \in Statuses \cup {"none"}
  /\ afters \in [Times -> Nat]
  /\ governor_pid \in BOOLEAN
  /\ clock \in Times
  /\ gpc \in GovernorPCs /\ gtester \in {"none", "tester", "init"}
  /\ stopping \in BOOLEAN /\ woken \in BOOLEAN
  /\ reports \subseteq Statuses
  /\ targets \subseteq Procs /\ round \in 0 .. ROUNDS - 1 /\ listfailed \in BOOLEAN
  /\ proc \in [Procs -> ProcStates] /\ shstatus \in Statuses \cup {"none"}
  /\ fg \in Procs \cup {"governor"}
  /\ dir \in BOOLEAN

\* While the tester lives, governor_pid_ names a process that has not been
\* waited for: stop_governor() never signals, or waits for, a process ID that
\* may by then belong to somebody else.
NoStrayKill == TesterAlive /\ governor_pid => gpc \notin {"none", "gone"}

\* run() returns only when the shell has exited, every `after` function has
\* been called, and what the tester then believes about the shell is true:
\* its status is the one the shell exited with and no other report will come.
RunReturnsRight ==
  tpc \in {"main", "destroy", "destroywait", "remove"} =>
    /\ ~running /\ NoneLeft
    /\ status = "exited" /\ shstatus = "exited"
    /\ proc["shell"] = "none" /\ reports = {}

\* "Processes left running when the test exits are killed": unless kill_all()
\* used up its rounds or could not run ps, nothing is left on the terminal once
\* the governor has cleaned up, however processes fork while they are killed.
NothingLeft ==
  gpc = "remove" /\ round + 1 < ROUNDS /\ ~listfailed => \A p \in Procs : proc[p] = "none"

\* "Doing it in both processes means it's done before either process continues,
\* whichever runs first": neither a shell that has been executed nor a governor
\* in its loop finds the terminal's foreground still the governor's.
ForegroundSet ==
  /\ GovernorAlive
  /\ proc["shell"] = "run" \/ (gpc \in {"loop", "reaped", "poll"} /\ proc["shell"] # "none")
  => fg # "governor"

\* The shell's exit report is written once: the tester never finds a second
\* one and the shell is never waited for twice.
ReportedOnce ==
  [][ \A s \in Statuses :
        s \in reports' \ reports => /\ running /\ status = "none"
                                    /\ s = shstatus /\ proc["shell"] = "zombie" ]_vars

\* Every test ends, even if the shell hangs: by itself or at its time limit.
TestEnds == (tpc = "reap") ~> (tpc = "dead")

\* "When the tester exits or sends the governor SIGTERM, the governor kills
\* every process remaining on the pseudo-terminal, removes the run directory,
\* and exits."
GovernorEnds == (tpc = "dead") ~> ~GovernorAlive

\* "The shell runs in a run directory, `out/TESTNAME-PID`, which is removed when
\* the test exits": so it is once the governor is in its loop and has given the
\* terminal away, even if the tester dies.  It stays when the test fails before, as
\* exit() runs no destructor, and when Control-C finds the governor itself in the
\* foreground: interrupt() called before the shell has the terminal, or when there
\* is no shell because fork() failed, kills the governor.
RunDirRemoved == (gpc = "loop" /\ fg # "governor") ~> ~dir

\* The tester signals and waits for its own governor only, never a process that has
\* the governor's old number, and the shell runs in the foreground of its terminal.
\* (kill_all() kills by the numbers of a list of ps: what may become of a number
\* between the list and the kill is not modelled.)
SignalsRight == TypeOK /\ NoStrayKill /\ ForegroundSet

\* Every test ends, with one report, and its governor after it; the run directory
\* is removed, where RunDirRemoved says so.
EveryTestEnds == TestEnds /\ ReportedOnce /\ GovernorEnds /\ RunDirRemoved
=============================================================================
