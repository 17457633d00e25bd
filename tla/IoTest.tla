------------------------------- MODULE IoTest -------------------------------
(***************************************************************************)
(* The I/O test harness of pset5 (iotest.cc): several test programs, each  *)
(* with an io61_tester, run at the same time.  They share the cache of     *)
(* generated input files and, with -d, a run directory; each runs its      *)
(* command in a process group of its own under a time limit.  One input    *)
(* file per test and one generated file are modelled; a file's contents    *)
(* are what the properties tell apart.                                     *)
(***************************************************************************)
EXTENDS Integers, FiniteSets

CONSTANTS
  Testers,      \* test programs
  TIME_LIMIT,   \* time_limit_
  MAX_TIME,     \* last instant of the clock of an execution
  TRIALS,       \* TRIALS of report_timing()
  SETUPS,       \* bound on the calls of setup functions of a test
  Running,      \* tests that call run(); the others only set up their files
  MayFail       \* testers for which system calls may fail

ASSUME IoTestAssumption ==
  /\ IsFiniteSet(Testers) /\ MayFail \subseteq Testers /\ Running \subseteq Testers
  /\ "kept" \notin Testers /\ "before" \notin Testers
  /\ {TIME_LIMIT, MAX_TIME, TRIALS, SETUPS} \subseteq Nat \ {0}
  /\ TIME_LIMIT <= MAX_TIME

\* The inodes that occur: a cached file from before, the file a tester
\* generates, and the one it writes or copies into its run directory.
Before == <<"before", "gen">>
Inodes == {Before} \cup (Testers \X {"gen", "own"})
NoFile == <<"none", "none">>
\* "short" has the wrong size; "junk" the right size and the wrong bytes.
Contents == {"short", "junk", "full", "own"}
\* Run directories: with -d it is one that exists already.
Dirs == Testers \cup {"kept"}

VARIABLES
  tpc,       \* where the tester is: see TesterPCs
  cause,     \* why it ended (history)
  keep,      \* keep_run_dir_
  setups,    \* calls of setup functions made
  want,      \* contents the test asked for
  nrun,      \* executions started; started_ is nrun > 0
  elapsed,   \* now() - start_time of the execution
  armed,     \* whether the interval timer is set
  root,      \* geteuid() == 0
  cached,    \* the inode of the cached file
  data,      \* contents of the inodes
  writable,  \* inodes whose mode has a write bit
  tmp,       \* testers whose temporary file exists
  input,     \* the inode of the input file in each run directory
  dir,       \* run directories that exist
  child,     \* the process that runs the command
  group,     \* whether it is in its own process group
  others,    \* other processes of the command, in the same group
  status     \* execute()'s local `status`

fvars == <<cached, data, writable, tmp, input, dir>>
pvars == <<child, group, others, status>>
cvars == <<keep, setups, want, root>>
vars == <<tpc, cause, keep, setups, want, nrun, elapsed, armed, root, cached, data,
          writable, tmp, input, dir, child, group, others, status>>

TesterPCs == {"new", "setup", "gen", "fill", "rename", "link", "exec", "forked",
              "loop", "wait4", "waited", "results", "fail", "destroy", "ended"}
Causes == {"none", "usage", "library", "setup", "timeout", "lost", "verdict", "ok",
           "abort", "killed"}
\* "pre" and "set": before and after the child's own setpgid(); "dying": SIGKILL
\* has been sent and not yet taken effect; "reaped": waited for.
ChildStates == {"none", "pre", "set", "run", "dying", "zombie", "reaped"}

\* Wait statuses: an exit status or a signal.
SIGXFSZ == 25
SIGKILL == 9
NSIG == 65
Exited(n) == [how |-> "exit", code |-> n]
Signaled(n) == [how |-> "signal", code |-> n]
Statuses == {Exited(n) : n \in {0, 1, 128, 128 + SIGKILL, 128 + SIGXFSZ, 128 + NSIG}}
            \cup {Signaled(SIGKILL), Signaled(SIGXFSZ)}

NoStatus == Exited(0 - 1)

DirOf(t) == IF keep[t] THEN "kept" ELSE t
Live == {"pre", "set", "run", "dying"}

Init ==
  /\ tpc = [t \in Testers |-> "new"] /\ cause = [t \in Testers |-> "none"]
  /\ keep = [t \in Testers |-> FALSE] /\ setups = [t \in Testers |-> 0]
  /\ want = [t \in Testers |-> "none"]
  /\ nrun = [t \in Testers |-> 0] /\ elapsed = [t \in Testers |-> 0]
  /\ armed = [t \in Testers |-> FALSE]
  /\ root \in BOOLEAN
  /\ cached \in {NoFile, Before}
  \* A crash of the machine may have cut the cached file short.
  /\ \E c \in {"full", "short"} :
       /\ cached = NoFile => c = "short"
       /\ data = [i \in Inodes |-> IF i = Before THEN c ELSE "short"]
  /\ writable = {} /\ tmp = {} /\ input = [d \in Dirs |-> NoFile]
  /\ dir = {"kept"}
  /\ child = [t \in Testers |-> "none"] /\ group = [t \in Testers |-> FALSE]
  /\ others = [t \in Testers |-> "none"] /\ status = [t \in Testers |-> NoStatus]

Goto(t, pc) == tpc' = [tpc EXCEPT ![t] = pc]

\* The process is gone, with its locals and its timer.
Exit(t) == /\ Goto(t, "ended")
           /\ armed' = [armed EXCEPT ![t] = FALSE]
           /\ elapsed' = [elapsed EXCEPT ![t] = 0]
           /\ status' = [status EXCEPT ![t] = NoStatus]
End(t, why) == Exit(t) /\ cause' = [cause EXCEPT ![t] = why]

\* fail(): what it prints is left out; FailRemove is its end.
Fail(t, why) == Goto(t, "fail") /\ cause' = [cause EXCEPT ![t] = why]

-----------------------------------------------------------------------------
(* Construction.                                                           *)

\* Bad arguments, a cache or run directory that cannot be made, or no
\* directory to be kept: exit(1).
ConstructFails(t) ==
  /\ tpc[t] = "new" /\ t \in MayFail
  /\ End(t, "usage")
  /\ UNCHANGED <<cvars, nrun, fvars, child, group, others>>

\* Use the directory of -d, in which no other test is running, or make one.
Construct(t) ==
  /\ tpc[t] = "new"
  /\ \E k \in BOOLEAN :
       /\ k => \A u \in Testers : keep[u] => tpc[u] = "ended" /\ child[u] \notin Live
                                             /\ others[u] = "none"
       /\ keep' = [keep EXCEPT ![t] = k]
       /\ dir' = dir \cup {IF k THEN "kept" ELSE t}
  /\ Goto(t, "setup")
  /\ UNCHANGED <<cause, setups, want, root, nrun, elapsed, armed, cached, data, writable,
                 tmp, input, pvars>>

-----------------------------------------------------------------------------
(* Setup functions.                                                        *)

\* The name in the run directory is unlinked and then created again.
NewInput(t, inode, contents) ==
  /\ input' = [input EXCEPT ![DirOf(t)] = inode]
  /\ data' = [data EXCEPT ![inode] = contents]

\* write_file().  An error is noticed only if the stream writes before it is
\* closed; contents that fit its buffer are lost without notice.
WriteFile(t) ==
  /\ tpc[t] = "setup" /\ setups[t] < SETUPS
  /\ setups' = [setups EXCEPT ![t] = @ + 1]
  /\ writable' = writable \cup {<<t, "own">>}
  /\ \E c \in {"own"} \cup (IF t \in MayFail THEN {"short"} ELSE {}) :
       /\ NewInput(t, <<t, "own">>, c)
       /\ \/ /\ want' = [want EXCEPT ![t] = "own"]
             /\ UNCHANGED <<tpc, cause>>
          \/ c = "short" /\ Fail(t, "setup") /\ UNCHANGED want
  /\ UNCHANGED <<keep, nrun, elapsed, armed, root, cached, tmp, dir, pvars>>

\* stat() finds a cached file of the right size.
\* Mutant of CacheHit: the size is not looked at.
CacheExists == cached # NoFile
CacheHit == cached # NoFile /\ data[cached] # "short"

\* make_input() up to its stat().
MakeInput(t) ==
  /\ tpc[t] = "setup" /\ setups[t] < SETUPS
  /\ setups' = [setups EXCEPT ![t] = @ + 1]
  /\ Goto(t, IF CacheHit THEN "link" ELSE "gen")
  /\ UNCHANGED <<cause, keep, want, nrun, elapsed, armed, root, fvars, pvars>>

\* Where make_input() generates: a file of its own, to be renamed.
\* Mutant of OpenTmp: it opens the cached file itself, and what is there is
\* truncated.
OpenCached(t) ==
  /\ IF cached = NoFile
     THEN /\ cached' = <<t, "gen">>
          /\ data' = [data EXCEPT ![<<t, "gen">>] = "short"]
          /\ writable' = writable \cup {<<t, "gen">>}
     ELSE /\ data' = [data EXCEPT ![cached] = "short"]
          /\ UNCHANGED <<cached, writable>>
  /\ tmp' = tmp \cup {t}
OpenTmp(t) ==
  /\ tmp' = tmp \cup {t}
  /\ data' = [data EXCEPT ![<<t, "gen">>] = "short"]
  /\ writable' = writable \cup {<<t, "gen">>}
  /\ UNCHANGED cached

MakeInputOpen(t) ==
  /\ tpc[t] = "gen"
  /\ OpenTmp(t)
  /\ Goto(t, "fill")
  /\ UNCHANGED <<cause, cvars, nrun, elapsed, armed, input, dir, pvars>>

\* generate(), flush and close; a failure is noticed by the flush.
MakeInputFill(t) ==
  /\ tpc[t] = "fill"
  /\ \/ /\ data' = [data EXCEPT ![<<t, "gen">>] = "full"]
        /\ Goto(t, "rename") /\ UNCHANGED cause
     \/ t \in MayFail /\ Fail(t, "setup") /\ UNCHANGED data
  /\ UNCHANGED <<cvars, nrun, elapsed, armed, cached, writable, tmp, input, dir, pvars>>

\* Mutant of ReadOnly: no chmod().
LeaveMode(t) == writable
ReadOnly(t) == writable \ {<<t, "gen">>}

\* chmod() and rename(); either may fail.
MakeInputRename(t) ==
  /\ tpc[t] = "rename"
  /\ \/ /\ writable' = ReadOnly(t)
        /\ cached' = <<t, "gen">> /\ tmp' = tmp \ {t}
        /\ Goto(t, "link") /\ UNCHANGED cause
     \/ /\ t \in MayFail /\ Fail(t, "setup")
        /\ writable' \in {writable, ReadOnly(t)}
        /\ UNCHANGED <<cached, tmp>>
  /\ UNCHANGED <<cvars, nrun, elapsed, armed, data, input, dir, pvars>>

\* Whether the run directory gets a copy.
\* Mutant of MustCopy: also root gets a link.
NeverCopy == FALSE
MustCopy == root

\* link() the cached file into the run directory, or copy it; the copy has the
\* same mode.
MakeInputLink(t) ==
  /\ tpc[t] = "link"
  /\ \/ /\ ~MustCopy
        /\ input' = [input EXCEPT ![DirOf(t)] = cached]
        /\ Goto(t, "setup") /\ want' = [want EXCEPT ![t] = "full"]
        /\ UNCHANGED <<cause, data, writable>>
     \/ /\ MustCopy \/ t \in MayFail
        /\ NewInput(t, <<t, "own">>, data[cached])
        /\ writable' = IF cached \in writable THEN writable \cup {<<t, "own">>}
                       ELSE writable \ {<<t, "own">>}
        /\ Goto(t, "setup") /\ want' = [want EXCEPT ![t] = "full"]
        /\ UNCHANGED cause
     \/ /\ t \in MayFail /\ Fail(t, "setup")
        /\ input' = [input EXCEPT ![DirOf(t)] = NoFile]
        /\ UNCHANGED <<want, data, writable>>
  /\ UNCHANGED <<keep, setups, nrun, elapsed, armed, root, cached, tmp, dir, pvars>>

\* A setup function, or report_timing(), called at the wrong time, or run()
\* called twice.
WrongOrder(t) ==
  /\ \/ tpc[t] = "results" /\ nrun[t] = 1
     \/ tpc[t] = "setup" /\ setups[t] = 0
  /\ Fail(t, "setup")
  /\ UNCHANGED <<cvars, nrun, elapsed, armed, fvars, pvars>>

-----------------------------------------------------------------------------
(* Execution.                                                              *)

\* run(), called once there is an input file.
Run(t) ==
  /\ tpc[t] = "setup" /\ setups[t] > 0 /\ t \in Running
  /\ Goto(t, "exec")
  /\ UNCHANGED <<cause, cvars, nrun, elapsed, armed, fvars, pvars>>

\* execute() up to the fork: there may be no directory for the library, which
\* is exit(1), or no files or process, which is fail().
ExecuteFails(t) ==
  /\ tpc[t] = "exec" /\ t \in MayFail
  /\ \/ End(t, "library")
     \/ Fail(t, "setup") /\ UNCHANGED <<elapsed, armed, status>>
  /\ UNCHANGED <<cvars, nrun, fvars, child, group, others>>

Fork(t) ==
  /\ tpc[t] = "exec"
  /\ Goto(t, "forked")
  /\ nrun' = [nrun EXCEPT ![t] = @ + 1]
  /\ elapsed' = [elapsed EXCEPT ![t] = 0]
  /\ child' = [child EXCEPT ![t] = "pre"] /\ group' = [group EXCEPT ![t] = FALSE]
  /\ UNCHANGED <<cause, cvars, armed, fvars, others, status>>

\* The parent's setpgid(child, child).
\* Mutant of ParentGroup: left to the child.
ChildsJob(t) == UNCHANGED group
ParentGroup(t) == group' = [group EXCEPT ![t] = TRUE]

\* The parent's half: group, sigaction(), setitimer().
Forked(t) ==
  /\ tpc[t] = "forked"
  /\ ParentGroup(t)
  /\ armed' = [armed EXCEPT ![t] = TRUE]
  /\ Goto(t, "loop")
  /\ UNCHANGED <<cause, cvars, nrun, elapsed, fvars, child, others, status>>

\* The tester calls wait4().
Wait(t) ==
  /\ tpc[t] = "loop"
  /\ Goto(t, "wait4")
  /\ UNCHANGED <<cause, cvars, nrun, elapsed, armed, fvars, pvars>>

\* wait4() returns the child and how it ended, by itself or before execlp().
Reap(t) ==
  /\ tpc[t] = "wait4" /\ child[t] = "zombie"
  /\ child' = [child EXCEPT ![t] = "reaped"]
  /\ \E s \in Statuses : status' = [status EXCEPT ![t] = s]
  /\ elapsed' = [elapsed EXCEPT ![t] = 0]
  /\ Goto(t, "waited")
  /\ UNCHANGED <<cause, cvars, nrun, armed, fvars, group, others>>

\* wait4() fails with ECHILD: SIGCHLD was ignored when the tester was started.
LostTrack(t) ==
  /\ tpc[t] = "wait4" /\ child[t] = "zombie" /\ t \in MayFail
  /\ child' = [child EXCEPT ![t] = "reaped"]
  /\ Fail(t, "lost")
  /\ UNCHANGED <<cvars, nrun, elapsed, armed, fvars, group, others, status>>

\* kill(-child, SIGKILL): the processes of the group, if there is one.
\* Mutant of KillGroup: kill(child, SIGKILL).
KillChild(t) ==
  /\ child' = [child EXCEPT ![t] = IF @ \in Live THEN "dying" ELSE @]
  /\ UNCHANGED others
KillGroup(t) ==
  IF group[t]
  THEN /\ child' = [child EXCEPT ![t] = IF @ \in Live THEN "dying" ELSE @]
       /\ others' = [others EXCEPT ![t] = IF @ = "run" THEN "dying" ELSE @]
  ELSE UNCHANGED <<child, others>>

\* The timer goes off again every 10 ms.
\* Mutant of Rearmed: it goes off once.
OneShot(t) == armed' = [armed EXCEPT ![t] = FALSE]
Rearmed(t) == UNCHANGED armed

\* SIGALRM: wake() does nothing, but wait4() is interrupted.  If the tester is
\* on its way to wait4() the signal has no effect.
Alarm(t) ==
  /\ armed[t] /\ elapsed[t] >= TIME_LIMIT
  /\ tpc[t] \in {"loop", "wait4"}
  /\ Rearmed(t)
  /\ IF tpc[t] = "wait4"
     THEN KillGroup(t) /\ Fail(t, "timeout")
     ELSE UNCHANGED <<tpc, cause, child, others>>
  /\ UNCHANGED <<cvars, nrun, elapsed, fvars, group, status>>

\* The signal a status stands for: bash's 128 + signal, too.
\* Mutant of SignalOf: only the child's own signal.
OwnSignal(s) == IF s.how = "signal" THEN s.code ELSE 0
SignalOf(s) == IF s.how = "signal" THEN s.code
               ELSE IF s.code > 128 /\ s.code < 128 + NSIG THEN s.code - 128
               ELSE 0
ExitStatus(s) == IF s.how = "exit" THEN s.code ELSE 0

Reports(s) == IF SignalOf(s) = SIGXFSZ THEN "output"
              ELSE IF SignalOf(s) # 0 THEN "signal"
              ELSE IF ExitStatus(s) # 0 THEN "status"
              ELSE "none"

\* Whether report_timing() has made its last execution, or run() its only one.
\* Mutant of TrialsDone: one more.
TrialsLate(t) == nrun[t] \in {1, 2 + 2 * TRIALS}
TrialsDone(t) == nrun[t] \in {1, 1 + 2 * TRIALS}

\* The rest of execute(): stop the timer, kill what is left, and
\* fail if the command has failed or a sanitizer has written to its stderr.
\* report_timing() then goes on.
Finish(t) ==
  /\ tpc[t] = "waited"
  /\ armed' = [armed EXCEPT ![t] = FALSE]
  /\ KillGroup(t)
  /\ \/ Fail(t, "verdict")
     \/ /\ Reports(status[t]) = "none"
        /\ Goto(t, IF TrialsDone(t) THEN "results" ELSE "exec")
        /\ UNCHANGED cause
  /\ status' = [status EXCEPT ![t] = NoStatus]
  /\ UNCHANGED <<cvars, nrun, elapsed, fvars, group>>

\* report_timing(): stdio and the tested library, TRIALS times.
ReportTiming(t) ==
  /\ tpc[t] = "results" /\ nrun[t] = 1
  /\ Goto(t, "exec")
  /\ UNCHANGED <<cause, cvars, nrun, elapsed, armed, fvars, pvars>>

-----------------------------------------------------------------------------
(* The end of a test.                                                      *)

\* remove_all(): it fails, without notice, if a process that is still alive
\* makes a file in the directory meanwhile.
RemoveAll(t) ==
  \/ keep[t] /\ UNCHANGED dir
  \/ ~keep[t] /\ dir' = dir \ {t}
  \/ (child[t] \in Live \/ others[t] # "none") /\ UNCHANGED dir

\* Mutant of FailRemoves: fail() leaves it to the destructor.
LeaveDir(t) == UNCHANGED dir
FailRemoves(t) == RemoveAll(t)

FailRemove(t) ==
  /\ tpc[t] = "fail"
  /\ FailRemoves(t)
  /\ Exit(t)
  /\ UNCHANGED <<cause, cvars, nrun, cached, data, writable, tmp, input, child, group,
                 others>>

\* abort_handler(), when an assertion of the test fails.
Abort(t) ==
  /\ tpc[t] = "results"
  /\ RemoveAll(t)
  /\ End(t, "abort")
  /\ UNCHANGED <<cvars, nrun, cached, data, writable, tmp, input, child, group, others>>

\* main() returns: ~io61_tester().
Return(t) ==
  /\ tpc[t] = "results" \/ (tpc[t] = "setup" /\ t \notin Running)
  /\ RemoveAll(t)
  /\ End(t, "ok")
  /\ UNCHANGED <<cvars, nrun, cached, data, writable, tmp, input, child, group, others>>

\* Somebody kills the test program, at any time.
Killed(t) ==
  /\ tpc[t] \notin {"new", "ended"} /\ t \in MayFail
  /\ End(t, "killed")
  /\ UNCHANGED <<cvars, nrun, fvars, child, group, others>>

-----------------------------------------------------------------------------
(* The command and the clock.                                              *)

ChildGroup(t) ==
  /\ child[t] = "pre"
  /\ child' = [child EXCEPT ![t] = "set"] /\ group' = [group EXCEPT ![t] = TRUE]
  /\ UNCHANGED <<tpc, cause, cvars, nrun, elapsed, armed, fvars, others, status>>

\* chdir() and execlp(), or _exit() where they fail.
ChildExec(t) ==
  /\ child[t] = "set"
  /\ \/ child' = [child EXCEPT ![t] = "run"]
     \/ t \in MayFail /\ child' = [child EXCEPT ![t] = "zombie"]
  /\ UNCHANGED <<tpc, cause, cvars, nrun, elapsed, armed, fvars, group, others, status>>

\* The command runs other processes, which may stay.
CommandForks(t) ==
  /\ child[t] = "run" /\ others[t] = "none"
  /\ others' = [others EXCEPT ![t] = "run"]
  /\ UNCHANGED <<tpc, cause, cvars, nrun, elapsed, armed, fvars, child, group, status>>

\* A process of the command overwrites the input file, if it can.
CommandWrites(t) ==
  /\ child[t] \in {"run", "dying"} \/ others[t] # "none"
  /\ LET i == input[DirOf(t)] IN
       /\ i # NoFile /\ (root \/ i \in writable)
       /\ data' = [data EXCEPT ![i] = "junk"]
  /\ UNCHANGED <<tpc, cause, cvars, nrun, elapsed, armed, cached, writable, tmp, input, dir,
                 pvars>>

\* The child ends by itself or of SIGKILL.
ChildEnds(t) ==
  /\ child[t] \in {"run", "dying"}
  /\ child' = [child EXCEPT ![t] = "zombie"]
  /\ UNCHANGED <<tpc, cause, cvars, nrun, elapsed, armed, fvars, group, others, status>>

OthersEnd(t) ==
  /\ others[t] # "none"
  /\ others' = [others EXCEPT ![t] = "none"]
  /\ UNCHANGED <<tpc, cause, cvars, nrun, elapsed, armed, fvars, child, group, status>>

Tick(t) ==
  /\ tpc[t] \in {"forked", "loop", "wait4"} /\ elapsed[t] < MAX_TIME
  /\ elapsed' = [elapsed EXCEPT ![t] = @ + 1]
  /\ UNCHANGED <<tpc, cause, cvars, nrun, armed, fvars, pvars>>

-----------------------------------------------------------------------------
TesterStep(t) ==
  \/ Construct(t) \/ WriteFile(t) \/ MakeInput(t) \/ MakeInputOpen(t) \/ MakeInputFill(t)
  \/ MakeInputRename(t) \/ MakeInputLink(t) \/ Run(t) \/ Fork(t) \/ Forked(t)
  \/ Wait(t) \/ Reap(t) \/ Finish(t) \/ ReportTiming(t)
  \/ FailRemove(t) \/ Abort(t) \/ Return(t)
TesterFault(t) == ConstructFails(t) \/ WrongOrder(t) \/ ExecuteFails(t) \/ LostTrack(t)
                  \/ Killed(t)
CommandStep(t) == ChildGroup(t) \/ ChildExec(t) \/ CommandForks(t) \/ CommandWrites(t)
                  \/ ChildEnds(t) \/ OthersEnd(t)

AllOver == (\A t \in Testers : tpc[t] = "ended") /\ UNCHANGED vars

Next == \/ \E t \in Testers : \/ TesterStep(t) \/ TesterFault(t) \/ CommandStep(t)
                              \/ Alarm(t) \/ Tick(t)
        \/ AllOver

\* Testers are scheduled, time passes and alarms arrive; a command may hang.
Fairness == \A t \in Testers :
              WF_vars(TesterStep(t)) /\ WF_vars(Tick(t)) /\ WF_vars(Alarm(t))

Spec == Init /\ [][Next]_vars
FairSpec == Spec /\ Fairness

-----------------------------------------------------------------------------
(* Properties.                                                             *)

\* What the harness keeps has its type, and no more trials run than asked for.
TypeOK ==
  /\ tpc \in [Testers -> TesterPCs] /\ cause \in [Testers -> Causes]
  /\ keep \in [Testers -> BOOLEAN] /\ setups \in [Testers -> 0 .. SETUPS]
  /\ want \in [Testers -> {"none", "full", "own"}]
  /\ nrun \in [Testers -> 0 .. 1 + 2 * TRIALS]
  /\ elapsed \in [Testers -> 0 .. MAX_TIME] /\ armed \in [Testers -> BOOLEAN]
  /\ root \in BOOLEAN
  /\ cached \in Inodes \cup {NoFile} /\ data \in [Inodes -> Contents]
  /\ writable \subseteq Inodes /\ tmp \subseteq Testers
  /\ input \in [Dirs -> Inodes \cup {NoFile}] /\ dir \subseteq Dirs
  /\ child \in [Testers -> ChildStates] /\ group \in [Testers -> BOOLEAN]
  /\ others \in [Testers -> {"none", "run", "dying"}]
  /\ status \in [Testers -> Statuses \cup {NoStatus}]

\* The cache never holds wrong bytes of the right size, which later tests would
\* take for the file they ask for: neither testers that generate it at the same
\* time, nor one that dies half-way, nor a command that writes to its input.
CacheRight == cached # NoFile => data[cached] \in {"short", "full"}

\* When the command is started for the first time, a generated input file is
\* complete, whatever other testers do to the cache between stat() and link().
InputRight ==
  \A t \in Testers :
    tpc[t] = "exec" /\ nrun[t] = 0 /\ want[t] = "full" => data[input[DirOf(t)]] = "full"

\* "Kill any processes the command left behind": when a test has ended, nothing
\* of its command goes on running, unless the test program was killed or lost
\* track of its command.
NothingLeft ==
  \A t \in Testers :
    tpc[t] = "ended" /\ cause[t] \notin {"killed", "lost"} =>
      child[t] \notin {"pre", "set", "run"} /\ others[t] # "run"

\* "a run directory, `out/TESTNAME-PID`, which is removed when the test exits":
\* so it is at every exit by fail(), abort_handler() or the destructor, if no
\* process of the command was still dying then.
RunDirRemoved ==
  [][ \A t \in Testers :
        /\ tpc[t] # "ended" /\ tpc'[t] = "ended"
        /\ cause'[t] \notin {"killed", "library"}
        /\ child[t] \notin Live /\ others[t] = "none"
        => t \notin dir' ]_vars

\* "The test implicitly asserts that the command exits with status 0 and doesn't
\* crash, ... run longer than its time limit": the test sees results only of a
\* command that has exited with 0, with no process of it running on and no alarm
\* to come.
ResultsRight ==
  [][ \A t \in Testers :
        tpc[t] # "results" /\ tpc'[t] = "results" =>
          /\ status[t] = Exited(0) /\ child'[t] = "reaped"
          /\ others'[t] # "run" /\ ~armed'[t] ]_vars

\* Every test whose command has been started ends, although the command may
\* hang and an alarm may come just before wait4() is called.
TestEnds == \A t \in Testers : (tpc[t] = "forked") ~> (tpc[t] \in {"results", "ended"})

\* Generated files are complete when they are used, although tests share them.
FilesRight == TypeOK /\ CacheRight /\ InputRight

\* Every test ends, with the results of a command that succeeded or without any, and
\* its run directory goes.
EveryTestEnds == TestEnds /\ ResultsRight /\ RunDirRemoved
=============================================================================
