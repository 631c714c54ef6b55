-------------------------------- MODULE Runsv --------------------------------
(***************************************************************************)
(* runsv, BusyBox's service supervisor (runit/runsv.c): service 0 is the   *)
(* directory's ./run with its ./finish, service 1 is ./log/run.            *)
(*                                                                         *)
(* runsv is one thread: it starts what should run, sleeps in poll() - the  *)
(* only place where it takes signals - then reaps children, reads at most  *)
(* one command of each control fifo, and looks whether it may exit.        *)
(* Children die, and commands and SIGTERM come, at any time.               *)
(***************************************************************************)
EXTENDS Integers, FiniteSets

CONSTANTS
  Pids,        \* process numbers; the kernel gives out any that is free
  HasLog,      \* TRUE: there is a directory ./log
  HasFinish,   \* TRUE: there is a ./finish
  Handled,     \* commands whose control/? script exists and exits 0
  MaxCmds      \* bound: commands and SIGTERMs that come

Commands == {"d", "u", "x", "t", "k", "p", "c", "o", "h"}

ASSUME RunsvAssumption ==
  /\ 0 \notin Pids /\ HasLog \in BOOLEAN /\ HasFinish \in BOOLEAN
  /\ Handled \subseteq Commands /\ MaxCmds \in Nat

VARIABLES
  pc,       \* where runsv is: "log", "main", "poll", "reap", "ctrl0", "ctrl1",
            \* "term", "exit" or, when it is gone, "gone"
  svd,      \* per service: pid (0 for none), state, want
  status,   \* per service: pid, state and want in its supervise/status
  wstat,    \* svd[0].wstat: whose exit status it is
  logpipe,  \* the pipe from ./run to ./log/run is open in runsv
  sigterm,  \* SIGTERM was taken
  proc,     \* the process table: what each pid is
  chld,     \* SIGCHLD is pending
  term,     \* SIGTERM is pending
  cmds      \* commands that came so far

vars == <<pc, svd, status, wstat, logpipe, sigterm, proc, chld, term, cmds>>

Services == {0, 1}
Kinds    == {"run", "finish", "log"}
States   == {"down", "run", "finish"}
Wants    == {"up", "down", "exit"}
NoProc   == [kind |-> "none", dead |-> FALSE, term |-> FALSE, kill |-> FALSE, stop |-> FALSE]

Alive(p)     == proc[p].kind # "none" /\ ~proc[p].dead
Signalled(p) == proc[p].term \/ proc[p].kill
Tracked      == {svd[i].pid : i \in Services}

-----------------------------------------------------------------------------
\* update_status: what `sv' reads from then on; the file has only u and d.
Published(s) ==
  [pid |-> s.pid, state |-> s.state, want |-> IF s.want = "up" THEN "up" ELSE "down"]

Update(i, s) ==
  /\ svd' = [svd EXCEPT ![i] = s]
  /\ status' = [status EXCEPT ![i] = Published(s)]

\* custom: control/c of the service itself took care of the command.
Custom(i, c) == i = 0 /\ c \in Handled

\* kill(p, sig) in the process table t; 0 and a zombie do not mind.
Kill(t, p, sig) ==
  IF p \notin Pids \/ t[p].kind = "none" THEN t
  ELSE CASE sig = "TERM" -> [t EXCEPT ![p].term = TRUE]
         [] sig = "KILL" -> [t EXCEPT ![p].kill = TRUE]
         [] sig = "STOP" -> [t EXCEPT ![p].stop = TRUE]
         [] sig = "CONT" -> [t EXCEPT ![p].stop = FALSE]

\* stopservice: TERM, and CONT when the service is to stay down.
Stopped(t, i, s) ==
  LET asked == IF s.pid # 0 /\ ~Custom(i, "t") THEN Kill(t, s.pid, "TERM") ELSE t
  IN  IF s.want \in {"down", "exit"} THEN Kill(asked, s.pid, "CONT") ELSE asked

\* Mutant: the process that is still there is not stopped.
StartService_careless(i, s) ==
  \E p \in {q \in Pids : proc[q].kind = "none"} :
    /\ Update(i, [s EXCEPT !.pid = p, !.state = IF @ = "finish" THEN @ ELSE "run"])
    /\ proc' = [proc EXCEPT
         ![p] = [NoProc EXCEPT !.kind = IF i = 1 THEN "log"
                                        ELSE IF s.state = "finish" THEN "finish" ELSE "run",
                               !.dead = HasLog /\ ~logpipe]]
    /\ chld' = (chld \/ (HasLog /\ ~logpipe))

\* startservice: a process that is still there is stopped and forgotten, then
\* ./run or ./finish gets a process; with the log pipe closed the child dies
\* in xdup2.  vfork is repeated until there is a process.
StartService(i, s) ==
  \E p \in {q \in Pids : proc[q].kind = "none"} :
    /\ Update(i, [s EXCEPT !.pid = p, !.state = IF @ = "finish" THEN @ ELSE "run"])
    /\ proc' = [(IF s.pid # 0 THEN Stopped(proc, i, s) ELSE proc) EXCEPT
         ![p] = [NoProc EXCEPT !.kind = IF i = 1 THEN "log"
                                        ELSE IF s.state = "finish" THEN "finish" ELSE "run",
                               !.dead = HasLog /\ ~logpipe]]
    /\ chld' = (chld \/ (HasLog /\ ~logpipe))

-----------------------------------------------------------------------------
\* INIT_G and the start of runsv_main; a file `down' makes the service wait.
Init ==
  /\ pc = "log"
  /\ svd \in [Services -> [pid : {0}, state : {"down"}, want : {"up", "down"}]]
  /\ ~HasLog => svd[1].want = "up"
  /\ status = [i \in Services |-> Published(svd[i])]
  /\ wstat = "none" /\ logpipe = HasLog /\ sigterm = FALSE
  /\ proc = [p \in Pids |-> NoProc] /\ chld = FALSE /\ term = FALSE /\ cmds = 0

\* The top of the loop: the log first, then the service or its ./finish.
StartLog ==
  /\ pc = "log" /\ pc' = "main"
  /\ IF HasLog /\ svd[1].pid = 0 /\ svd[1].want = "up"
     THEN StartService(1, svd[1])
     ELSE UNCHANGED <<svd, status, proc, chld>>
  /\ UNCHANGED <<wstat, logpipe, sigterm, term, cmds>>

StartMain ==
  /\ pc = "main" /\ pc' = "poll"
  /\ IF svd[0].pid = 0 /\ (svd[0].want = "up" \/ svd[0].state = "finish")
     THEN StartService(0, svd[0])
     ELSE UNCHANGED <<svd, status, proc, chld>>
  /\ UNCHANGED <<wstat, logpipe, sigterm, term, cmds>>

\* poll: pending signals are delivered, s_chld_term writes to the self-pipe,
\* which ends poll and is drained.
PollSignal ==
  /\ pc = "poll" /\ (chld \/ term)
  /\ pc' = "reap" /\ chld' = FALSE /\ term' = FALSE /\ sigterm' = (sigterm \/ term)
  /\ UNCHANGED <<svd, status, wstat, logpipe, proc, cmds>>

\* poll ends without a signal: a control fifo is readable, or an hour is over.
PollOther ==
  /\ pc = "poll" /\ ~chld /\ ~term /\ pc' = "reap"
  /\ UNCHANGED <<svd, status, wstat, logpipe, sigterm, proc, chld, term, cmds>>

\* A child that is in neither slot any more is only taken out of the table.
ReapOther(p) == p \notin Tracked /\ UNCHANGED <<svd, status, wstat>>

\* ./run ended: its ./finish is next, if there is one; ./finish ended: down.
ReapMain(p) ==
  /\ p = svd[0].pid
  /\ wstat' = proc[p].kind
  /\ Update(0, [svd[0] EXCEPT !.pid = 0,
       !.state = IF @ # "finish" /\ HasFinish THEN "finish" ELSE "down"])

\* The status of the log process goes to svd[0].wstat, too.
ReapLog(p) ==
  /\ p = svd[1].pid
  /\ wstat' = proc[p].kind
  /\ Update(1, [svd[1] EXCEPT !.pid = 0, !.state = "down"])

Zombies == {p \in Pids : proc[p].dead}

\* Mutant: one child for each signal.
Reap_one ==
  /\ pc = "reap" /\ pc' = "ctrl0"
  /\ \/ \E p \in Zombies :
          /\ proc' = [proc EXCEPT ![p] = NoProc]
          /\ ReapMain(p) \/ ReapLog(p) \/ ReapOther(p)
     \/ Zombies = {} /\ UNCHANGED <<svd, status, wstat, proc>>
  /\ UNCHANGED <<logpipe, sigterm, chld, term, cmds>>

\* wait_any_nohang until there is nobody left to wait for.
Reap ==
  /\ pc = "reap"
  /\ \/ \E p \in Zombies :
          /\ proc' = [proc EXCEPT ![p] = NoProc]
          /\ ReapMain(p) \/ ReapLog(p) \/ ReapOther(p)
          /\ UNCHANGED pc
     \/ Zombies = {} /\ pc' = "ctrl0" /\ UNCHANGED <<svd, status, wstat, proc>>
  /\ UNCHANGED <<logpipe, sigterm, chld, term, cmds>>

-----------------------------------------------------------------------------
(* ctrl(&svd[i], c), one disjunct for each command                         *)

Signal(i, c, sig) ==
  proc' = IF svd[i].state = "run" /\ ~Custom(i, c) THEN Kill(proc, svd[i].pid, sig) ELSE proc

StopIfRunning(i, s) == proc' = IF s.state = "run" THEN Stopped(proc, i, s) ELSE proc

Want(i, w) == [svd[i] EXCEPT !.want = w]

StartIfDown(i, s) ==
  IF s.state = "down" THEN StartService(i, s) ELSE Update(i, s) /\ UNCHANGED <<proc, chld>>

ctrl_down(i) ==
  Update(i, Want(i, "down")) /\ StopIfRunning(i, Want(i, "down")) /\ UNCHANGED chld

ctrl_up(i) == StartIfDown(i, Want(i, "up"))

ctrl_once(i) == StartIfDown(i, Want(i, "down"))

\* Mutant: exit is noted, but the service is not told to stop.
ctrl_exit_quiet(i) ==
  /\ IF i = 1 THEN UNCHANGED <<svd, status>> ELSE Update(i, Want(i, "exit"))
  /\ UNCHANGED <<proc, chld>>

ctrl_exit(i) ==
  /\ IF i = 1 THEN UNCHANGED <<svd, status, proc>>
     ELSE Update(i, Want(i, "exit")) /\ StopIfRunning(i, Want(i, "exit"))
  /\ UNCHANGED chld

ctrl_term(i) == StopIfRunning(i, svd[i]) /\ UNCHANGED <<svd, status, chld>>

\* The state is "down" at once, whatever was running, and is not published.
ctrl_kill(i) ==
  /\ Signal(i, "k", "KILL")
  /\ svd' = [svd EXCEPT ![i].state = "down"]
  /\ UNCHANGED <<status, chld>>

ctrl_pause(i) == Signal(i, "p", "STOP") /\ Update(i, svd[i]) /\ UNCHANGED chld

ctrl_cont(i) == Signal(i, "c", "CONT") /\ Update(i, svd[i]) /\ UNCHANGED chld

\* Alarm, hup, int, quit, usr1, usr2: what they do is the service's business.
ctrl_signal(i) == UNCHANGED <<svd, status, proc, chld>>

Ctrl(i, c) ==
  \/ c = "d" /\ ctrl_down(i)
  \/ c = "u" /\ ctrl_up(i)
  \/ c = "x" /\ ctrl_exit(i)
  \/ c = "t" /\ ctrl_term(i)
  \/ c = "k" /\ ctrl_kill(i)
  \/ c = "p" /\ ctrl_pause(i)
  \/ c = "c" /\ ctrl_cont(i)
  \/ c = "o" /\ ctrl_once(i)
  \/ c = "h" /\ ctrl_signal(i)

\* A byte of the fifo, if there is one: nothing else tells when it was written.
ReadControl(i, here, next) ==
  /\ pc = here /\ pc' = next
  /\ \/ cmds < MaxCmds /\ cmds' = cmds + 1 /\ \E c \in Commands : Ctrl(i, c)
     \/ UNCHANGED <<svd, status, proc, chld, cmds>>
  /\ UNCHANGED <<wstat, logpipe, sigterm, term>>

ReadControl0 == ReadControl(0, "ctrl0", IF HasLog THEN "ctrl1" ELSE "term")
ReadControl1 == ReadControl(1, "ctrl1", "term")

\* SIGTERM is the command x.
HandleTerm ==
  /\ pc = "term" /\ pc' = "exit" /\ sigterm' = FALSE
  /\ IF sigterm THEN ctrl_exit(0) ELSE UNCHANGED <<svd, status, proc, chld>>
  /\ UNCHANGED <<wstat, logpipe, term, cmds>>

Leaving == svd[0].want = "exit" /\ svd[0].state = "down"

\* Mutant: the log pipe is never closed.
ExitCheck_open ==
  /\ pc = "exit"
  /\ pc' = IF Leaving /\ svd[1].pid = 0 THEN "gone" ELSE "log"
  /\ IF Leaving /\ svd[1].pid # 0 /\ svd[1].want # "exit"
     THEN Update(1, Want(1, "exit"))
     ELSE UNCHANGED <<svd, status>>
  /\ UNCHANGED <<wstat, logpipe, sigterm, proc, chld, term, cmds>>

\* Mutant: only the wish is looked at, and `down' is taken for `exit'.
ExitCheck_early ==
  /\ pc = "exit"
  /\ pc' = IF Leaving /\ svd[1].pid = 0 THEN "gone" ELSE "log"
  /\ IF svd[0].want # "up" /\ svd[1].pid # 0 /\ svd[1].want # "exit"
     THEN Update(1, Want(1, "exit")) /\ logpipe' = FALSE
     ELSE UNCHANGED <<svd, status, logpipe>>
  /\ UNCHANGED <<wstat, sigterm, proc, chld, term, cmds>>

\* With the service down the log is told to end by closing its pipe, and
\* runsv exits when it has.
ExitCheck ==
  /\ pc = "exit"
  /\ pc' = IF Leaving /\ svd[1].pid = 0 THEN "gone" ELSE "log"
  /\ IF Leaving /\ svd[1].pid # 0 /\ svd[1].want # "exit"
     THEN Update(1, Want(1, "exit")) /\ logpipe' = FALSE
     ELSE UNCHANGED <<svd, status, logpipe>>
  /\ UNCHANGED <<wstat, sigterm, proc, chld, term, cmds>>

-----------------------------------------------------------------------------
(* The children and whoever sends SIGTERM                                  *)

\* A process ends; a stopped one only by SIGKILL.
Die(p) ==
  /\ Alive(p) /\ (proc[p].stop => proc[p].kill)
  /\ IF pc = "gone" THEN proc' = [proc EXCEPT ![p] = NoProc] /\ UNCHANGED chld
     ELSE proc' = [proc EXCEPT ![p].dead = TRUE] /\ chld' = TRUE
  /\ UNCHANGED <<pc, svd, status, wstat, logpipe, sigterm, term, cmds>>

SendTerm ==
  /\ pc # "gone" /\ ~term /\ cmds < MaxCmds
  /\ term' = TRUE /\ cmds' = cmds + 1
  /\ UNCHANGED <<pc, svd, status, wstat, logpipe, sigterm, proc, chld>>

Loop == \/ StartLog \/ StartMain \/ PollSignal \/ Reap
        \/ ReadControl0 \/ ReadControl1 \/ HandleTerm \/ ExitCheck

Next == Loop \/ PollOther \/ (\E p \in Pids : Die(p)) \/ SendTerm

Spec == Init /\ [][Next]_vars

\* A log process at the end of its input: no writer is left.
AtEof(p) == proc[p].kind = "log" /\ ~logpipe /\ \A q \in Pids : Alive(q) => proc[q].kind = "log"

\* The loop goes on, poll ends at a signal (its hour is not counted on), a
\* process that is told to ends, and so do ./finish and a log without input.
FairSpec ==
  /\ Spec /\ WF_vars(Loop)
  /\ \A p \in Pids : WF_vars(Die(p) /\ (Signalled(p) \/ proc[p].kind = "finish" \/ AtEof(p)))

-----------------------------------------------------------------------------
(* Properties                                                              *)

\* The types.
TypeOK ==
  /\ pc \in {"log", "main", "poll", "reap", "ctrl0", "ctrl1", "term", "exit", "gone"}
  /\ svd \in [Services -> [pid : Pids \cup {0}, state : States, want : Wants]]
  /\ status \in [Services -> [pid : Pids \cup {0}, state : States, want : {"up", "down"}]]
  /\ wstat \in Kinds \cup {"none"}
  /\ logpipe \in BOOLEAN /\ sigterm \in BOOLEAN /\ chld \in BOOLEAN /\ term \in BOOLEAN
  /\ proc \in [Pids -> [kind : Kinds \cup {"none"}, dead : BOOLEAN, term : BOOLEAN,
                        kill : BOOLEAN, stop : BOOLEAN]]
  /\ cmds \in 0 .. MaxCmds

KindsOf(i) == IF i = 1 THEN {"log"} ELSE {"run", "finish"}

\* A number in a slot is that of a child of the right kind which has not been
\* reaped, and a service in state "run" has one: no signal goes to a process
\* that got the number later, or to runsv's own group (stopservice, ctrl).
SignalsOwnChild ==
  pc # "gone" =>
    \A i \in Services :
      /\ svd[i].pid # 0 => proc[svd[i].pid].kind \in KindsOf(i)
      /\ svd[i].state = "run" => svd[i].pid # 0

\* What the state of the service says of the process in its slot: ./run or
\* ./finish, or, after kill, one that was killed or a ./finish (startservice,
\* and the command k of ctrl).
StateFits ==
  pc # "gone" /\ svd[0].pid # 0 =>
    LET p == proc[svd[0].pid]
    IN  /\ svd[0].state = "run" => p.kind = "run"
        /\ svd[0].state = "finish" => p.kind = "finish"
        /\ svd[0].state = "down" => p.kind = "finish" \/ p.kill

\* A process that runsv no longer has in a slot, after kill and up for
\* example, was told to stop (startservice, `should never happen').
ForgottenAreStopping ==
  \A p \in Pids : Alive(p) /\ p \notin Tracked => Signalled(p)

\* When runsv is gone, whatever the order of the commands, every process of the
\* service and of its log that is left was told to stop, and nobody will be
\* told by a status file that it should be up (runsv_main, the exit test).
GoneLeavesNothing ==
  pc = "gone" =>
    /\ \A p \in Pids : Alive(p) /\ proc[p].kind # "finish" => Signalled(p)
    /\ status[0].want = "down"

\* As long as the service runs undisturbed its output has a reader to come:
\* runsv keeps the log pipe open (runsv_main, close(logpipe)).
LogPipeOutlivesService ==
  HasLog /\ ~logpipe =>
    ~\E p \in Pids : Alive(p) /\ proc[p].kind = "run" /\ ~Signalled(p)

\* What sv reads: the true pid and wish of each service, and "down" only for a
\* service that is down (update_status after each change).
StatusTrue ==
  \A i \in Services :
    /\ status[i].pid = svd[i].pid /\ (status[i].want = "up" <=> svd[i].want = "up")
    /\ status[i].state = "down" => svd[i].state = "down"

\* What holds at every step of runsv_main, ctrl and startservice: signals go to
\* runsv's own children, no process is forgotten that was not told to stop,
\* neither during the run nor after it, and the status files tell the truth.
RunsvInv ==
  /\ TypeOK /\ SignalsOwnChild /\ StateFits /\ ForgottenAreStopping
  /\ GoneLeavesNothing /\ StatusTrue

\* ./finish is given the exit status of ./run (startservice, its comment).
FinishGetsRunStatus ==
  [][\A p \in Pids : proc[p].kind = "none" /\ proc'[p].kind = "finish" => wstat = "run"]_vars

Abstract == INSTANCE Service WITH
  want <- svd[0].want,
  inst <- {p \in Pids : Alive(p) /\ proc[p].kind = "run" /\ ~Signalled(p)},
  gone <- pc = "gone"

\* runsv is a supervisor: one undisturbed ./run at most, started only when it
\* is wanted, none after down or exit, none left behind (all of runsv.c).
ImplementsService == Abstract!Spec

Paused == svd[0].pid # 0 /\ proc[svd[0].pid].stop

\* A service that stays wanted, is not paused and has its log pipe is started
\* again whenever it ends: no death is missed (self-pipe, wait_any_nohang).
WantedIsRunning ==
  <>[](svd[0].want = "up" /\ ~Paused /\ logpipe = HasLog) =>
    []<>(svd[0].pid # 0 /\ proc[svd[0].pid].kind = "run")

\* runsv exits when that stays wanted, after its service and its log, unless
\* the process it waits for is paused (runsv_main, the exit test).
ExitCompletes ==
  <>[](svd[0].want = "exit" /\ \A i \in Services : svd[i].pid # 0 => ~proc[svd[i].pid].stop)
    => <>(pc = "gone")

=============================================================================
