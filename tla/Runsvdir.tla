------------------------------- MODULE Runsvdir -------------------------------
(***************************************************************************)
(* runsvdir, which keeps a runsv for every service in a directory          *)
(* (BusyBox, runit/runsvdir.c), with the runsv processes as its children.  *)
(*                                                                         *)
(* Nobody tells runsvdir of a change: it compares the directory's mtime,   *)
(* in whole seconds, with the one it scanned.  Time is therefore kept as   *)
(* what the code can tell of it: whether the directory changed in the      *)
(* current second, whether last_mtime is the current second, and whether   *)
(* the two are equal.  Entries are links, so that an entry which comes     *)
(* back leads to the same inode, and to the lock of a runsv still there.   *)
(***************************************************************************)
EXTENDS Integers

CONSTANTS
  Names,   \* the services there may be entries for
  Fixed,   \* those whose entry is never touched
  Pids,    \* process numbers
  Modes    \* how runsvdir may have been started: as process 1, with -s SCRIPT;
           \* bounds: the services for which stat and realloc may fail, and the
           \* signals that come

ASSUME RunsvdirAssumption ==
  /\ Pids \subseteq Nat \ {0} /\ Fixed \subseteq Names
  /\ Modes \subseteq [init : BOOLEAN, script : BOOLEAN, shaky : SUBSET Names,
                       sigs : SUBSET {"hup", "term"}]

VARIABLES
  mode,        \* one of Modes, for good
  pc,          \* "collect", "check", "settle", "scan", "badscan", "sleep",
               \* "script", "handle", or it has exited: "gone", "gone_hup"
  sv,          \* the table: pid of the runsv of a service; 0 when it has none,
               \* written Unstarted when runsv() had failed; or Absent
  seen,        \* services met in this scan (the others have isgone = 1)
  todo,        \* entries this scan has not come to yet
  unread,      \* history: entries the latest scan passed over
  rescan,      \* need_rescan
  sig,         \* bb_got_signal
  taken,       \* the local sig: the signal being handled
  dir,         \* the entries of the directory
  current,     \* last_mtime is the mtime of the directory
  changedNow,  \* the mtime of the directory is the current second
  lastNow,     \* last_mtime is the current second
  proc         \* per pid: the service and state of a runsv

scanVars == <<seen, todo, unread>>
runVars  == <<pc, sv, scanVars, rescan, sig, taken>>
dirVars  == <<dir, current, changedNow, lastNow>>
vars == <<mode, runVars, dirVars, proc>>

Absent    == -1
Unstarted == -2
NoProc == [svc |-> "none", st |-> "none", term |-> FALSE]
Free   == {p \in Pids : proc[p].st = "none"}
Dead   == {p \in Pids : proc[p].st = "dead"}
Alive(p)   == proc[p].st \in {"new", "held"}
Holder(n)  == {p \in Pids : proc[p].svc = n /\ proc[p].st = "held"}
Listed     == {n \in Names : sv[n] # Absent}

Init ==
  /\ mode \in Modes
  /\ pc = "collect" /\ sv = [n \in Names |-> Absent] /\ seen = {} /\ todo = {} /\ unread = {}
  /\ rescan = TRUE /\ sig = "none" /\ taken = "none"
  /\ dir \in {d \in SUBSET Names : Fixed \subseteq d} /\ changedNow \in BOOLEAN
  /\ current = FALSE /\ lastNow = FALSE
  /\ proc = [p \in Pids |-> NoProc]

-----------------------------------------------------------------------------
(* The loop of runsvdir_main                                               *)

Goto(label) == pc' = label

\* kill(pid, SIGTERM) for every number in the set.
Terminated(t, ps) == [p \in Pids |-> IF p \in ps /\ Alive(p) THEN [t[p] EXCEPT !.term = TRUE] ELSE t[p]]

\* Mutant: the slot is cleared, but no scan is asked for.
Collect_forgets ==
  /\ pc = "collect" /\ Goto("check")
  /\ sv' = [n \in Names |-> IF sv[n] \in Dead THEN 0 ELSE sv[n]]
  /\ proc' = [p \in Pids |-> IF p \in Dead THEN NoProc ELSE proc[p]]
  /\ UNCHANGED <<mode, scanVars, rescan, sig, taken, dirVars>>

\* Children are collected; a runsv that died leaves its slot.
Collect ==
  /\ pc = "collect" /\ Goto("check")
  /\ sv' = [n \in Names |-> IF sv[n] \in Dead THEN 0 ELSE sv[n]]
  /\ rescan' = (rescan \/ \E n \in Names : sv[n] \in Dead)
  /\ proc' = [p \in Pids |-> IF p \in Dead THEN NoProc ELSE proc[p]]
  /\ UNCHANGED <<mode, scanVars, sig, taken, dirVars>>

\* Mutant: a new mtime is not noticed.
CheckScans_asked ==
  /\ pc = "check" /\ rescan /\ Goto("settle")
  /\ current' = TRUE /\ lastNow' = changedNow /\ unread' = {}
  /\ UNCHANGED <<mode, sv, seen, todo, rescan, sig, taken, dir, changedNow, proc>>

\* At most once a second: scan when asked to, or when the mtime is another.
CheckScans ==
  /\ pc = "check" /\ (rescan \/ ~current) /\ Goto("settle")
  /\ current' = TRUE /\ lastNow' = changedNow /\ unread' = {}
  /\ UNCHANGED <<mode, sv, seen, todo, rescan, sig, taken, dir, changedNow, proc>>

\* The second is not over, or nothing is new, or stat or chdir fails.
CheckPasses ==
  /\ pc = "check" /\ Goto("sleep")
  /\ UNCHANGED <<mode, sv, scanVars, rescan, sig, taken, dirVars, proc>>

\* Mutant: the scan does not wait for the next second.
Settle_at_once ==
  /\ pc = "settle" /\ Goto("scan")
  /\ todo' = Names /\ rescan' = FALSE
  /\ UNCHANGED <<mode, sv, seen, unread, sig, taken, dirVars, proc>>

\* while (time(NULL) == last_mtime) usleep(); then do_rescan begins.
Settle ==
  /\ pc = "settle" /\ ~lastNow /\ Goto("scan")
  /\ todo' = Names /\ rescan' = FALSE
  /\ UNCHANGED <<mode, sv, seen, unread, sig, taken, dirVars, proc>>

\* A scan that comes to some entries only (the others have no stat or memory,
\* or readdir fails before them), or to none, as opendir fails.
SettleBadly ==
  /\ pc = "settle" /\ ~lastNow /\ Goto("badscan")
  /\ todo' \in SUBSET Names /\ rescan' = TRUE
  /\ UNCHANGED <<mode, sv, seen, unread, sig, taken, dirVars, proc>>

\* runsv(): no process when a signal came, or when vfork fails.
Spawn(n) ==
  \/ /\ sig = "none"
     /\ \E p \in Free : /\ proc' = [proc EXCEPT ![p] = [svc |-> n, st |-> "new", term |-> FALSE]]
                        /\ sv' = [sv EXCEPT ![n] = p]
  \/ sv' = [sv EXCEPT ![n] = Unstarted] /\ UNCHANGED proc

\* readdir comes to the place of n: a new or a dead service is started.  When
\* there is no memory for it the scan is to be made again; when stat fails it
\* is not, and the entry is as good as gone.
Entry(n) ==
  /\ pc \in {"scan", "badscan"} /\ n \in todo /\ todo' = todo \ {n}
  /\ \/ /\ n \in dir /\ seen' = seen \cup {n} /\ UNCHANGED <<unread, rescan>>
        /\ IF sv[n] \in Pids THEN UNCHANGED <<sv, proc>> ELSE Spawn(n)
     \/ /\ pc = "scan" /\ n \in dir \cap mode.shaky
        /\ unread' = unread \cup {n} /\ UNCHANGED <<sv, proc, seen>>
        /\ UNCHANGED rescan \/ (sv[n] = Absent /\ rescan' = TRUE)
     \/ n \notin dir /\ UNCHANGED <<sv, proc, seen, unread, rescan>>
  /\ UNCHANGED <<mode, pc, sig, taken, dirVars>>

\* Nothing that was not met is taken for gone.
ScanFails ==
  /\ pc = "badscan" /\ todo = {} /\ Goto("sleep") /\ seen' = {}
  /\ UNCHANGED <<mode, sv, todo, unread, rescan, sig, taken, dirVars, proc>>

\* Mutant: services that are gone leave the table without a signal.
ScanEnds_quietly ==
  /\ pc = "scan" /\ todo = {} /\ Goto("sleep") /\ seen' = {}
  /\ sv' = [n \in Names |-> IF n \in seen THEN sv[n] ELSE Absent]
  /\ UNCHANGED <<mode, todo, unread, rescan, sig, taken, dirVars, proc>>

\* Services whose entry was not met get SIGTERM and leave the table.
ScanEnds ==
  /\ pc = "scan" /\ todo = {} /\ Goto("sleep") /\ seen' = {}
  /\ proc' = Terminated(proc, {sv[n] : n \in Listed \ seen})
  /\ sv' = [n \in Names |-> IF n \in seen THEN sv[n] ELSE Absent]
  /\ UNCHANGED <<mode, todo, unread, rescan, sig, taken, dirVars>>

\* After the sleep bb_got_signal is looked at, once in a loop, and cleared; the
\* script, if there is one, comes first.
Wake ==
  /\ pc = "sleep"
  /\ Goto(IF sig = "none" THEN "collect" ELSE IF mode.script THEN "script" ELSE "handle")
  /\ taken' = sig /\ sig' = "none"
  /\ UNCHANGED <<mode, sv, scanVars, rescan, dirVars, proc>>

\* while (wait(NULL) != pid): a runsv that ends meanwhile is collected here, and
\* its number stays in the table.
WaitForScript ==
  /\ pc = "script"
  /\ \/ Dead # {} /\ proc' = [p \in Pids |-> IF p \in Dead THEN NoProc ELSE proc[p]] /\ UNCHANGED pc
     \/ Goto("handle") /\ UNCHANGED proc
  /\ UNCHANGED <<mode, sv, scanVars, rescan, sig, taken, dirVars>>

\* SIGHUP ends every runsv; process 1 goes on, another runsvdir exits, with 111
\* after SIGHUP.
HandleSignal ==
  /\ pc = "handle" /\ taken' = "none"
  /\ proc' = IF taken = "hup" THEN Terminated(proc, {sv[n] : n \in Listed}) ELSE proc
  /\ Goto(IF mode.init THEN "collect" ELSE IF taken = "hup" THEN "gone_hup" ELSE "gone")
  /\ UNCHANGED <<mode, sv, scanVars, rescan, sig, dirVars>>

Running == pc \notin {"gone", "gone_hup"}

-----------------------------------------------------------------------------
(* The runsv processes, the administrator and time                         *)

Died(p) == [proc EXCEPT ![p].st = "dead", ![p].term = FALSE]

\* runsv: chdir, then flock(LOCK_NB) on supervise/lock; it dies without.
RunsvLocks(p) ==
  /\ Running /\ proc[p].st = "new"
  /\ proc' = IF proc[p].svc \in dir /\ Holder(proc[p].svc) = {} /\ ~proc[p].term
             THEN [proc EXCEPT ![p].st = "held"] ELSE Died(p)
  /\ UNCHANGED <<mode, runVars, dirVars>>

\* runsv exits after SIGTERM and its service, or is killed; the lock is free.
RunsvEnds(p) ==
  /\ Running /\ proc[p].st = "held" /\ proc' = Died(p)
  /\ UNCHANGED <<mode, runVars, dirVars>>

\* An entry is made or removed: the mtime is now.
Edit(n) ==
  /\ Running /\ dir' = IF n \in dir THEN dir \ {n} ELSE dir \cup {n}
  /\ changedNow' = TRUE /\ current' = lastNow
  /\ UNCHANGED <<mode, runVars, lastNow, proc>>

\* A new second of the clock.
Tick ==
  /\ Running /\ changedNow' = FALSE /\ lastNow' = FALSE
  /\ UNCHANGED <<mode, runVars, dir, current, proc>>

Signal(s) ==
  /\ Running /\ sig' = s
  /\ UNCHANGED <<mode, pc, sv, scanVars, rescan, taken, dirVars, proc>>

Loop == \/ Collect \/ CheckScans \/ CheckPasses \/ Settle \/ SettleBadly
        \/ (\E n \in Names : Entry(n)) \/ ScanFails \/ ScanEnds
        \/ Wake \/ WaitForScript \/ HandleSignal

Next ==
  \/ Loop
  \/ \E p \in Pids : RunsvLocks(p) \/ RunsvEnds(p)
  \/ \E n \in Names \ Fixed : Edit(n)
  \/ Tick
  \/ \E s \in mode.sigs : Signal(s)

Spec == Init /\ [][Next]_vars

\* The loop goes on and time passes; readdir and vfork do not fail for ever;
\* runsv gets to its lock, and ends when it is told to.
FairSpec ==
  /\ Spec /\ WF_vars(Loop) /\ WF_vars(Tick)
  /\ SF_vars(CheckScans) /\ SF_vars(Settle)
  /\ \A n \in Names : SF_vars(Entry(n) /\ sv[n] \notin Pids /\ sv'[n] \in Pids)
  /\ \A p \in Pids : WF_vars(RunsvLocks(p) \/ (RunsvEnds(p) /\ proc[p].term))

-----------------------------------------------------------------------------
(* Properties                                                              *)

\* The types.
TypeOK ==
  /\ mode \in Modes
  /\ pc \in {"collect", "check", "settle", "scan", "badscan", "sleep", "script", "handle",
            "gone", "gone_hup"}
  /\ sv \in [Names -> Pids \cup {0, Unstarted, Absent}]
  /\ seen \subseteq Names /\ todo \subseteq Names /\ unread \subseteq Names
  /\ rescan \in BOOLEAN /\ {sig, taken} \subseteq {"none", "hup", "term"}
  /\ dir \subseteq Names /\ current \in BOOLEAN /\ changedNow \in BOOLEAN /\ lastNow \in BOOLEAN
  /\ proc \in [Pids -> [svc : Names \cup {"none"}, st : {"none", "new", "held", "dead"},
                        term : BOOLEAN]]

\* A number in the table is that of an uncollected runsv of that service, so
\* that SIGTERM meets no other process.  With -s it is not: while the script
\* runs, wait(NULL) collects children behind the table's back (runsvdir_main).
SignalsOwnRunsv ==
  Running /\ ~mode.script => \A n \in Names : sv[n] \in Pids => proc[sv[n]].svc = n

\* A runsv that is not in the table has had its SIGTERM: no entry that goes and
\* comes back leaves a second supervisor that stays (do_rescan).
ForgottenAreEnding ==
  \A p \in Pids : Alive(p) /\ sv[proc[p].svc] # p => proc[p].term

\* When runsvdir has nothing to scan, its table has exactly the entries of the
\* directory, but for those the latest scan was not able to stat: no change is
\* missed because it came in the second of another, or during the scan, and
\* nothing else makes an entry look removed (runsvdir_main, the wait for the
\* next second; do_rescan).
NothingMissed ==
  pc \in {"collect", "check", "sleep", "script", "handle"} /\ current /\ ~rescan
    => Listed = dir \ unread

\* After SIGHUP runsvdir leaves no runsv that was not told to end, whatever the
\* scan was doing when the signal came (runsvdir_main, SIGHUP).
HupEndsAll == pc = "gone_hup" => \A p \in Pids : Alive(p) => proc[p].term

\* What holds at every step of runsvdir_main and do_rescan: SIGTERM goes to no
\* process but a runsv of the table, and every runsv outside the table has had
\* it, after a scan and after SIGHUP.
RunsvdirInv == TypeOK /\ SignalsOwnRunsv /\ ForgottenAreEnding /\ HupEndsAll

\* A service whose entry stays has a runsv with its lock again and again,
\* however often runsv dies and the entry was moved before; unless the start
\* failed or the latest scan passed the entry over: a start that fails and a
\* stat that fails ask for no new scan, and realloc may fail for ever
\* (runsvdir_main, `runsv has died'; do_rescan).
SupervisedAgain ==
  \A n \in Names :
    /\ ~mode.script
    /\ <>[](n \in dir \ unread /\ Running /\ {sig, taken} = {"none"} /\ sv[n] # Unstarted)
    => []<>(Holder(n) # {})

\* A service whose entry stays away has no runsv in the end (do_rescan).
RemovedEnds ==
  \A n \in Names : <>[](n \notin dir /\ Running) => <>[](\A p \in Pids : Alive(p) => proc[p].svc # n)

=============================================================================
