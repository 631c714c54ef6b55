---------------------------- MODULE RunsvdirProofs ----------------------------
(***************************************************************************)
(* Proofs about Runsvdir, for any services, process numbers, edits of the  *)
(* directory, signals and deaths: RunsvdirInv and NothingMissed.           *)
(***************************************************************************)
EXTENDS Runsvdir, TLAPS

Runsvs == [svc : Names \cup {"none"}, st : {"none", "new", "held", "dead"}, term : BOOLEAN]
Numbers == Pids \cup {0, Unstarted, Absent}

\* A process is somebody's runsv; children are collected behind the table's back
\* only where there is a script; and then alone a number may be out of date.
OwnRunsv ==
  /\ pc = "script" => mode.script
  /\ \A p \in Pids : proc[p].st # "none" => proc[p].svc \in Names
  /\ ~mode.script => \A n \in Names : sv[n] \in Pids =>
                       proc[sv[n]].svc = n /\ proc[sv[n]].st # "none"

\* A process of a service is in its slot or was told to end.
InSlotOrEnding ==
  \A p \in Pids : proc[p].st \in {"new", "held"} => sv[proc[p].svc] = p \/ proc[p].term

AllEnding == pc = "gone_hup" => \A p \in Pids : proc[p].st \in {"new", "held"} => proc[p].term

Scanning == pc \in {"scan", "badscan"}

\* The scan: what it met is in the table and is not met again, nor what it passed
\* over, the wait for the next second comes before it, and a scan that fails is
\* made again.
ScanSound ==
  /\ lastNow => pc = "settle"
  /\ ~Scanning => seen = {}
  /\ Scanning => seen \cap todo = {} /\ \A n \in seen : sv[n] # Absent
  /\ pc = "settle" => unread = {}
  /\ Scanning => unread \cap todo = {}
  /\ pc = "badscan" => rescan

\* As long as the mtime is the one that was read, what was met is what is there
\* and was not passed over.
ScanCurrent ==
  pc = "scan" /\ current => \A n \in Names \ todo : n \in seen <=> n \in dir \ unread

IInv == TypeOK /\ OwnRunsv /\ InSlotOrEnding /\ AllEnding /\ ScanSound /\ ScanCurrent /\ NothingMissed

\* The marks in the pid column are no process numbers.
LEMMA Numbered ==
  /\ Absent \notin Pids /\ Unstarted \notin Pids /\ 0 \notin Pids
  /\ Unstarted # Absent /\ Absent # 0
BY RunsvdirAssumption DEF Absent, Unstarted

-----------------------------------------------------------------------------
(* What the steps do to the processes                                      *)

\* kill(2) with SIGTERM: who is there and in the set has it from then on, and
\* nothing else changes.
LEMMA TerminatedSends ==
  ASSUME proc \in [Pids -> Runsvs], NEW ps, NEW t, t = Terminated(proc, ps)
  PROVE  /\ t \in [Pids -> Runsvs]
         /\ \A p \in Pids : /\ t[p].svc = proc[p].svc /\ t[p].st = proc[p].st
                            /\ proc[p].term => t[p].term
                            /\ p \in ps /\ proc[p].st \in {"new", "held"} => t[p].term
<1>1. ASSUME NEW p \in Pids
      PROVE  /\ t[p] \in Runsvs
             /\ t[p].svc = proc[p].svc /\ t[p].st = proc[p].st
             /\ proc[p].term => t[p].term
             /\ p \in ps /\ proc[p].st \in {"new", "held"} => t[p].term
  <2> DEFINE r == [proc[p] EXCEPT !.term = TRUE]
  <2>1. proc[p] \in Runsvs
    OBVIOUS
  <2>2. r \in Runsvs /\ r.svc = proc[p].svc /\ r.st = proc[p].st /\ r.term
    BY <2>1 DEF Runsvs
  <2>3. t[p] = IF p \in ps /\ Alive(p) THEN r ELSE proc[p]
    BY DEF Terminated
  <2> HIDE DEF r
  <2>4. CASE p \in ps /\ Alive(p)
    BY <2>2, <2>3, <2>4
  <2>5. CASE ~(p \in ps /\ Alive(p))
    BY <2>1, <2>3, <2>5 DEF Alive
  <2> QED BY <2>4, <2>5
<1>2. t = [p \in Pids |-> t[p]]
  BY DEF Terminated
<1>3. t \in [Pids -> Runsvs]
  BY <1>1, <1>2
<1> QED BY <1>1, <1>3

\* Children are collected: the dead ones are no more.
LEMMA Collected ==
  ASSUME proc \in [Pids -> Runsvs], NEW t, t = [p \in Pids |-> IF p \in Dead THEN NoProc ELSE proc[p]]
  PROVE  /\ t \in [Pids -> Runsvs]
         /\ \A p \in Pids : proc[p].st = "dead" => t[p].st = "none"
         /\ \A p \in Pids : proc[p].st # "dead" => t[p] = proc[p]
<1>1. NoProc \in Runsvs /\ NoProc.st = "none"
  BY DEF NoProc, Runsvs
<1>2. \A p \in Pids : t[p] = IF proc[p].st = "dead" THEN NoProc ELSE proc[p]
  BY DEF Dead
<1>3. \A p \in Pids : t[p] \in Runsvs
  BY <1>1, <1>2
<1> QED BY <1>1, <1>2, <1>3

\* One process changes its state.
LEMMA Changed ==
  ASSUME proc \in [Pids -> Runsvs], NEW p \in Pids,
         NEW r \in Runsvs, NEW t, t = [proc EXCEPT ![p] = r]
  PROVE  t \in [Pids -> Runsvs] /\ t[p] = r /\ \A q \in Pids : q # p => t[q] = proc[q]
OBVIOUS

\* runsv dies, or gets its lock.
LEMMA RunsvSteps ==
  ASSUME proc \in [Pids -> Runsvs], NEW p \in Pids, RunsvLocks(p) \/ RunsvEnds(p)
  PROVE  /\ Running /\ UNCHANGED <<mode, runVars, dirVars>>
         /\ proc[p].st \in {"new", "held"} /\ proc' \in [Pids -> Runsvs]
         /\ \A q \in Pids : q # p => proc'[q] = proc[q]
         /\ proc'[p].svc = proc[p].svc
         /\ \/ proc'[p].st = "dead"
            \/ proc'[p].st = "held" /\ proc'[p].term = proc[p].term
<1> DEFINE d == [proc[p] EXCEPT !.st = "dead", !.term = FALSE]
<1> DEFINE h == [proc[p] EXCEPT !.st = "held"]
<1>0. proc[p] \in Runsvs
  OBVIOUS
<1>1. d \in Runsvs /\ d.svc = proc[p].svc /\ d.st = "dead"
  BY <1>0 DEF Runsvs
<1>2. h \in Runsvs /\ h.svc = proc[p].svc /\ h.st = "held" /\ h.term = proc[p].term
  BY <1>0 DEF Runsvs
<1>3. Running /\ UNCHANGED <<mode, runVars, dirVars>> /\ proc[p].st \in {"new", "held"}
  BY DEF RunsvLocks, RunsvEnds
<1>4. Died(p) = [proc EXCEPT ![p] = d]
  BY DEF Died
<1>5. proc' = [proc EXCEPT ![p] = d] \/ proc' = [proc EXCEPT ![p] = h]
  BY <1>4 DEF RunsvLocks, RunsvEnds
<1> HIDE DEF d, h
<1>6. CASE proc' = [proc EXCEPT ![p] = d]
  BY <1>1, <1>3, <1>6, Changed
<1>7. CASE proc' = [proc EXCEPT ![p] = h]
  BY <1>2, <1>3, <1>7, Changed
<1> QED BY <1>5, <1>6, <1>7

\* runsv(): the slot gets a new process, or the mark of a failed start.
LEMMA SpawnSteps ==
  ASSUME proc \in [Pids -> Runsvs], sv \in [Names -> Numbers], NEW n \in Names, Spawn(n)
  PROVE  /\ sv' \in [Names -> Numbers] /\ proc' \in [Pids -> Runsvs] /\ sv'[n] # Absent
         /\ \A m \in Names : m # n => sv'[m] = sv[m]
         /\ \/ /\ sv'[n] \in Pids /\ proc[sv'[n]].st = "none"
               /\ proc'[sv'[n]].svc = n /\ proc'[sv'[n]].st = "new"
               /\ \A q \in Pids : q # sv'[n] => proc'[q] = proc[q]
            \/ sv'[n] \notin Pids /\ proc' = proc
<1>1. CASE sv' = [sv EXCEPT ![n] = Unstarted] /\ UNCHANGED proc
  BY <1>1, Numbered DEF Numbers
<1>2. ASSUME NEW p \in Free, sv' = [sv EXCEPT ![n] = p],
             proc' = [proc EXCEPT ![p] = [svc |-> n, st |-> "new", term |-> FALSE]]
      PROVE  /\ sv' \in [Names -> Numbers] /\ proc' \in [Pids -> Runsvs] /\ sv'[n] # Absent
             /\ \A m \in Names : m # n => sv'[m] = sv[m]
             /\ sv'[n] \in Pids /\ proc[sv'[n]].st = "none"
             /\ proc'[sv'[n]].svc = n /\ proc'[sv'[n]].st = "new"
             /\ \A q \in Pids : q # sv'[n] => proc'[q] = proc[q]
  <2> DEFINE r == [svc |-> n, st |-> "new", term |-> FALSE]
  <2>1. r \in Runsvs /\ r.svc = n /\ r.st = "new"
    BY DEF Runsvs
  <2>2. p \in Pids /\ proc[p].st = "none"
    BY DEF Free
  <2>3. proc' = [proc EXCEPT ![p] = r]
    BY <1>2
  <2> HIDE DEF r
  <2>4. proc' \in [Pids -> Runsvs] /\ proc'[p] = r /\ \A q \in Pids : q # p => proc'[q] = proc[q]
    BY <2>1, <2>2, <2>3, Changed
  <2>5. sv' \in [Names -> Numbers] /\ sv'[n] = p /\ \A m \in Names : m # n => sv'[m] = sv[m]
    BY <1>2, <2>2 DEF Numbers
  <2> QED BY <2>1, <2>2, <2>4, <2>5, Numbered
<1> QED BY <1>1, <1>2 DEF Spawn


-----------------------------------------------------------------------------
(* Types                                                                   *)

\* TypeOK without the table and the processes.
Placed ==
  /\ mode \in Modes
  /\ pc \in {"collect", "check", "settle", "scan", "badscan", "sleep", "script", "handle",
            "gone", "gone_hup"}
  /\ seen \subseteq Names /\ todo \subseteq Names /\ unread \subseteq Names
  /\ rescan \in BOOLEAN /\ sig \in {"none", "hup", "term"} /\ taken \in {"none", "hup", "term"}
  /\ dir \subseteq Names /\ current \in BOOLEAN /\ changedNow \in BOOLEAN /\ lastNow \in BOOLEAN

\* TypeOK apart from the table and the processes is Placed.
LEMMA TypeParts ==
  TypeOK <=> Placed /\ sv \in [Names -> Numbers] /\ proc \in [Pids -> Runsvs]
BY DEF TypeOK, Placed, Numbers, Runsvs

\* Every step keeps what is neither table nor process in its type.
LEMMA PlacedNext ==
  ASSUME Placed, Next
  PROVE  Placed'
<1>1. CASE Collect
  <2>1. rescan' \in BOOLEAN
    BY <1>1 DEF Collect
  <2> QED BY <1>1, <2>1, Zenon DEF Collect, Placed, Goto, dirVars, scanVars
<1>2. CASE CheckScans         BY <1>2 DEF CheckScans, Placed, Goto
<1>3. CASE CheckPasses        BY <1>3 DEF CheckPasses, Placed, Goto, dirVars, scanVars
<1>4. CASE Settle             BY <1>4 DEF Settle, Placed, Goto, dirVars
<1>5. CASE SettleBadly        BY <1>5 DEF SettleBadly, Placed, Goto, dirVars
<1>6. ASSUME NEW n \in Names, Entry(n) PROVE Placed'
  BY <1>6 DEF Entry, Placed, dirVars
<1>7. CASE ScanFails          BY <1>7 DEF ScanFails, Placed, Goto, dirVars
<1>8. CASE ScanEnds           BY <1>8 DEF ScanEnds, Placed, Goto, dirVars
<1>9. CASE Wake
  BY <1>9 DEF Wake, Placed, Goto, dirVars, scanVars
<1>10. CASE WaitForScript     BY <1>10 DEF WaitForScript, Placed, Goto, dirVars, scanVars
<1>11. CASE HandleSignal
  BY <1>11 DEF HandleSignal, Placed, Goto, dirVars, scanVars
<1>12. ASSUME NEW p \in Pids, RunsvLocks(p) \/ RunsvEnds(p) PROVE Placed'
  BY <1>12 DEF RunsvLocks, RunsvEnds, Placed, runVars, scanVars, dirVars
<1>13. ASSUME NEW n \in Names \ Fixed, Edit(n) PROVE Placed'
  BY <1>13 DEF Edit, Placed, runVars, scanVars
<1>14. CASE Tick              BY <1>14 DEF Tick, Placed, runVars, scanVars
<1>15. ASSUME NEW x \in mode.sigs, Signal(x) PROVE Placed'
  <2>1. x \in {"hup", "term"}
    BY <1>15, RunsvdirAssumption DEF Placed
  <2> QED BY <1>15, <2>1 DEF Signal, Placed, scanVars, dirVars
<1> QED BY <1>1, <1>2, <1>3, <1>4, <1>5, <1>6, <1>7, <1>8, <1>9, <1>10, <1>11, <1>12, <1>13,
           <1>14, <1>15 DEF Next, Loop

-----------------------------------------------------------------------------
(* The table and the processes                                             *)

\* What is kept by a step that leaves both alone.
TableInv ==
  /\ sv \in [Names -> Numbers] /\ proc \in [Pids -> Runsvs]
  /\ OwnRunsv /\ InSlotOrEnding /\ AllEnding

\* A step that touches neither table nor process keeps what holds of them.
LEMMA TableStays ==
  ASSUME Placed, TableInv, UNCHANGED <<sv, proc, mode>>,
         pc' = "script" => mode.script, pc' = "gone_hup" => pc = "gone_hup"
  PROVE  TableInv'
BY DEF TableInv, OwnRunsv, InSlotOrEnding, AllEnding

\* The wait loop takes a dead runsv out of its entry.
LEMMA CollectTable ==
  ASSUME Placed, TableInv, Collect
  PROVE  TableInv'
<1>0. /\ pc' = "check" /\ mode' = mode
      /\ sv' = [n \in Names |-> IF sv[n] \in Dead THEN 0 ELSE sv[n]]
      /\ proc' = [p \in Pids |-> IF p \in Dead THEN NoProc ELSE proc[p]]
  BY DEF Collect, Goto
<1>1. /\ proc' \in [Pids -> Runsvs]
      /\ \A p \in Pids : proc[p].st = "dead" => proc'[p].st = "none"
      /\ \A p \in Pids : proc[p].st # "dead" => proc'[p] = proc[p]
  BY <1>0, Collected DEF TableInv
<1>2. \A n \in Names : sv[n] \in Dead <=> sv[n] \in Pids /\ proc[sv[n]].st = "dead"
  BY DEF Dead
<1>3. \A n \in Names : sv'[n] = IF sv[n] \in Pids /\ proc[sv[n]].st = "dead" THEN 0 ELSE sv[n]
  BY <1>0, <1>2
<1>4. sv' \in [Names -> Numbers]
  <2>1. \A n \in Names : sv'[n] \in Numbers
    BY <1>3 DEF TableInv, Numbers
  <2> QED BY <1>0, <2>1
<1>5. OwnRunsv'
  <2>1. \A p \in Pids : proc'[p].st # "none" => proc'[p].svc \in Names
    BY <1>1 DEF TableInv, OwnRunsv
  <2>2. ASSUME ~mode.script, NEW n \in Names, sv'[n] \in Pids
        PROVE  proc'[sv'[n]].svc = n /\ proc'[sv'[n]].st # "none"
    BY <1>1, <1>3, <2>2, Numbered DEF TableInv, OwnRunsv
  <2> QED BY <1>0, <2>1, <2>2 DEF OwnRunsv
<1>6. InSlotOrEnding'
  <2> SUFFICES ASSUME NEW p \in Pids, proc'[p].st \in {"new", "held"}
               PROVE  sv'[proc'[p].svc] = p \/ proc'[p].term
    BY DEF InSlotOrEnding
  <2>1. proc'[p] = proc[p] /\ proc[p].st \in {"new", "held"}
    BY <1>1
  <2>2. proc[p].svc \in Names /\ (sv[proc[p].svc] = p \/ proc[p].term)
    BY <2>1 DEF TableInv, OwnRunsv, InSlotOrEnding
  <2>3. sv[proc[p].svc] = p => sv'[proc[p].svc] = p
    BY <1>3, <2>1, <2>2
  <2> QED BY <2>1, <2>2, <2>3
<1>7. AllEnding'
  BY <1>0 DEF AllEnding
<1> QED BY <1>1, <1>4, <1>5, <1>6, <1>7 DEF TableInv

\* A service met by the scan is started unless it runs.
LEMMA EntryTable ==
  ASSUME Placed, TableInv, NEW n \in Names, Entry(n)
  PROVE  TableInv'
<1>0. pc \in {"scan", "badscan"} /\ pc' = pc /\ mode' = mode
  BY DEF Entry
<1>1. CASE UNCHANGED <<sv, proc>>
  BY <1>0, <1>1, TableStays
<1>2. CASE sv[n] \notin Pids /\ Spawn(n)
  <2>1. /\ sv' \in [Names -> Numbers] /\ proc' \in [Pids -> Runsvs]
        /\ \A m \in Names : m # n => sv'[m] = sv[m]
        /\ \/ /\ sv'[n] \in Pids /\ proc[sv'[n]].st = "none"
              /\ proc'[sv'[n]].svc = n /\ proc'[sv'[n]].st = "new"
              /\ \A q \in Pids : q # sv'[n] => proc'[q] = proc[q]
           \/ sv'[n] \notin Pids /\ proc' = proc
    BY <1>2, SpawnSteps DEF TableInv
  <2>2. \A q \in Pids : q # sv'[n] => proc'[q] = proc[q]
    BY <2>1
  <2>3. OwnRunsv'
    <3>1. \A p \in Pids : proc'[p].st # "none" => proc'[p].svc \in Names
      BY <2>1, <2>2 DEF TableInv, OwnRunsv
    <3>2. ASSUME ~mode.script, NEW m \in Names, sv'[m] \in Pids
          PROVE  proc'[sv'[m]].svc = m /\ proc'[sv'[m]].st # "none"
      <4>1. CASE m = n  BY <2>1, <3>2, <4>1
      <4>2. CASE m # n
        <5>1. sv'[m] = sv[m] /\ proc[sv[m]].svc = m /\ proc[sv[m]].st # "none"
          BY <2>1, <3>2, <4>2 DEF TableInv, OwnRunsv
        <5>2. sv[m] # sv'[n] \/ proc' = proc
          BY <2>1, <5>1
        <5> QED BY <2>2, <3>2, <5>1, <5>2
      <4> QED BY <4>1, <4>2
    <3> QED BY <1>0, <3>1, <3>2 DEF OwnRunsv
  <2>4. InSlotOrEnding'
    <3> SUFFICES ASSUME NEW p \in Pids, proc'[p].st \in {"new", "held"}
                 PROVE  sv'[proc'[p].svc] = p \/ proc'[p].term
      BY DEF InSlotOrEnding
    <3>1. CASE p = sv'[n] /\ proc'[sv'[n]].svc = n
      BY <3>1
    <3>2. CASE proc'[p] = proc[p]
      <4>1. proc[p].svc \in Names /\ (sv[proc[p].svc] = p \/ proc[p].term)
        BY <3>2 DEF TableInv, OwnRunsv, InSlotOrEnding
      <4>2. sv[proc[p].svc] = p => sv'[proc[p].svc] = p
        BY <1>2, <2>1, <4>1
      <4> QED BY <3>2, <4>1, <4>2
    <3> QED BY <2>1, <2>2, <3>1, <3>2
  <2>5. AllEnding'
    BY <1>0 DEF AllEnding
  <2> QED BY <2>1, <2>3, <2>4, <2>5 DEF TableInv
<1> QED BY <1>1, <1>2 DEF Entry

\* The end of the scan sends SIGTERM to what was not met and drops it.
LEMMA ScanEndsTable ==
  ASSUME Placed, TableInv, ScanEnds
  PROVE  TableInv'
<1> DEFINE ps == {sv[n] : n \in Listed \ seen}
<1>0. /\ pc' = "sleep" /\ mode' = mode /\ proc' = Terminated(proc, ps)
      /\ sv' = [n \in Names |-> IF n \in seen THEN sv[n] ELSE Absent]
  BY DEF ScanEnds, Goto
<1>1. \A n \in Names : n \notin seen /\ sv[n] \in Pids => sv[n] \in ps
  BY Numbered DEF Listed
<1> HIDE DEF ps
<1>2. /\ proc' \in [Pids -> Runsvs]
      /\ \A p \in Pids : /\ proc'[p].svc = proc[p].svc /\ proc'[p].st = proc[p].st
                         /\ proc[p].term => proc'[p].term
                         /\ p \in ps /\ proc[p].st \in {"new", "held"} => proc'[p].term
  BY <1>0, TerminatedSends DEF TableInv
<1>3. \A n \in Names : sv'[n] = IF n \in seen THEN sv[n] ELSE Absent
  BY <1>0
<1>4. sv' \in [Names -> Numbers]
  <2>1. \A n \in Names : sv'[n] \in Numbers
    BY <1>3 DEF TableInv, Numbers
  <2> QED BY <1>0, <2>1
<1>5. OwnRunsv'
  <2>1. \A p \in Pids : proc'[p].st # "none" => proc'[p].svc \in Names
    BY <1>2 DEF TableInv, OwnRunsv
  <2>2. ASSUME ~mode.script, NEW n \in Names, sv'[n] \in Pids
        PROVE  proc'[sv'[n]].svc = n /\ proc'[sv'[n]].st # "none"
    BY <1>2, <1>3, <2>2, Numbered DEF TableInv, OwnRunsv
  <2> QED BY <1>0, <2>1, <2>2 DEF OwnRunsv
<1>6. InSlotOrEnding'
  <2> SUFFICES ASSUME NEW p \in Pids, proc'[p].st \in {"new", "held"}
               PROVE  sv'[proc'[p].svc] = p \/ proc'[p].term
    BY DEF InSlotOrEnding
  <2>1. /\ proc[p].st \in {"new", "held"} /\ proc[p].svc \in Names /\ proc'[p].svc = proc[p].svc
        /\ sv[proc[p].svc] = p \/ proc[p].term
    BY <1>2 DEF TableInv, OwnRunsv, InSlotOrEnding
  <2>2. CASE proc[p].term
    BY <1>2, <2>2
  <2>3. CASE sv[proc[p].svc] = p /\ proc[p].svc \in seen
    BY <1>3, <2>1, <2>3
  <2>4. CASE sv[proc[p].svc] = p /\ proc[p].svc \notin seen
    BY <1>1, <1>2, <2>1, <2>4
  <2> QED BY <2>1, <2>2, <2>3, <2>4
<1>7. AllEnding'
  BY <1>0 DEF AllEnding
<1> QED BY <1>2, <1>4, <1>5, <1>6, <1>7 DEF TableInv

\* The -s script runs with the old table; whoever dies meanwhile is reaped
\* unseen.
LEMMA WaitForScriptTable ==
  ASSUME Placed, TableInv, WaitForScript
  PROVE  TableInv'
<1>0. pc = "script" /\ mode' = mode /\ sv' = sv /\ pc' \in {"script", "handle"} /\ mode.script
  BY DEF WaitForScript, Goto, TableInv, OwnRunsv
<1>1. CASE UNCHANGED proc
  BY <1>0, <1>1, TableStays
<1>2. CASE proc' = [p \in Pids |-> IF p \in Dead THEN NoProc ELSE proc[p]]
  <2>1. /\ proc' \in [Pids -> Runsvs]
        /\ \A p \in Pids : proc[p].st = "dead" => proc'[p].st = "none"
        /\ \A p \in Pids : proc[p].st # "dead" => proc'[p] = proc[p]
    BY <1>2, Collected DEF TableInv
  <2>2. OwnRunsv'
    BY <1>0, <2>1 DEF TableInv, OwnRunsv
  <2>3. InSlotOrEnding'
    <3> SUFFICES ASSUME NEW p \in Pids, proc'[p].st \in {"new", "held"}
                 PROVE  sv'[proc'[p].svc] = p \/ proc'[p].term
      BY DEF InSlotOrEnding
    <3>1. proc'[p] = proc[p]
      BY <2>1
    <3> QED BY <1>0, <3>1 DEF TableInv, InSlotOrEnding
  <2>4. AllEnding'
    BY <1>0 DEF AllEnding
  <2> QED BY <1>0, <2>1, <2>2, <2>3, <2>4 DEF TableInv
<1> QED BY <1>1, <1>2 DEF WaitForScript

\* SIGHUP sends SIGTERM to everyone in the table, SIGTERM to nobody.
LEMMA HandleSignalTable ==
  ASSUME Placed, TableInv, HandleSignal
  PROVE  TableInv'
<1> DEFINE ps == {sv[n] : n \in Listed}
<1>0. /\ pc = "handle" /\ pc' \in {"collect", "gone", "gone_hup"} /\ mode' = mode /\ sv' = sv
      /\ pc' = "gone_hup" => taken = "hup"
      /\ proc' = IF taken = "hup" THEN Terminated(proc, ps) ELSE proc
  BY DEF HandleSignal, Goto
<1>1. \A n \in Names : sv[n] \in Pids => sv[n] \in ps
  BY Numbered DEF Listed
<1> HIDE DEF ps
<1>2. CASE taken # "hup"
  BY <1>0, <1>2, TableStays
<1>3. CASE taken = "hup"
  <2>1. /\ proc' \in [Pids -> Runsvs]
        /\ \A p \in Pids : /\ proc'[p].svc = proc[p].svc /\ proc'[p].st = proc[p].st
                           /\ proc[p].term => proc'[p].term
                           /\ p \in ps /\ proc[p].st \in {"new", "held"} => proc'[p].term
    BY <1>0, <1>3, TerminatedSends DEF TableInv
  <2>2. OwnRunsv'
    BY <1>0, <2>1 DEF TableInv, OwnRunsv
  <2>3. \A p \in Pids : proc'[p].st \in {"new", "held"} => proc'[p].term
    <3> SUFFICES ASSUME NEW p \in Pids, proc'[p].st \in {"new", "held"}
                 PROVE  proc'[p].term
      OBVIOUS
    <3>1. /\ proc[p].st \in {"new", "held"} /\ proc[p].svc \in Names
          /\ sv[proc[p].svc] = p \/ proc[p].term
      BY <2>1 DEF TableInv, OwnRunsv, InSlotOrEnding
    <3> QED BY <1>1, <2>1, <3>1
  <2> QED BY <1>0, <2>1, <2>2, <2>3 DEF TableInv, InSlotOrEnding, AllEnding
<1> QED BY <1>2, <1>3

\* What a runsv does by itself: it gets its lock, or it ends.
LEMMA RunsvTable ==
  ASSUME Placed, TableInv, NEW p \in Pids, RunsvLocks(p) \/ RunsvEnds(p)
  PROVE  TableInv'
<1>0. /\ Running /\ UNCHANGED <<mode, runVars, dirVars>>
      /\ proc[p].st \in {"new", "held"} /\ proc' \in [Pids -> Runsvs]
      /\ \A q \in Pids : q # p => proc'[q] = proc[q]
      /\ proc'[p].svc = proc[p].svc
      /\ \/ proc'[p].st = "dead"
         \/ proc'[p].st = "held" /\ proc'[p].term = proc[p].term
  BY RunsvSteps DEF TableInv
<1>1. sv' = sv /\ pc' = pc /\ mode' = mode /\ pc # "gone_hup"
  BY <1>0 DEF runVars, Running
<1>2. OwnRunsv'
  BY <1>0, <1>1 DEF TableInv, OwnRunsv
<1>3. InSlotOrEnding'
  <2> SUFFICES ASSUME NEW q \in Pids, proc'[q].st \in {"new", "held"}
               PROVE  sv'[proc'[q].svc] = q \/ proc'[q].term
    BY DEF InSlotOrEnding
  <2>1. proc[q].st \in {"new", "held"} /\ proc'[q].svc = proc[q].svc /\ proc'[q].term = proc[q].term
    BY <1>0
  <2> QED BY <1>1, <2>1 DEF TableInv, InSlotOrEnding
<1>4. AllEnding'
  BY <1>1 DEF AllEnding
<1> QED BY <1>0, <1>1, <1>2, <1>3, <1>4 DEF TableInv

\* Every step keeps the table and the processes in order.
LEMMA TableNext ==
  ASSUME Placed, TableInv, Next
  PROVE  TableInv'
<1>1. CASE Collect            BY <1>1, CollectTable
<1>2. CASE CheckScans         BY <1>2, TableStays DEF CheckScans, Goto
<1>3. CASE CheckPasses        BY <1>3, TableStays DEF CheckPasses, Goto
<1>4. CASE Settle             BY <1>4, TableStays DEF Settle, Goto
<1>5. CASE SettleBadly        BY <1>5, TableStays DEF SettleBadly, Goto
<1>6. ASSUME NEW n \in Names, Entry(n) PROVE TableInv'
  BY <1>6, EntryTable
<1>7. CASE ScanFails          BY <1>7, TableStays DEF ScanFails, Goto
<1>8. CASE ScanEnds           BY <1>8, ScanEndsTable
<1>9. CASE Wake               BY <1>9, TableStays DEF Wake, Goto
<1>10. CASE WaitForScript     BY <1>10, WaitForScriptTable
<1>11. CASE HandleSignal      BY <1>11, HandleSignalTable
<1>12. ASSUME NEW p \in Pids, RunsvLocks(p) \/ RunsvEnds(p) PROVE TableInv'
  BY <1>12, RunsvTable
<1>13. ASSUME NEW n \in Names \ Fixed, Edit(n) PROVE TableInv'
  <2>1. UNCHANGED <<sv, proc, mode, pc>>
    BY <1>13 DEF Edit, runVars, scanVars
  <2> QED BY <2>1, TableStays DEF TableInv, OwnRunsv
<1>14. CASE Tick
  <2>1. UNCHANGED <<sv, proc, mode, pc>>
    BY <1>14 DEF Tick, runVars, scanVars
  <2> QED BY <2>1, TableStays DEF TableInv, OwnRunsv
<1>15. ASSUME NEW x \in mode.sigs, Signal(x) PROVE TableInv'
  <2>1. UNCHANGED <<sv, proc, mode, pc>>
    BY <1>15 DEF Signal
  <2> QED BY <2>1, TableStays DEF TableInv, OwnRunsv
<1> QED BY <1>1, <1>2, <1>3, <1>4, <1>5, <1>6, <1>7, <1>8, <1>9, <1>10, <1>11, <1>12, <1>13,
           <1>14, <1>15 DEF Next, Loop


-----------------------------------------------------------------------------
(* The scan                                                                *)

ScanInv == ScanSound /\ ScanCurrent /\ NothingMissed

\* A step that leaves the scan and the directory alone, and no service comes
\* into the table or leaves it.
LEMMA ScanStays ==
  ASSUME Placed, ScanInv, UNCHANGED <<seen, todo, unread, dir, current, lastNow>>,
         \A n \in Names : sv'[n] = Absent <=> sv[n] = Absent,
         rescan => rescan',
         \/ pc' = pc
         \/ /\ {pc, pc'} \subseteq {"collect", "check", "sleep", "script", "handle", "gone", "gone_hup"}
            /\ pc \notin {"gone", "gone_hup"}
  PROVE  ScanInv'
<1>1. Listed' = Listed
  BY DEF Listed
<1>2. ScanSound'
  BY DEF ScanInv, ScanSound, Scanning, Placed
<1>3. ScanCurrent'
  BY DEF ScanInv, ScanCurrent
<1>4. NothingMissed'
  BY <1>1 DEF ScanInv, NothingMissed
<1> QED BY <1>2, <1>3, <1>4 DEF ScanInv

\* An entry that was visited is in the table from then on.
LEMMA EntryScan ==
  ASSUME Placed, TableInv, ScanInv, NEW n \in Names, Entry(n)
  PROVE  ScanInv'
<1>0. /\ pc \in {"scan", "badscan"} /\ n \in todo /\ todo' = todo \ {n}
      /\ UNCHANGED <<pc, dir, current, lastNow>> /\ (rescan => rescan')
  BY DEF Entry, dirVars
<1>1. \/ n \in dir /\ seen' = seen \cup {n} /\ unread' = unread /\ sv'[n] # Absent
      \/ n \in dir /\ seen' = seen /\ unread' = unread \cup {n} /\ sv' = sv /\ pc = "scan"
      \/ n \notin dir /\ seen' = seen /\ unread' = unread /\ sv' = sv
  BY SpawnSteps, Numbered DEF TableInv, Entry
<1>2. \A m \in Names : m # n => sv'[m] = sv[m]
  BY SpawnSteps DEF TableInv, Entry
<1>3. /\ seen \subseteq Names /\ seen \cap todo = {} /\ unread \cap todo = {}
      /\ \A m \in seen : sv[m] # Absent
  BY <1>0 DEF Placed, ScanInv, ScanSound, Scanning
<1>4. ScanSound'
  <2>1. seen' \cap todo' = {} /\ \A m \in seen' : sv'[m] # Absent
    BY <1>0, <1>1, <1>2, <1>3
  <2>2. unread' \cap todo' = {}
    BY <1>0, <1>1, <1>3
  <2> QED BY <1>0, <2>1, <2>2 DEF ScanInv, ScanSound, Scanning
<1>5. ScanCurrent'
  BY <1>0, <1>1, <1>3 DEF ScanInv, ScanCurrent
<1>6. NothingMissed'
  BY <1>0 DEF NothingMissed
<1> QED BY <1>4, <1>5, <1>6 DEF ScanInv

\* After a scan that ended, what is in the table is what was met.
LEMMA ScanEndsScan ==
  ASSUME Placed, TableInv, ScanInv, ScanEnds
  PROVE  ScanInv'
<1>0. /\ pc = "scan" /\ todo = {} /\ pc' = "sleep" /\ seen' = {}
      /\ sv' = [n \in Names |-> IF n \in seen THEN sv[n] ELSE Absent]
      /\ UNCHANGED <<todo, unread, rescan, dir, current, lastNow>>
  BY DEF ScanEnds, Goto, dirVars
<1>1. seen \subseteq Names /\ dir \subseteq Names /\ \A m \in seen : sv[m] # Absent
  BY <1>0 DEF Placed, ScanInv, ScanSound, Scanning
<1>2. Listed' = seen
  BY <1>0, <1>1 DEF Listed
<1>3. current => seen = dir \ unread
  BY <1>0, <1>1 DEF ScanInv, ScanCurrent
<1>4. ScanSound'
  BY <1>0 DEF ScanInv, ScanSound, Scanning
<1>5. ScanCurrent'
  BY <1>0 DEF ScanCurrent
<1>6. NothingMissed'
  BY <1>0, <1>2, <1>3 DEF NothingMissed
<1> QED BY <1>4, <1>5, <1>6 DEF ScanInv

\* An edit gives a new mtime, unless the last one seen is of this second.
LEMMA EditScan ==
  ASSUME Placed, ScanInv, NEW n \in Names, Edit(n)
  PROVE  ScanInv'
<1>0. UNCHANGED <<pc, sv, seen, todo, unread, rescan, lastNow>> /\ current' = lastNow
  BY DEF Edit, runVars, scanVars
<1>1. ScanSound'
  BY <1>0 DEF ScanInv, ScanSound, Scanning
<1>2. pc # "settle" => ~current'
  BY <1>0 DEF ScanInv, ScanSound
<1>3. ScanCurrent' /\ NothingMissed'
  BY <1>0, <1>2 DEF ScanCurrent, NothingMissed
<1> QED BY <1>1, <1>3 DEF ScanInv

\* Every step keeps what the scan has found.
LEMMA ScanNext ==
  ASSUME Placed, TableInv, ScanInv, Next
  PROVE  ScanInv'
<1>1. CASE Collect
  <2>1. \A n \in Names : sv'[n] = Absent <=> sv[n] = Absent
    BY <1>1, Numbered DEF Collect, Dead
  <2>2. UNCHANGED <<seen, todo, unread, dir, current, lastNow>> /\ pc = "collect" /\ pc' = "check"
        /\ (rescan => rescan')
    BY <1>1 DEF Collect, Goto, dirVars, scanVars
  <2> QED BY <2>1, <2>2, ScanStays
<1>2. CASE CheckScans
  BY <1>2 DEF CheckScans, Goto, ScanInv, ScanSound, Scanning, ScanCurrent, NothingMissed
<1>3. CASE CheckPasses
  <2>1. UNCHANGED <<seen, todo, unread, dir, current, lastNow, sv, rescan>> /\ pc = "check" /\ pc' = "sleep"
    BY <1>3 DEF CheckPasses, Goto, dirVars, scanVars
  <2> QED BY <2>1, ScanStays
<1>4. CASE Settle
  <2>1. /\ pc = "settle" /\ ~lastNow /\ pc' = "scan" /\ todo' = Names
        /\ UNCHANGED <<sv, seen, unread, dir, current, lastNow>>
    BY <1>4 DEF Settle, Goto, dirVars
  <2>2. seen = {} /\ unread = {}
    BY <2>1 DEF ScanInv, ScanSound, Scanning
  <2> QED BY <2>1, <2>2 DEF ScanInv, ScanSound, Scanning, ScanCurrent, NothingMissed
<1>5. CASE SettleBadly
  <2>1. /\ pc = "settle" /\ ~lastNow /\ pc' = "badscan" /\ rescan'
        /\ UNCHANGED <<sv, seen, unread, dir, current, lastNow>>
    BY <1>5 DEF SettleBadly, Goto, dirVars
  <2>2. seen = {} /\ unread = {}
    BY <2>1 DEF ScanInv, ScanSound, Scanning
  <2> QED BY <2>1, <2>2 DEF ScanInv, ScanSound, Scanning, ScanCurrent, NothingMissed
<1>6. ASSUME NEW n \in Names, Entry(n) PROVE ScanInv'
  BY <1>6, EntryScan
<1>7. CASE ScanFails
  <2>1. /\ pc = "badscan" /\ pc' = "sleep" /\ seen' = {}
        /\ UNCHANGED <<sv, todo, rescan, dir, current, lastNow>>
    BY <1>7 DEF ScanFails, Goto, dirVars
  <2>2. rescan /\ ~lastNow
    BY <2>1 DEF ScanInv, ScanSound
  <2> QED BY <2>1, <2>2 DEF ScanInv, ScanSound, Scanning, ScanCurrent, NothingMissed
<1>8. CASE ScanEnds           BY <1>8, ScanEndsScan
<1>9. CASE Wake
  <2>1. UNCHANGED <<seen, todo, unread, dir, current, lastNow, sv, rescan>> /\ pc = "sleep"
        /\ pc' \in {"collect", "script", "handle"}
    BY <1>9 DEF Wake, Goto, dirVars, scanVars
  <2> QED BY <2>1, ScanStays
<1>10. CASE WaitForScript
  <2>1. UNCHANGED <<seen, todo, unread, dir, current, lastNow, sv, rescan>> /\ pc = "script"
        /\ pc' \in {"script", "handle"}
    BY <1>10 DEF WaitForScript, Goto, dirVars, scanVars
  <2> QED BY <2>1, ScanStays
<1>11. CASE HandleSignal
  <2>1. UNCHANGED <<seen, todo, unread, dir, current, lastNow, sv, rescan>> /\ pc = "handle"
        /\ pc' \in {"collect", "gone", "gone_hup"}
    BY <1>11 DEF HandleSignal, Goto, dirVars, scanVars
  <2> QED BY <2>1, ScanStays
<1>12. ASSUME NEW p \in Pids, RunsvLocks(p) \/ RunsvEnds(p) PROVE ScanInv'
  <2>1. UNCHANGED <<seen, todo, unread, dir, current, lastNow, sv, rescan, pc>>
    BY <1>12 DEF RunsvLocks, RunsvEnds, runVars, scanVars, dirVars
  <2> QED BY <2>1, ScanStays
<1>13. ASSUME NEW n \in Names \ Fixed, Edit(n) PROVE ScanInv'
  BY <1>13, EditScan
<1>14. CASE Tick
  <2>1. UNCHANGED <<seen, todo, unread, dir, current, sv, rescan, pc>> /\ ~lastNow'
    BY <1>14 DEF Tick, runVars, scanVars
  <2> QED BY <2>1 DEF ScanInv, ScanSound, Scanning, ScanCurrent, NothingMissed, Listed
<1>15. ASSUME NEW x \in mode.sigs, Signal(x) PROVE ScanInv'
  <2>1. UNCHANGED <<seen, todo, unread, dir, current, lastNow, sv, rescan, pc>>
    BY <1>15 DEF Signal, scanVars, dirVars
  <2> QED BY <2>1, ScanStays
<1> QED BY <1>1, <1>2, <1>3, <1>4, <1>5, <1>6, <1>7, <1>8, <1>9, <1>10, <1>11, <1>12, <1>13,
           <1>14, <1>15 DEF Next, Loop

-----------------------------------------------------------------------------
(* The theorems                                                            *)

\* runsvdir starts with an empty table and a scan to come.
LEMMA InitIInv == Init => IInv
<1> SUFFICES ASSUME Init PROVE IInv  OBVIOUS
<1>1. NoProc \in Runsvs /\ NoProc.st = "none"
  BY DEF NoProc, Runsvs
<1>2. proc \in [Pids -> Runsvs] /\ \A p \in Pids : proc[p].st = "none"
  BY <1>1 DEF Init
<1>3. sv \in [Names -> Numbers] /\ \A n \in Names : sv[n] \notin Pids
  BY Numbered DEF Init, Numbers
<1>4. Placed
  BY DEF Init, Placed
<1>5. OwnRunsv /\ InSlotOrEnding /\ AllEnding
  BY <1>2, <1>3 DEF Init, OwnRunsv, InSlotOrEnding, AllEnding
<1>6. ScanSound /\ ScanCurrent /\ NothingMissed
  BY DEF Init, ScanSound, Scanning, ScanCurrent, NothingMissed
<1> QED BY <1>2, <1>3, <1>4, <1>5, <1>6, TypeParts DEF IInv

\* Every step keeps IInv.
LEMMA NextIInv ==
  ASSUME IInv, [Next]_vars
  PROVE  IInv'
<1>1. Placed /\ TableInv /\ ScanInv
  BY TypeParts DEF IInv, TableInv, ScanInv
<1>2. CASE Next
  <2>1. Placed' /\ TableInv' /\ ScanInv'
    BY <1>1, <1>2, PlacedNext, TableNext, ScanNext
  <2>2. TypeOK'
    BY <2>1 DEF TypeOK, Placed, TableInv, Numbers, Runsvs
  <2> QED BY <2>1, <2>2 DEF IInv, TableInv, ScanInv
<1>3. CASE UNCHANGED vars
  <2>1. UNCHANGED <<mode, pc, sv, seen, todo, unread, rescan, sig, taken, dir, current, changedNow, lastNow, proc>>
    BY <1>3 DEF vars, runVars, scanVars, dirVars
  <2> QED BY <2>1 DEF IInv, TypeOK, OwnRunsv, InSlotOrEnding, AllEnding, ScanSound, Scanning,
                      ScanCurrent, NothingMissed, Listed
<1> QED BY <1>2, <1>3

\* IInv is inductive: the table, the processes and the scan together.
THEOREM Inductive == Spec => []IInv
<1>1. Init => IInv
  BY InitIInv
<1>2. IInv /\ [Next]_vars => IInv'
  BY NextIInv
<1> QED BY <1>1, <1>2, PTL DEF Spec

\* SIGTERM goes to no process but a runsv of the table, every runsv outside the
\* table has had it, and after SIGHUP every one, for any number of services and
\* of processes and whatever is edited and dies meanwhile.
THEOREM RunsvdirCorrect == Spec => []RunsvdirInv
<1>1. IInv => RunsvdirInv
  BY DEF IInv, RunsvdirInv, SignalsOwnRunsv, ForgottenAreEnding, HupEndsAll, Alive,
         OwnRunsv, InSlotOrEnding, AllEnding
<1> QED BY <1>1, Inductive, PTL

\* An unchanged mtime and no scan asked for: then the table has exactly the
\* entries of the directory, but for those the latest scan had to pass over.  No
\* edit is missed within the second of another.
THEOREM NothingIsMissed == Spec => []NothingMissed
<1>1. IInv => NothingMissed
  BY DEF IInv
<1> QED BY <1>1, Inductive, PTL

=============================================================================
