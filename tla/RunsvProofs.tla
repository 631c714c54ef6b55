----------------------------- MODULE RunsvProofs -----------------------------
(***************************************************************************)
(* Proofs about Runsv, for any set of process numbers and any number of    *)
(* commands, signals and deaths: RunsvInv, LogPipeOutlivesService, and     *)
(* that runsv implements the abstract supervisor of module Service.        *)
(***************************************************************************)
EXTENDS Runsv, TLAPS

\* No control/t and control/k script that claims to have handled the command:
\* custom() then keeps runsv from sending the signal itself.
NoStopScripts == "t" \notin Handled /\ "k" \notin Handled

Slots    == [pid : Pids \cup {0}, state : States, want : Wants]
Statuses == [pid : Pids \cup {0}, state : States, want : {"up", "down"}]
Process  == [kind : Kinds \cup {"none"}, dead : BOOLEAN, term : BOOLEAN,
             kill : BOOLEAN, stop : BOOLEAN]
Table    == [Pids -> Process]

\* Each slot of sv has a process of table t that is the service's own.
Owned(sv, t) ==
  /\ sv \in [Services -> Slots] /\ t \in Table
  /\ \A i \in Services : sv[i].pid # 0 => t[sv[i].pid].kind \in KindsOf(i)
  /\ \A i \in Services : sv[i].state = "run" => sv[i].pid # 0

\* The state of the service fits its process, and the processes in no slot were
\* told to stop.
Fits(s, t) ==
  s.pid # 0 => /\ s.state = "run" => t[s.pid].kind = "run"
               /\ s.state = "finish" => t[s.pid].kind = "finish"
               /\ s.state = "down" => t[s.pid].kind = "finish" \/ t[s.pid].kill

NoneLost(sv, t) ==
  \A q \in Pids : t[q].kind # "none" /\ ~t[q].dead /\ q # sv[0].pid /\ q # sv[1].pid
                    => t[q].term \/ t[q].kill

Kept(sv, t) == NoStopScripts => Fits(sv[0], t) /\ NoneLost(sv, t)

\* The undisturbed instances of ./run.
Instances(t) == {q \in Pids : t[q].kind = "run" /\ ~t[q].dead /\ ~t[q].term /\ ~t[q].kill}

-----------------------------------------------------------------------------
(* Signals                                                                 *)

\* From table t to table u processes got signals, and only the one with number
\* p; nothing else about them changed.
OnlySignals(t, u, p) ==
  /\ u \in Table
  /\ \A q \in Pids :
       /\ u[q].kind = t[q].kind /\ u[q].dead = t[q].dead
       /\ t[q].term => u[q].term
       /\ t[q].kill => u[q].kill
       /\ q # p => u[q] = t[q]

\* What one signal does to the process that gets it.
LEMMA SignalledProcess ==
  ASSUME NEW r \in Process
  PROVE  /\ [r EXCEPT !.term = TRUE] \in Process
         /\ [r EXCEPT !.kill = TRUE] \in Process
         /\ [r EXCEPT !.stop = TRUE] \in Process
         /\ [r EXCEPT !.stop = FALSE] \in Process
BY DEF Process

\* A table in which only p's entry changed, and in its signals only.
LEMMA ReplaceSends ==
  ASSUME NEW t \in Table, NEW p \in Pids, NEW u \in Table,
         \A q \in Pids : q # p => u[q] = t[q],
         u[p].kind = t[p].kind, u[p].dead = t[p].dead,
         t[p].term => u[p].term, t[p].kill => u[p].kill
  PROVE  OnlySignals(t, u, p)
<1>2. ASSUME NEW q \in Pids
      PROVE  /\ u[q].kind = t[q].kind /\ u[q].dead = t[q].dead
             /\ t[q].term => u[q].term
             /\ t[q].kill => u[q].kill
             /\ q # p => u[q] = t[q]
  <2>1. CASE q = p  BY <2>1
  <2>2. CASE q # p  BY <2>2
  <2> QED BY <2>1, <2>2
<1> QED BY <1>2 DEF OnlySignals

\* kill(2) only sends signals: TERM and KILL arrive, STOP and CONT are neither.
LEMMA KillSends ==
  ASSUME NEW t \in Table, NEW p \in Pids \cup {0}, NEW sig \in {"TERM", "KILL", "STOP", "CONT"}
  PROVE  /\ OnlySignals(t, Kill(t, p, sig), p)
         /\ p \in Pids /\ t[p].kind # "none" /\ sig = "TERM" => Kill(t, p, sig)[p].term
         /\ p \in Pids /\ t[p].kind # "none" /\ sig = "KILL" => Kill(t, p, sig)[p].kill
         /\ p \in Pids /\ sig \in {"STOP", "CONT"} =>
              /\ Kill(t, p, sig)[p].term = t[p].term
              /\ Kill(t, p, sig)[p].kill = t[p].kill
<1>1. CASE p \notin Pids \/ t[p].kind = "none"
  <2>1. Kill(t, p, sig) = t
    BY <1>1 DEF Kill
  <2>2. OnlySignals(t, t, p)
    BY DEF OnlySignals
  <2> QED BY <1>1, <2>1, <2>2
<1>2. CASE p \in Pids /\ t[p].kind # "none"
  <2>0. t[p] \in Process
    BY <1>2 DEF Table
  <2>1. CASE sig = "TERM"
    <3> DEFINE r == [t[p] EXCEPT !.term = TRUE]
    <3> DEFINE u == Kill(t, p, sig)
    <3>1. u = [t EXCEPT ![p] = r]
      BY <1>2, <2>1 DEF Kill
    <3>2. r \in Process
      BY <2>0, SignalledProcess
    <3>3. r.kind = t[p].kind /\ r.dead = t[p].dead /\ r.term /\ r.kill = t[p].kill
      BY <2>0 DEF Process
    <3> HIDE DEF r, u
    <3>4. u \in Table /\ u[p] = r /\ \A q \in Pids : q # p => u[q] = t[q]
      BY <1>2, <3>1, <3>2 DEF Table
    <3>5. OnlySignals(t, u, p)
      BY <1>2, <3>3, <3>4, ReplaceSends
    <3> QED BY <2>1, <3>3, <3>4, <3>5 DEF u
  <2>2. CASE sig = "KILL"
    <3> DEFINE r == [t[p] EXCEPT !.kill = TRUE]
    <3> DEFINE u == Kill(t, p, sig)
    <3>1. u = [t EXCEPT ![p] = r]
      BY <1>2, <2>2 DEF Kill
    <3>2. r \in Process
      BY <2>0, SignalledProcess
    <3>3. r.kind = t[p].kind /\ r.dead = t[p].dead /\ r.term = t[p].term /\ r.kill
      BY <2>0 DEF Process
    <3> HIDE DEF r, u
    <3>4. u \in Table /\ u[p] = r /\ \A q \in Pids : q # p => u[q] = t[q]
      BY <1>2, <3>1, <3>2 DEF Table
    <3>5. OnlySignals(t, u, p)
      BY <1>2, <3>3, <3>4, ReplaceSends
    <3> QED BY <2>2, <3>3, <3>4, <3>5 DEF u
  <2>3. CASE sig = "STOP"
    <3> DEFINE r == [t[p] EXCEPT !.stop = TRUE]
    <3> DEFINE u == Kill(t, p, sig)
    <3>1. u = [t EXCEPT ![p] = r]
      BY <1>2, <2>3 DEF Kill
    <3>2. r \in Process
      BY <2>0, SignalledProcess
    <3>3. r.kind = t[p].kind /\ r.dead = t[p].dead /\ r.term = t[p].term /\ r.kill = t[p].kill
      BY <2>0 DEF Process
    <3> HIDE DEF r, u
    <3>4. u \in Table /\ u[p] = r /\ \A q \in Pids : q # p => u[q] = t[q]
      BY <1>2, <3>1, <3>2 DEF Table
    <3>5. OnlySignals(t, u, p)
      BY <1>2, <3>3, <3>4, ReplaceSends
    <3> QED BY <2>3, <3>3, <3>4, <3>5 DEF u
  <2>4. CASE sig = "CONT"
    <3> DEFINE r == [t[p] EXCEPT !.stop = FALSE]
    <3> DEFINE u == Kill(t, p, sig)
    <3>1. u = [t EXCEPT ![p] = r]
      BY <1>2, <2>4 DEF Kill
    <3>2. r \in Process
      BY <2>0, SignalledProcess
    <3>3. r.kind = t[p].kind /\ r.dead = t[p].dead /\ r.term = t[p].term /\ r.kill = t[p].kill
      BY <2>0 DEF Process
    <3> HIDE DEF r, u
    <3>4. u \in Table /\ u[p] = r /\ \A q \in Pids : q # p => u[q] = t[q]
      BY <1>2, <3>1, <3>2 DEF Table
    <3>5. OnlySignals(t, u, p)
      BY <1>2, <3>3, <3>4, ReplaceSends
    <3> QED BY <2>4, <3>3, <3>4, <3>5 DEF u
  <2> QED BY <2>1, <2>2, <2>3, <2>4
<1> QED BY <1>1, <1>2

\* Sending signals to the same process twice is sending it signals.
LEMMA SendsTwice ==
  ASSUME NEW t, NEW u, NEW v, NEW p, OnlySignals(t, u, p), OnlySignals(u, v, p)
  PROVE  OnlySignals(t, v, p)
BY DEF OnlySignals

\* A step that signals nobody leaves the process table as it is.
LEMMA SendsNothing ==
  ASSUME NEW t \in Table, NEW p
  PROVE  OnlySignals(t, t, p)
BY DEF OnlySignals

\* stopservice only sends signals, and without a control/t script the process
\* of the service gets its TERM.
LEMMA StoppedSends ==
  ASSUME NEW t \in Table, NEW i \in Services, NEW s \in Slots
  PROVE  /\ OnlySignals(t, Stopped(t, i, s), s.pid)
         /\ NoStopScripts /\ s.pid \in Pids /\ t[s.pid].kind # "none"
              => Stopped(t, i, s)[s.pid].term
<1> DEFINE asked == IF s.pid # 0 /\ ~Custom(i, "t") THEN Kill(t, s.pid, "TERM") ELSE t
<1>1. s.pid \in Pids \cup {0}
  BY DEF Slots
<1>0. OnlySignals(t, Kill(t, s.pid, "TERM"), s.pid)
  BY <1>1, KillSends
<1>2. OnlySignals(t, asked, s.pid)
  BY <1>0, SendsNothing
<1>3. asked \in Table
  BY <1>2 DEF OnlySignals
<1>4. NoStopScripts /\ s.pid \in Pids /\ t[s.pid].kind # "none" => asked[s.pid].term
  BY <1>1, KillSends, RunsvAssumption DEF NoStopScripts, Custom
<1>6. Stopped(t, i, s) = IF s.want \in {"down", "exit"} THEN Kill(asked, s.pid, "CONT") ELSE asked
  BY DEF Stopped
<1> HIDE DEF asked
<1>5. OnlySignals(asked, Kill(asked, s.pid, "CONT"), s.pid)
  BY <1>1, <1>3, KillSends
<1>7. OnlySignals(t, Kill(asked, s.pid, "CONT"), s.pid)
  BY <1>2, <1>5, SendsTwice
<1>8. NoStopScripts /\ s.pid \in Pids /\ t[s.pid].kind # "none"
        => Kill(asked, s.pid, "CONT")[s.pid].term
  BY <1>4, <1>5 DEF OnlySignals
<1> QED BY <1>2, <1>4, <1>6, <1>7, <1>8

-----------------------------------------------------------------------------
(* What the three kinds of steps keep: signals to the process of one slot, *)
(* a new process in a slot, and a process that is taken out of the table   *)

\* Signals to the process of slot i, and a new wish there; the state stays, or
\* is "down" for a process that is a ./finish or was killed.
LEMMA SignalsKeep ==
  ASSUME NEW sv, NEW t, Owned(sv, t), Kept(sv, t), NEW i \in Services,
         NEW s \in Slots, s.pid = sv[i].pid, NEW u, OnlySignals(t, u, s.pid),
         \/ s.state = sv[i].state
         \/ /\ s.state = "down"
            /\ NoStopScripts /\ i = 0 /\ s.pid # 0
                 => u[s.pid].kind = "finish" \/ u[s.pid].kill
  PROVE  Owned([sv EXCEPT ![i] = s], u) /\ Kept([sv EXCEPT ![i] = s], u)
<1> DEFINE sw == [sv EXCEPT ![i] = s]
<1>1. /\ sw \in [Services -> Slots] /\ sw[i] = s
      /\ \A j \in Services : j # i => sw[j] = sv[j]
      /\ \A j \in Services : sw[j].pid = sv[j].pid
  BY DEF Owned
<1>2. \A j \in Services : sv[j].pid # 0 => sv[j].pid \in Pids
  BY DEF Owned, Slots
<1>3. 0 \in Services /\ 1 \in Services
  BY DEF Services
<1> HIDE DEF sw
<1>4. Owned(sw, u)
  <2>1. \A j \in Services : sw[j].pid # 0 => u[sw[j].pid].kind \in KindsOf(j)
    BY <1>1, <1>2 DEF Owned, OnlySignals
  <2>2. \A j \in Services : sw[j].state = "run" => sw[j].pid # 0
    BY <1>1 DEF Owned
  <2> QED BY <1>1, <2>1, <2>2 DEF Owned, OnlySignals
<1>5. ASSUME NoStopScripts
      PROVE  Fits(sw[0], u) /\ NoneLost(sw, u)
  <2>0. Fits(sv[0], t) /\ NoneLost(sv, t)
    BY <1>5 DEF Kept
  <2>1. NoneLost(sw, u)
    BY <2>0, <1>1, <1>3 DEF NoneLost, OnlySignals
  <2>2. ASSUME sw[0].pid # 0, sw[0].state = sv[0].state
        PROVE  Fits(sw[0], u)
    BY <2>0, <2>2, <1>1, <1>2, <1>3 DEF Fits, OnlySignals
  <2>3. CASE i = 0 /\ sw[0].state # sv[0].state
    BY <2>1, <2>3, <1>1, <1>3, <1>5 DEF Fits
  <2>4. sw[0].pid = 0 => Fits(sw[0], u)
    BY DEF Fits
  <2> QED BY <2>1, <2>2, <2>3, <2>4, <1>1, <1>3
<1> QED BY <1>4, <1>5 DEF Kept, sw

\* A new process p in slot i; the one that was there was told to stop.
LEMMA StartKeeps ==
  ASSUME NEW sv, NEW t, Owned(sv, t), Kept(sv, t), NEW i \in Services,
         NEW s \in Slots, s.pid = sv[i].pid, s.state = sv[i].state,
         s.pid = 0 \/ s.state = "down",
         NEW u, OnlySignals(t, u, s.pid),
         NoStopScripts /\ s.pid # 0 => u[s.pid].term,
         NEW p \in Pids, t[p].kind = "none",
         NEW r \in Process,
         r.kind = (IF i = 1 THEN "log" ELSE IF s.state = "finish" THEN "finish" ELSE "run"),
         NEW s2 \in Slots, s2.pid = p,
         s2.state = IF s.state = "finish" THEN "finish" ELSE "run"
  PROVE  Owned([sv EXCEPT ![i] = s2], [u EXCEPT ![p] = r])
         /\ Kept([sv EXCEPT ![i] = s2], [u EXCEPT ![p] = r])
<1> DEFINE sw == [sv EXCEPT ![i] = s2]
<1> DEFINE v == [u EXCEPT ![p] = r]
<1>1. /\ sw \in [Services -> Slots] /\ sw[i] = s2
      /\ \A j \in Services : j # i => sw[j] = sv[j]
  BY DEF Owned
<1>2. v \in Table /\ v[p] = r /\ \A q \in Pids : q # p => v[q] = u[q]
  BY DEF OnlySignals, Table
<1>3. 0 \in Services /\ 1 \in Services /\ 0 \notin Pids /\ i \in {0, 1}
  BY RunsvAssumption DEF Services
<1>4. \A j \in Services : sv[j].pid # 0 =>
        /\ sv[j].pid \in Pids /\ sv[j].pid # p
        /\ v[sv[j].pid] = u[sv[j].pid]
  <2> SUFFICES ASSUME NEW j \in Services, sv[j].pid # 0
               PROVE  sv[j].pid \in Pids /\ sv[j].pid # p
    BY <1>2
  <2>1. sv[j].pid \in Pids
    BY DEF Owned, Slots
  <2>2. t[sv[j].pid].kind # "none"
    BY DEF Owned, KindsOf
  <2> QED BY <2>1, <2>2
<1> HIDE DEF sw, v
<1>5. Owned(sw, v)
  <2>1. \A j \in Services : sw[j].pid # 0 => v[sw[j].pid].kind \in KindsOf(j)
    <3> SUFFICES ASSUME NEW j \in Services, sw[j].pid # 0
                 PROVE  v[sw[j].pid].kind \in KindsOf(j)
      OBVIOUS
    <3>1. CASE j = i  BY <3>1, <1>1, <1>2, <1>3 DEF KindsOf
    <3>2. CASE j # i  BY <3>2, <1>1, <1>4 DEF Owned, OnlySignals
    <3> QED BY <3>1, <3>2
  <2>2. \A j \in Services : sw[j].state = "run" => sw[j].pid # 0
    BY <1>1, <1>3 DEF Owned
  <2> QED BY <1>1, <1>2, <2>1, <2>2 DEF Owned
<1>6. ASSUME NoStopScripts
      PROVE  Fits(sw[0], v) /\ NoneLost(sw, v)
  <2>0. Fits(sv[0], t) /\ NoneLost(sv, t)
    BY <1>6 DEF Kept
  <2>1. Fits(sw[0], v)
    <3>1. CASE i = 0  BY <3>1, <1>1, <1>2 DEF Fits
    <3>2. CASE i # 0
      <4>1. sw[0] = sv[0]  BY <3>2, <1>1, <1>3
      <4> QED BY <4>1, <2>0, <1>4, <1>3 DEF Fits, OnlySignals
    <3> QED BY <3>1, <3>2
  <2>2. NoneLost(sw, v)
    <3> SUFFICES ASSUME NEW q \in Pids, v[q].kind # "none", ~v[q].dead,
                        q # sw[0].pid, q # sw[1].pid
                 PROVE  v[q].term \/ v[q].kill
      BY DEF NoneLost
    <3>1. q # p
      BY <1>1, <1>3
    <3>2. v[q] = u[q] /\ u[q].kind = t[q].kind /\ u[q].dead = t[q].dead
      BY <3>1, <1>2 DEF OnlySignals
    <3>3. CASE q = s.pid
      BY <3>2, <3>3, <1>3, <1>6
    <3>4. CASE q # s.pid
      <4>1. q # sv[0].pid /\ q # sv[1].pid
        BY <3>4, <1>1, <1>3
      <4>2. t[q].term \/ t[q].kill
        BY <4>1, <3>2, <2>0 DEF NoneLost
      <4> QED BY <4>2, <3>2 DEF OnlySignals
    <3> QED BY <3>3, <3>4
  <2> QED BY <2>1, <2>2
<1> QED BY <1>5, <1>6 DEF Kept, sw, v
\* Process p is reaped: a slot that had it is empty from then on.
LEMMA ReapKeeps ==
  ASSUME NEW sv, NEW t, Owned(sv, t), Kept(sv, t), NEW p \in Pids,
         NEW sw \in [Services -> Slots],
         \A j \in Services : \/ sw[j] = sv[j] /\ sv[j].pid # p
                             \/ sw[j].pid = 0 /\ sw[j].state # "run" /\ sv[j].pid = p
  PROVE  Owned(sw, [t EXCEPT ![p] = NoProc]) /\ Kept(sw, [t EXCEPT ![p] = NoProc])
<1> DEFINE v == [t EXCEPT ![p] = NoProc]
<1>0. NoProc \in Process /\ NoProc.kind = "none"
  BY DEF NoProc, Process, Kinds
<1>1. v \in Table /\ v[p] = NoProc /\ \A q \in Pids : q # p => v[q] = t[q]
  BY <1>0 DEF Owned, Table
<1>2. 0 \in Services /\ 1 \in Services /\ 0 \notin Pids
  BY RunsvAssumption DEF Services
<1>3. \A j \in Services : sw[j].pid # 0 =>
        sw[j] = sv[j] /\ sv[j].pid \in Pids /\ v[sv[j].pid] = t[sv[j].pid]
  BY <1>1 DEF Owned, Slots
<1> HIDE DEF v
<1>4. Owned(sw, v)
  <2>1. \A j \in Services : sw[j].pid # 0 => v[sw[j].pid].kind \in KindsOf(j)
    BY <1>3 DEF Owned
  <2>2. \A j \in Services : sw[j].state = "run" => sw[j].pid # 0
    BY DEF Owned
  <2> QED BY <1>1, <2>1, <2>2 DEF Owned
<1>5. ASSUME NoStopScripts
      PROVE  Fits(sw[0], v) /\ NoneLost(sw, v)
  <2>0. Fits(sv[0], t) /\ NoneLost(sv, t)
    BY <1>5 DEF Kept
  <2>1. Fits(sw[0], v)
    BY <2>0, <1>2, <1>3 DEF Fits
  <2>2. NoneLost(sw, v)
    <3> SUFFICES ASSUME NEW q \in Pids, v[q].kind # "none", ~v[q].dead,
                        q # sw[0].pid, q # sw[1].pid
                 PROVE  v[q].term \/ v[q].kill
      BY DEF NoneLost
    <3>1. q # p
      BY <1>0, <1>1
    <3>2. v[q] = t[q] /\ q # sv[0].pid /\ q # sv[1].pid
      BY <3>1, <1>1, <1>2
    <3> QED BY <3>2, <2>0 DEF NoneLost
  <2> QED BY <2>1, <2>2
<1> QED BY <1>4, <1>5 DEF Kept, v

\* Process p dies and is not yet waited for.
LEMMA DeathKeeps ==
  ASSUME NEW sv, NEW t, Owned(sv, t), Kept(sv, t), NEW p \in Pids
  PROVE  Owned(sv, [t EXCEPT ![p].dead = TRUE]) /\ Kept(sv, [t EXCEPT ![p].dead = TRUE])
<1> DEFINE r == [t[p] EXCEPT !.dead = TRUE]
<1> DEFINE v == [t EXCEPT ![p] = r]
<1>0. t[p] \in Process
  BY DEF Owned, Table
<1>1. r \in Process /\ r.kind = t[p].kind /\ r.kill = t[p].kill /\ r.dead
  BY <1>0 DEF Process
<1> HIDE DEF r
<1>2. v \in Table /\ v[p] = r /\ \A q \in Pids : q # p => v[q] = t[q]
  BY <1>1 DEF Owned, Table
<1> HIDE DEF v
<1>3. \A q \in Pids : v[q].kind = t[q].kind /\ v[q].kill = t[q].kill
  BY <1>1, <1>2
<1>4. \A q \in Pids : ~v[q].dead => v[q] = t[q]
  BY <1>1, <1>2
<1>5. \A j \in Services : sv[j].pid # 0 => sv[j].pid \in Pids
  BY DEF Owned, Slots
<1>6. Owned(sv, v)
  BY <1>2, <1>3, <1>5 DEF Owned
<1>7. ASSUME NoStopScripts PROVE Fits(sv[0], v)
  <2>1. Fits(sv[0], t) /\ 0 \in Services
    BY <1>7 DEF Kept, Services
  <2> QED BY <2>1, <1>3, <1>5 DEF Fits
<1>8. ASSUME NoStopScripts PROVE NoneLost(sv, v)
  <2>1. NoneLost(sv, t)
    BY <1>8 DEF Kept
  <2> QED BY <2>1, <1>4 DEF NoneLost
<1> QED BY <1>6, <1>7, <1>8 DEF Kept, v, r

\* What the status files say, when one slot and its file are written.
Told(sv, st) ==
  /\ st \in [Services -> Statuses]
  /\ \A i \in Services :
       /\ st[i].pid = sv[i].pid /\ (st[i].want = "up" <=> sv[i].want = "up")
       /\ st[i].state = "down" => sv[i].state = "down"

\* update_status: the slot and its status file change together.
LEMMA UpdateTells ==
  ASSUME NEW sv \in [Services -> Slots], NEW st, Told(sv, st), NEW i \in Services, NEW s \in Slots
  PROVE  Told([sv EXCEPT ![i] = s], [st EXCEPT ![i] = Published(s)])
<1> DEFINE sw == [sv EXCEPT ![i] = s]
<1> DEFINE su == [st EXCEPT ![i] = Published(s)]
<1>1. /\ Published(s) \in Statuses /\ Published(s).pid = s.pid
      /\ Published(s).state = s.state /\ (Published(s).want = "up" <=> s.want = "up")
  BY DEF Published, Slots, Statuses, Wants
<1>2. sw[i] = s /\ \A j \in Services : j # i => sw[j] = sv[j]
  OBVIOUS
<1>3. su \in [Services -> Statuses] /\ su[i] = Published(s) /\ \A j \in Services : j # i => su[j] = st[j]
  BY <1>1 DEF Told
<1> HIDE DEF sw, su
<1>4. Told(sw, su)
  BY <1>1, <1>2, <1>3 DEF Told
<1> QED BY <1>4 DEF sw, su

-----------------------------------------------------------------------------
(* The undisturbed instances of the service                                *)

\* Signals leave all of them, or all but the one that got them.
LEMMA InstancesSignals ==
  ASSUME NEW t, NEW u, NEW p, OnlySignals(t, u, p)
  PROVE  /\ Instances(u) \subseteq Instances(t)
         /\ Instances(t) \ {p} \subseteq Instances(u)
         /\ p \in Pids /\ (u[p].term \/ u[p].kill) => p \notin Instances(u)
BY DEF OnlySignals, Instances

\* There is one at most, in the slot of a service that is in state "run".
LEMMA InstancesOwned ==
  ASSUME NEW sv, NEW t, Owned(sv, t), Kept(sv, t), NoStopScripts
  PROVE  /\ Instances(t) \subseteq {sv[0].pid}
         /\ sv[0].state # "run" => Instances(t) = {}
<1>0. Fits(sv[0], t) /\ NoneLost(sv, t)
  BY DEF Kept
<1>1. 0 \in Services /\ 1 \in Services /\ 0 \notin Pids
  BY RunsvAssumption DEF Services
<1>2. sv[0].state \in {"down", "run", "finish"}
  BY <1>1 DEF Owned, Slots, States
<1>3. ASSUME NEW q \in Instances(t)
      PROVE  q = sv[0].pid /\ sv[0].state = "run"
  <2>1. q \in Pids /\ t[q].kind = "run" /\ ~t[q].dead /\ ~t[q].term /\ ~t[q].kill
    BY <1>3 DEF Instances
  <2>2. q # sv[1].pid
    <3> SUFFICES ASSUME q = sv[1].pid PROVE FALSE  OBVIOUS
    <3>1. t[sv[1].pid].kind \in KindsOf(1)
      BY <1>1, <2>1 DEF Owned
    <3> QED BY <3>1, <2>1 DEF KindsOf
  <2>3. q = sv[0].pid
    BY <2>1, <2>2, <1>0 DEF NoneLost
  <2> QED BY <1>0, <1>1, <1>2, <2>1, <2>3 DEF Fits
<1> QED BY <1>3

\* The new process is the only one that can be added.
LEMMA InstancesReplace ==
  ASSUME NEW t \in Table, NEW p \in Pids, NEW r \in Process
  PROVE  Instances([t EXCEPT ![p] = r]) =
           (Instances(t) \ {p}) \cup
           (IF r.kind = "run" /\ ~r.dead /\ ~r.term /\ ~r.kill THEN {p} ELSE {})
<1> DEFINE v == [t EXCEPT ![p] = r]
<1>1. v[p] = r /\ \A q \in Pids : q # p => v[q] = t[q]
  BY DEF Table
<1> HIDE DEF v
<1>2. CASE r.kind = "run" /\ ~r.dead /\ ~r.term /\ ~r.kill
  <2>1. Instances(v) = (Instances(t) \ {p}) \cup {p}
    BY <1>1, <1>2 DEF Instances
  <2> QED BY <2>1, <1>2 DEF v
<1>3. CASE ~(r.kind = "run" /\ ~r.dead /\ ~r.term /\ ~r.kill)
  <2>1. Instances(v) = Instances(t) \ {p}
    BY <1>1, <1>3 DEF Instances
  <2> QED BY <2>1, <1>3 DEF v
<1> QED BY <1>2, <1>3
-----------------------------------------------------------------------------
(* The steps of runsv                                                      *)

Matched == Owned(svd, proc) /\ Kept(svd, proc) /\ Told(svd, status)

\* What a step does to the service as Service sees it: nothing, an end of its
\* instance, a start or none with a new wish, or none left with the wish that.
Seen ==
  \/ svd'[0].want = svd[0].want /\ Instances(proc') = Instances(proc)
  \/ svd'[0].want = svd[0].want /\ Instances(proc) # {} /\ Instances(proc') = {}
  \/ /\ svd'[0].want \in {"up", "down"}
     /\ \/ Instances(proc') = Instances(proc)
        \/ Instances(proc) = {} /\ \E p \in Pids : Instances(proc') = {p}
  \/ svd'[0].want \in {"down", "exit"} /\ Instances(proc') = {}

\* Signals to the process of slot i, with a new wish or a new state there.
LEMMA SignalStep ==
  ASSUME Matched, NEW i \in Services, NEW s \in Slots, s.pid = svd[i].pid,
         OnlySignals(proc, proc', s.pid), svd' = [svd EXCEPT ![i] = s],
         \/ s.state = svd[i].state
         \/ /\ s.state = "down"
            /\ NoStopScripts /\ i = 0 /\ s.pid # 0
                 => proc'[s.pid].kind = "finish" \/ proc'[s.pid].kill,
         Told(svd', status')
  PROVE  /\ Matched' /\ Instances(proc') \subseteq Instances(proc)
         /\ svd'[0].want = IF i = 0 THEN s.want ELSE svd[0].want
         /\ NoStopScripts /\ i = 1 => Instances(proc') = Instances(proc)
         /\ NoStopScripts => Instances(proc') = Instances(proc) \/ Instances(proc') = {}
<1>1. Owned(svd, proc) /\ Kept(svd, proc)
  BY DEF Matched
<1>2. Owned(svd', proc') /\ Kept(svd', proc')
  BY <1>1, SignalsKeep
<1>3. Instances(proc') \subseteq Instances(proc) /\ Instances(proc) \ {s.pid} \subseteq Instances(proc')
  BY InstancesSignals
<1>4. svd'[0].want = IF i = 0 THEN s.want ELSE svd[0].want
  BY <1>1 DEF Owned, Services
<1>5. ASSUME NoStopScripts PROVE Instances(proc) \subseteq {svd[0].pid}
  BY <1>1, <1>5, InstancesOwned
<1>6. ASSUME NoStopScripts, i = 1 PROVE s.pid \notin Instances(proc)
  <2> SUFFICES ASSUME s.pid \in Instances(proc) PROVE FALSE  OBVIOUS
  <2>1. s.pid \in Pids /\ proc[s.pid].kind = "run" /\ s.pid # 0
    BY RunsvAssumption DEF Instances
  <2>2. proc[s.pid].kind \in KindsOf(1)
    BY <1>1, <1>6, <2>1 DEF Owned
  <2> QED BY <2>1, <2>2 DEF KindsOf
<1>7. NoStopScripts => Instances(proc') = Instances(proc) \/ Instances(proc') = {}
  BY <1>3, <1>5
<1>8. NoStopScripts /\ i = 1 => Instances(proc') = Instances(proc)
  BY <1>3, <1>6
<1> QED BY <1>2, <1>3, <1>4, <1>7, <1>8 DEF Matched

\* startservice.
LEMMA StartStep ==
  ASSUME Matched, chld \in BOOLEAN, NEW i \in Services, NEW s \in Slots, s.pid = svd[i].pid,
         s.state = svd[i].state, s.pid = 0 \/ s.state = "down", StartService(i, s)
  PROVE  /\ Matched' /\ chld' \in BOOLEAN
         /\ svd'[0].want = IF i = 0 THEN s.want ELSE svd[0].want
         /\ HasLog /\ ~logpipe => Instances(proc') \subseteq Instances(proc)
         /\ NoStopScripts /\ i = 1 => Instances(proc') = Instances(proc)
         /\ NoStopScripts /\ i = 0 =>
              /\ Instances(proc) = {}
              /\ Instances(proc') = {} \/ \E p \in Pids : Instances(proc') = {p}
<1> DEFINE u == IF s.pid # 0 THEN Stopped(proc, i, s) ELSE proc
<1> DEFINE s2(p) == [s EXCEPT !.pid = p, !.state = IF @ = "finish" THEN @ ELSE "run"]
<1> DEFINE k == IF i = 1 THEN "log" ELSE IF s.state = "finish" THEN "finish" ELSE "run"
<1> DEFINE r == [NoProc EXCEPT !.kind = k, !.dead = HasLog /\ ~logpipe]
<1>0. Owned(svd, proc) /\ Kept(svd, proc) /\ Told(svd, status) /\ proc \in Table
      /\ svd \in [Services -> Slots]
  BY DEF Matched, Owned
<1>1. PICK p \in Pids : /\ proc[p].kind = "none"
                        /\ Update(i, s2(p)) /\ proc' = [u EXCEPT ![p] = r]
                        /\ chld' = (chld \/ (HasLog /\ ~logpipe))
  BY DEF StartService
<1>2. r \in Process /\ r.kind = k /\ r.dead = (HasLog /\ ~logpipe)
  BY DEF NoProc, Process, Kinds
<1>3. /\ s2(p) \in Slots /\ s2(p).pid = p /\ s2(p).want = s.want
      /\ s2(p).state = IF s.state = "finish" THEN "finish" ELSE "run"
  BY DEF Slots, States
<1>4. svd' = [svd EXCEPT ![i] = s2(p)] /\ status' = [status EXCEPT ![i] = Published(s2(p))]
  BY <1>1 DEF Update
<1>5. OnlySignals(proc, u, s.pid)
  BY <1>0, StoppedSends, SendsNothing
<1>6. NoStopScripts /\ s.pid # 0 => u[s.pid].term
  <2> SUFFICES ASSUME NoStopScripts, s.pid # 0 PROVE u[s.pid].term  OBVIOUS
  <2>1. s.pid \in Pids
    BY DEF Slots
  <2>2. proc[s.pid].kind # "none"
    BY <1>0 DEF Owned, KindsOf
  <2> QED BY <1>0, <2>1, <2>2, StoppedSends
<1> HIDE DEF u, s2, r
<1>7. Owned(svd', proc') /\ Kept(svd', proc')
  BY <1>0, <1>1, <1>2, <1>3, <1>4, <1>5, <1>6, StartKeeps DEF k
<1>8. Told(svd', status')
  BY <1>0, <1>3, <1>4, UpdateTells
<1>9. svd'[0].want = IF i = 0 THEN s.want ELSE svd[0].want
  BY <1>0, <1>3, <1>4 DEF Services
<1>10. chld' \in BOOLEAN
  BY <1>1
<1>11. Instances(proc') = (Instances(u) \ {p}) \cup
         (IF r.kind = "run" /\ ~r.dead /\ ~r.term /\ ~r.kill THEN {p} ELSE {})
  <2>1. u \in Table
    BY <1>5 DEF OnlySignals
  <2> QED BY <1>1, <1>2, <2>1, InstancesReplace
<1>12. Instances(u) \subseteq Instances(proc) /\ Instances(proc) \ {s.pid} \subseteq Instances(u)
  BY <1>5, InstancesSignals
<1>13. p \notin Instances(proc)
  BY <1>1 DEF Instances
<1>14. HasLog /\ ~logpipe => Instances(proc') \subseteq Instances(proc)
  BY <1>2, <1>11, <1>12
<1>15. ASSUME NoStopScripts, i = 1
       PROVE  Instances(proc') = Instances(proc)
  <2>1. s.pid \notin Instances(proc)
    <3> SUFFICES ASSUME s.pid \in Instances(proc) PROVE FALSE  OBVIOUS
    <3>1. s.pid \in Pids /\ proc[s.pid].kind = "run" /\ s.pid # 0
      BY RunsvAssumption DEF Instances
    <3>2. proc[s.pid].kind \in KindsOf(1)
      BY <1>0, <1>15, <3>1 DEF Owned
    <3> QED BY <3>1, <3>2 DEF KindsOf
  <2>2. r.kind # "run"
    BY <1>2, <1>15 DEF k
  <2> QED BY <2>1, <2>2, <1>11, <1>12, <1>13
<1>16. ASSUME NoStopScripts, i = 0
       PROVE  /\ Instances(proc) = {}
              /\ Instances(proc') = {} \/ \E q \in Pids : Instances(proc') = {q}
  <2>1. Instances(proc) \subseteq {svd[0].pid} /\ (svd[0].state # "run" => Instances(proc) = {})
    BY <1>0, <1>16, InstancesOwned
  <2>2. 0 \notin Instances(proc)
    BY RunsvAssumption DEF Instances
  <2>3. Instances(proc) = {}
    BY <1>16, <2>1, <2>2
  <2> QED BY <2>3, <1>11, <1>12
<1> QED BY <1>7, <1>8, <1>9, <1>10, <1>14, <1>15, <1>16 DEF Matched

\* What a step that leaves the log pipe alone has to keep.
StepKeeps ==
  /\ Matched' /\ chld' \in BOOLEAN
  /\ HasLog /\ ~logpipe => Instances(proc') \subseteq Instances(proc)
  /\ NoStopScripts => Seen

\* A slot with another wish.
LEMMA WantSlot ==
  ASSUME Matched, NEW i \in Services, NEW w \in Wants
  PROVE  /\ Want(i, w) \in Slots /\ Want(i, w).pid = svd[i].pid
         /\ Want(i, w).state = svd[i].state /\ Want(i, w).want = w
<1>1. svd[i] \in Slots
  BY DEF Matched, Owned
<1> QED BY <1>1 DEF Want, Slots

\* The file is written with its slot.
LEMMA UpdateSlot ==
  ASSUME Matched, NEW i \in Services, NEW s \in Slots, Update(i, s)
  PROVE  svd' = [svd EXCEPT ![i] = s] /\ Told(svd', status')
BY UpdateTells DEF Update, Matched, Owned

\* stopservice, where it is called for the service's state alone.
LEMMA StopIfRunningSends ==
  ASSUME Matched, NEW i \in Services, NEW s \in Slots, s.pid = svd[i].pid,
         s.state = svd[i].state, StopIfRunning(i, s)
  PROVE  /\ OnlySignals(proc, proc', s.pid)
         /\ NoStopScripts /\ s.state = "run" => s.pid \in Pids /\ proc'[s.pid].term
<1>0. proc \in Table /\ Owned(svd, proc)
  BY DEF Matched, Owned
<1>1. OnlySignals(proc, proc', s.pid)
  BY <1>0, StoppedSends, SendsNothing DEF StopIfRunning
<1>2. ASSUME NoStopScripts, s.state = "run"
      PROVE  s.pid \in Pids /\ proc'[s.pid].term
  <2>1. s.pid \in Pids /\ proc[s.pid].kind # "none"
    BY <1>0, <1>2 DEF Owned, Slots, KindsOf
  <2> QED BY <2>1, <1>0, <1>2, StoppedSends DEF StopIfRunning
<1> QED BY <1>1, <1>2

\* Nobody is left of a service that was told to stop.
LEMMA StopLeavesNone ==
  ASSUME Matched, NoStopScripts, NEW s \in Slots, s.pid = svd[0].pid,
         s.state = svd[0].state, StopIfRunning(0, s)
  PROVE  Instances(proc') = {}
<1>0. Owned(svd, proc) /\ Kept(svd, proc) /\ 0 \in Services
  BY DEF Matched, Services
<1>1. Instances(proc) \subseteq {svd[0].pid} /\ (svd[0].state # "run" => Instances(proc) = {})
  BY <1>0, InstancesOwned
<1>2. OnlySignals(proc, proc', s.pid) /\ (s.state = "run" => s.pid \in Pids /\ proc'[s.pid].term)
  BY <1>0, StopIfRunningSends
<1>3. Instances(proc') \subseteq Instances(proc)
  BY <1>2, InstancesSignals
<1>4. s.state = "run" => s.pid \notin Instances(proc')
  BY <1>2, InstancesSignals
<1> QED BY <1>1, <1>3, <1>4

\* The commands d and x.
LEMMA CtrlStop ==
  ASSUME Matched, chld \in BOOLEAN, NEW i \in Services, NEW w \in {"down", "exit"},
         Update(i, Want(i, w)), StopIfRunning(i, Want(i, w)), UNCHANGED chld
  PROVE  StepKeeps
<1> DEFINE s == Want(i, w)
<1>1. s \in Slots /\ s.pid = svd[i].pid /\ s.state = svd[i].state /\ s.want = w
  BY WantSlot DEF Wants
<1>2. StopIfRunning(i, s) /\ Update(i, s)
  OBVIOUS
<1> HIDE DEF s
<1>3. svd' = [svd EXCEPT ![i] = s] /\ Told(svd', status')
  BY <1>1, <1>2, UpdateSlot
<1>4. OnlySignals(proc, proc', s.pid)
  BY <1>1, <1>2, StopIfRunningSends
<1>5. /\ Matched' /\ Instances(proc') \subseteq Instances(proc)
      /\ svd'[0].want = IF i = 0 THEN s.want ELSE svd[0].want
      /\ NoStopScripts /\ i = 1 => Instances(proc') = Instances(proc)
  BY <1>1, <1>3, <1>4, SignalStep
<1>6. ASSUME NoStopScripts PROVE Seen
  <2>1. CASE i = 0
    BY <1>1, <1>2, <1>5, <1>6, <2>1, StopLeavesNone DEF Seen
  <2>2. CASE i = 1
    BY <1>5, <1>6, <2>2 DEF Seen
  <2> QED BY <2>1, <2>2 DEF Services
<1> QED BY <1>5, <1>6 DEF StepKeeps

\* 'd': want down, and ./run is stopped.
LEMMA CtrlDown ==
  ASSUME Matched, chld \in BOOLEAN, NEW i \in Services, ctrl_down(i)
  PROVE  StepKeeps
BY CtrlStop DEF ctrl_down

\* Nothing of the service changes.
LEMMA Idle ==
  ASSUME Matched, chld \in BOOLEAN, UNCHANGED <<svd, status, proc, chld>>
  PROVE  StepKeeps
BY DEF StepKeeps, Seen, Matched

\* 'x': want exit, and ./run is stopped; the log is left alone.
LEMMA CtrlExit ==
  ASSUME Matched, chld \in BOOLEAN, NEW i \in Services, ctrl_exit(i)
  PROVE  StepKeeps
<1>1. CASE i = 1
  <2>1. UNCHANGED <<svd, status, proc, chld>>
    BY <1>1 DEF ctrl_exit
  <2> QED BY <2>1, Idle
<1>2. CASE i # 1
  <2>1. Update(i, Want(i, "exit")) /\ StopIfRunning(i, Want(i, "exit")) /\ UNCHANGED chld
    BY <1>2 DEF ctrl_exit
  <2> QED BY <2>1, CtrlStop
<1> QED BY <1>1, <1>2

\* The commands u and o.
LEMMA CtrlStart ==
  ASSUME Matched, chld \in BOOLEAN, NEW i \in Services, NEW w \in {"up", "down"},
         StartIfDown(i, Want(i, w))
  PROVE  StepKeeps
<1> DEFINE s == Want(i, w)
<1>1. s \in Slots /\ s.pid = svd[i].pid /\ s.state = svd[i].state /\ s.want = w
  BY WantSlot DEF Wants
<1>2. StartIfDown(i, s)
  OBVIOUS
<1> HIDE DEF s
<1>3. CASE s.state = "down"
  <2>0. StartService(i, s)
    BY <1>2, <1>3 DEF StartIfDown
  <2>1. /\ Matched' /\ chld' \in BOOLEAN
        /\ svd'[0].want = IF i = 0 THEN s.want ELSE svd[0].want
        /\ HasLog /\ ~logpipe => Instances(proc') \subseteq Instances(proc)
        /\ NoStopScripts /\ i = 1 => Instances(proc') = Instances(proc)
        /\ NoStopScripts /\ i = 0 =>
             /\ Instances(proc) = {}
             /\ Instances(proc') = {} \/ \E p \in Pids : Instances(proc') = {p}
    BY <1>1, <1>3, <2>0, StartStep
  <2>2. NoStopScripts => Seen
    BY <2>1, <1>1 DEF Seen, Services
  <2> QED BY <2>1, <2>2 DEF StepKeeps
<1>4. CASE s.state # "down"
  <2>0. Update(i, s) /\ proc' = proc /\ chld' = chld
    BY <1>2, <1>4 DEF StartIfDown
  <2>1. svd' = [svd EXCEPT ![i] = s] /\ Told(svd', status')
    BY <1>1, <2>0, UpdateSlot
  <2>2. OnlySignals(proc, proc', s.pid)
    BY <2>0, SendsNothing DEF Matched, Owned
  <2>3. Matched' /\ svd'[0].want = IF i = 0 THEN s.want ELSE svd[0].want
    BY <1>1, <2>1, <2>2, SignalStep
  <2> QED BY <1>1, <2>0, <2>3 DEF StepKeeps, Seen
<1> QED BY <1>3, <1>4

\* 't': SIGTERM to a process that runs, want unchanged.
LEMMA CtrlTerm ==
  ASSUME Matched, chld \in BOOLEAN, NEW i \in Services, ctrl_term(i)
  PROVE  StepKeeps
<1>0. svd[i] \in Slots /\ svd \in [Services -> Slots] /\ svd' = svd /\ chld' = chld
      /\ StopIfRunning(i, svd[i]) /\ Told(svd', status')
  BY DEF Matched, Owned, ctrl_term
<1>1. svd' = [svd EXCEPT ![i] = svd[i]]
  BY <1>0
<1>2. OnlySignals(proc, proc', svd[i].pid)
  BY <1>0, StopIfRunningSends
<1>3. /\ Matched' /\ Instances(proc') \subseteq Instances(proc)
      /\ NoStopScripts => Instances(proc') = Instances(proc) \/ Instances(proc') = {}
  BY <1>0, <1>1, <1>2, SignalStep
<1> QED BY <1>0, <1>3 DEF StepKeeps, Seen

\* kill(pid, sig) of ctrl, and what it is for.
LEMMA SignalSends ==
  ASSUME Matched, NEW i \in Services, NEW c, NEW sig \in {"TERM", "KILL", "STOP", "CONT"},
         Signal(i, c, sig)
  PROVE  /\ OnlySignals(proc, proc', svd[i].pid)
         /\ sig = "KILL" /\ svd[i].state = "run" /\ ~Custom(i, c) => proc'[svd[i].pid].kill
<1>0. proc \in Table /\ Owned(svd, proc) /\ svd[i].pid \in Pids \cup {0}
  BY DEF Matched, Owned, Slots
<1>1. OnlySignals(proc, Kill(proc, svd[i].pid, sig), svd[i].pid)
  BY <1>0, KillSends
<1>2. OnlySignals(proc, proc', svd[i].pid)
  BY <1>0, <1>1, SendsNothing DEF Signal
<1>3. ASSUME sig = "KILL", svd[i].state = "run", ~Custom(i, c)
      PROVE  proc'[svd[i].pid].kill
  <2>1. svd[i].pid \in Pids /\ proc[svd[i].pid].kind # "none"
    BY <1>0, <1>3 DEF Owned, KindsOf
  <2>2. proc' = Kill(proc, svd[i].pid, sig)
    BY <1>3 DEF Signal
  <2> QED BY <1>0, <1>3, <2>1, <2>2, KillSends
<1> QED BY <1>2, <1>3

\* The commands p and c.
LEMMA CtrlPause ==
  ASSUME Matched, chld \in BOOLEAN, NEW i \in Services, NEW c, NEW sig \in {"STOP", "CONT"},
         Signal(i, c, sig), Update(i, svd[i]), UNCHANGED chld
  PROVE  StepKeeps
<1>0. svd[i] \in Slots /\ svd \in [Services -> Slots] /\ 0 \in Services
  BY DEF Matched, Owned, Services
<1>1. svd' = [svd EXCEPT ![i] = svd[i]] /\ Told(svd', status')
  BY <1>0, UpdateSlot
<1>2. OnlySignals(proc, proc', svd[i].pid)
  BY SignalSends
<1>3. /\ Matched' /\ Instances(proc') \subseteq Instances(proc)
      /\ NoStopScripts => Instances(proc') = Instances(proc) \/ Instances(proc') = {}
  BY <1>0, <1>1, <1>2, SignalStep
<1>4. svd' = svd
  BY <1>0, <1>1
<1> QED BY <1>3, <1>4 DEF StepKeeps, Seen

\* The command k.
LEMMA CtrlKill ==
  ASSUME Matched, chld \in BOOLEAN, NEW i \in Services, ctrl_kill(i)
  PROVE  StepKeeps
<1> DEFINE s == [svd[i] EXCEPT !.state = "down"]
<1>0. /\ svd[i] \in Slots /\ svd \in [Services -> Slots] /\ Owned(svd, proc) /\ Kept(svd, proc)
      /\ Told(svd, status) /\ svd[i].pid \in Pids \cup {0}
      /\ svd[i].state \in {"run", "down", "finish"}
  BY DEF Matched, Owned, Slots, States
<1>1. s \in Slots /\ s.pid = svd[i].pid /\ s.state = "down" /\ s.want = svd[i].want
  BY <1>0 DEF Slots, States
<1>2. svd' = [svd EXCEPT ![i] = s] /\ status' = status /\ chld' = chld /\ Signal(i, "k", "KILL")
  BY DEF ctrl_kill
<1> HIDE DEF s
<1>3. OnlySignals(proc, proc', s.pid)
  BY <1>1, <1>2, SignalSends
<1>4. Told(svd', status')
  <2>1. svd'[i] = s /\ \A j \in Services : j # i => svd'[j] = svd[j]
    BY <1>0, <1>2
  <2> QED BY <1>0, <1>1, <1>2, <2>1 DEF Told
<1>5. ASSUME NoStopScripts, i = 0, s.pid # 0
      PROVE  proc'[s.pid].kind = "finish" \/ proc'[s.pid].kill
  <2>1. Fits(svd[0], proc) /\ s.pid \in Pids
    BY <1>0, <1>1, <1>5 DEF Kept
  <2>2. CASE svd[i].state = "run"
    BY <1>1, <1>2, <1>5, <2>2, SignalSends DEF Custom, NoStopScripts
  <2>3. CASE svd[i].state # "run"
    <3>1. proc[s.pid].kind = "finish" \/ proc[s.pid].kill
      BY <1>0, <1>1, <1>5, <2>1, <2>3 DEF Fits
    <3> QED BY <3>1, <2>1, <1>3 DEF OnlySignals
  <2> QED BY <2>2, <2>3
<1>6. /\ Matched' /\ Instances(proc') \subseteq Instances(proc)
      /\ svd'[0].want = IF i = 0 THEN s.want ELSE svd[0].want
      /\ NoStopScripts => Instances(proc') = Instances(proc) \/ Instances(proc') = {}
  BY <1>1, <1>2, <1>3, <1>4, <1>5, SignalStep
<1> QED BY <1>1, <1>2, <1>6 DEF StepKeeps, Seen

\* Any command to the service or to its log.
LEMMA CtrlKeeps ==
  ASSUME Matched, chld \in BOOLEAN, NEW i \in Services, NEW c \in Commands, Ctrl(i, c)
  PROVE  StepKeeps
<1>1. CASE ctrl_down(i)    BY <1>1, CtrlDown
<1>2. CASE ctrl_up(i)      BY <1>2, CtrlStart DEF ctrl_up
<1>3. CASE ctrl_exit(i)    BY <1>3, CtrlExit
<1>4. CASE ctrl_term(i)    BY <1>4, CtrlTerm
<1>5. CASE ctrl_kill(i)    BY <1>5, CtrlKill
<1>6. CASE ctrl_pause(i)   BY <1>6, CtrlPause DEF ctrl_pause
<1>7. CASE ctrl_cont(i)    BY <1>7, CtrlPause DEF ctrl_cont
<1>8. CASE ctrl_once(i)    BY <1>8, CtrlStart DEF ctrl_once
<1>9. CASE ctrl_signal(i)  BY <1>9, Idle DEF ctrl_signal
<1> QED BY <1>1, <1>2, <1>3, <1>4, <1>5, <1>6, <1>7, <1>8, <1>9 DEF Ctrl


-----------------------------------------------------------------------------
(* The inductive invariant                                                 *)

\* The rest of the types.
Placed ==
  /\ pc \in {"log", "main", "poll", "reap", "ctrl0", "ctrl1", "term", "exit", "gone"}
  /\ wstat \in Kinds \cup {"none"} /\ logpipe \in BOOLEAN /\ sigterm \in BOOLEAN
  /\ term \in BOOLEAN /\ cmds \in 0 .. MaxCmds

\* After the end: nothing is left that was not told to stop.
Left(t) ==
  \A q \in Pids : t[q].kind \notin {"none", "finish"} /\ ~t[q].dead => t[q].term \/ t[q].kill

\* RunsvInv and LogPipeOutlivesService; what needs TERM and KILL to be sent is
\* under NoStopScripts.
IInv ==
  /\ Placed /\ chld \in BOOLEAN /\ proc \in Table /\ svd \in [Services -> Slots]
  /\ Told(svd, status)
  /\ pc # "gone" => Matched
  /\ pc = "gone" => status[0].want = "down"
  /\ NoStopScripts => /\ HasLog /\ ~logpipe => Instances(proc) = {}
                      /\ NoneLost(svd, proc)
                      /\ pc = "gone" => Left(proc)

\* runsv starts with empty slots and no children.
LEMMA InitIInv == Init => IInv
<1> SUFFICES ASSUME Init PROVE IInv  OBVIOUS
<1>1. Placed /\ chld \in BOOLEAN /\ pc # "gone"
  <2>1. pc = "log" /\ wstat = "none" /\ cmds \in 0 .. MaxCmds
    BY RunsvAssumption DEF Init
  <2>2. logpipe \in BOOLEAN /\ sigterm \in BOOLEAN /\ term \in BOOLEAN /\ chld \in BOOLEAN
    BY RunsvAssumption, Zenon DEF Init
  <2> QED BY <2>1, <2>2, Zenon DEF Placed
<1>2. svd \in [Services -> Slots]
  BY DEF Init, Slots, States, Wants
<1>3. \A i \in Services : svd[i].pid = 0 /\ svd[i].state = "down" /\ svd[i].want \in {"up", "down"}
  BY DEF Init
<1>4. Told(svd, status)
  <2>1. \A i \in Services : status[i] = [pid |-> svd[i].pid, state |-> svd[i].state, want |-> svd[i].want]
    BY <1>3 DEF Init, Published
  <2>2. status = [i \in Services |-> status[i]]
    BY DEF Init
  <2>3. \A i \in Services : status[i] \in Statuses
    BY <1>2, <1>3, <2>1 DEF Slots, Statuses
  <2> QED BY <2>1, <2>2, <2>3 DEF Told
<1>5. NoProc \in Process /\ NoProc.kind = "none"
  BY DEF NoProc, Process, Kinds
<1>6. proc \in Table /\ \A q \in Pids : proc[q].kind = "none"
  BY <1>5 DEF Init, Table
<1>7. Owned(svd, proc)
  BY <1>2, <1>3, <1>6 DEF Owned
<1>8. Fits(svd[0], proc) /\ NoneLost(svd, proc)
  BY <1>3, <1>6 DEF Fits, NoneLost, Services
<1>9. ~(HasLog /\ ~logpipe)
  BY DEF Init
<1> QED BY <1>1, <1>2, <1>4, <1>6, <1>7, <1>8, <1>9 DEF IInv, Kept, Matched

\* A step of the running runsv that leaves the log pipe alone.
LEMMA StepIInv ==
  ASSUME IInv, StepKeeps, Placed', pc # "gone", pc' # "gone", logpipe' = logpipe
  PROVE  IInv'
<1>1. Matched' /\ chld' \in BOOLEAN
  BY DEF StepKeeps
<1>2. Owned(svd', proc') /\ Kept(svd', proc') /\ Told(svd', status')
  BY <1>1 DEF Matched
<1>3. proc' \in Table /\ svd' \in [Services -> Slots]
  BY <1>2 DEF Owned
<1>4. ASSUME NoStopScripts, HasLog, ~logpipe' PROVE Instances(proc') = {}
  <2>1. Instances(proc) = {} /\ Instances(proc') \subseteq Instances(proc)
    BY <1>4 DEF IInv, StepKeeps
  <2> QED BY <2>1
<1> QED BY <1>1, <1>2, <1>3, <1>4 DEF IInv, Kept

\* While runsv lives its slots and the process table match.
LEMMA Running ==
  ASSUME IInv, pc # "gone"
  PROVE  Matched /\ chld \in BOOLEAN /\ Placed
BY DEF IInv

\* The top of the loop.
LEMMA StartLogKeeps ==
  ASSUME IInv, StartLog
  PROVE  StepKeeps /\ Placed' /\ pc # "gone" /\ pc' # "gone" /\ logpipe' = logpipe
<1>0. pc # "gone" /\ pc' # "gone" /\ logpipe' = logpipe
  BY DEF StartLog
<1>1. Matched /\ chld \in BOOLEAN /\ Placed
  BY <1>0, Running
<1>2. Placed'
  BY <1>1 DEF StartLog, Placed
<1>3. svd[1] \in Slots /\ 1 \in Services
  BY <1>1 DEF Matched, Owned, Services
<1>4. CASE HasLog /\ svd[1].pid = 0 /\ svd[1].want = "up"
  <2>1. StartService(1, svd[1])
    BY <1>4 DEF StartLog
  <2>2. /\ Matched' /\ chld' \in BOOLEAN /\ svd'[0].want = svd[0].want
        /\ HasLog /\ ~logpipe => Instances(proc') \subseteq Instances(proc)
        /\ NoStopScripts => Instances(proc') = Instances(proc)
    BY <1>1, <1>3, <1>4, <2>1, StartStep
  <2>3. StepKeeps
    BY <2>2 DEF StepKeeps, Seen
  <2> QED BY <1>0, <1>2, <2>3
<1>5. CASE ~(HasLog /\ svd[1].pid = 0 /\ svd[1].want = "up")
  <2>1. UNCHANGED <<svd, status, proc, chld>>
    BY <1>5 DEF StartLog
  <2> QED BY <1>0, <1>1, <1>2, <2>1, Idle
<1> QED BY <1>4, <1>5

\* Seen, for a service that is started because it is wanted, or for ./finish.
LEMMA StartMainKeeps ==
  ASSUME IInv, StartMain
  PROVE  /\ StepKeeps /\ Placed' /\ pc # "gone" /\ pc' # "gone" /\ logpipe' = logpipe
         /\ NoStopScripts =>
              /\ svd'[0].want = svd[0].want
              /\ \/ Instances(proc') = Instances(proc)
                 \/ /\ svd[0].want = "up" /\ Instances(proc) = {}
                    /\ \E p \in Pids : Instances(proc') = {p}
<1>0. pc # "gone" /\ pc' # "gone" /\ logpipe' = logpipe
  BY DEF StartMain
<1>1. Matched /\ chld \in BOOLEAN /\ Placed
  BY <1>0, Running
<1>2. Placed'
  BY <1>1 DEF StartMain, Placed
<1>3. svd[0] \in Slots /\ 0 \in Services
  BY <1>1 DEF Matched, Owned, Services
<1>4. CASE svd[0].pid = 0 /\ (svd[0].want = "up" \/ svd[0].state = "finish")
  <2>1. StartService(0, svd[0])
    BY <1>4 DEF StartMain
  <2>2. /\ Matched' /\ chld' \in BOOLEAN /\ svd'[0].want = svd[0].want
        /\ HasLog /\ ~logpipe => Instances(proc') \subseteq Instances(proc)
        /\ NoStopScripts =>
             /\ Instances(proc) = {}
             /\ Instances(proc') = {} \/ \E p \in Pids : Instances(proc') = {p}
    BY <1>1, <1>3, <1>4, <2>1, StartStep
  <2>3. ASSUME NoStopScripts, svd[0].want # "up" PROVE Instances(proc') = {}
    <3>1. svd[0].state = "finish"
      BY <1>4, <2>3
    <3>2. svd'[0].state = "finish"
      <4>1. PICK p \in Pids : svd' = [svd EXCEPT ![0] =
              [svd[0] EXCEPT !.pid = p, !.state = IF @ = "finish" THEN @ ELSE "run"]]
        BY <2>1 DEF StartService, Update
      <4>2. svd \in [Services -> Slots]
        BY <1>1 DEF Matched, Owned
      <4> QED BY <1>3, <3>1, <4>1, <4>2 DEF Slots
    <3> QED BY <2>2, <2>3, <3>2, InstancesOwned DEF Matched
  <2>4. StepKeeps
    BY <2>2, <2>3 DEF StepKeeps, Seen
  <2> QED BY <1>0, <1>2, <2>2, <2>3, <2>4
<1>5. CASE ~(svd[0].pid = 0 /\ (svd[0].want = "up" \/ svd[0].state = "finish"))
  <2>1. UNCHANGED <<svd, status, proc, chld>>
    BY <1>5 DEF StartMain
  <2> QED BY <1>0, <1>1, <1>2, <2>1, Idle
<1> QED BY <1>4, <1>5


\* Signals are taken, or poll just ends.
LEMMA PollKeeps ==
  ASSUME IInv, PollSignal \/ PollOther
  PROVE  StepKeeps /\ Placed' /\ pc # "gone" /\ pc' # "gone" /\ logpipe' = logpipe
<1>0. /\ pc = "poll" /\ pc' = "reap" /\ logpipe' = logpipe /\ wstat' = wstat /\ cmds' = cmds
      /\ UNCHANGED <<svd, status, proc>>
  BY DEF PollSignal, PollOther
<1>1. Matched /\ chld \in BOOLEAN /\ Placed
  BY <1>0, Running
<1>2. chld' \in BOOLEAN /\ sigterm' \in BOOLEAN /\ term' \in BOOLEAN
  BY <1>1, Zenon DEF PollSignal, PollOther, Placed
<1>3. Placed'
  BY <1>0, <1>1, <1>2, Zenon DEF Placed
<1>4. Matched'
  BY <1>0, <1>1 DEF Matched
<1>5. StepKeeps
  BY <1>0, <1>2, <1>4 DEF StepKeeps, Seen
<1> QED BY <1>0, <1>3, <1>5

\* A child is taken out of the table.
LEMMA ReapKeepsStep ==
  ASSUME IInv, Reap
  PROVE  StepKeeps /\ Placed' /\ pc # "gone" /\ pc' # "gone" /\ logpipe' = logpipe
<1>0. /\ pc = "reap" /\ pc' \in {"reap", "ctrl0"}
      /\ UNCHANGED <<logpipe, sigterm, chld, term, cmds>>
  BY DEF Reap
<1>1. Matched /\ chld \in BOOLEAN /\ Placed
  BY <1>0, Running
<1>1a. /\ Owned(svd, proc) /\ Kept(svd, proc) /\ Told(svd, status)
       /\ svd \in [Services -> Slots] /\ proc \in Table
  BY <1>1 DEF Matched, Owned
<1>1b. 0 \in Services /\ 1 \in Services /\ Services = {0, 1}
  BY DEF Services
<1>2. CASE UNCHANGED <<svd, status, wstat, proc>>
  <2>1. Placed'
    BY <1>0, <1>1, <1>2 DEF Placed
  <2> QED BY <1>0, <1>1, <1>2, <2>1, Idle
<1>3. ASSUME NEW p \in Zombies, proc' = [proc EXCEPT ![p] = NoProc],
             ReapMain(p) \/ ReapLog(p) \/ ReapOther(p)
      PROVE  StepKeeps /\ Placed' /\ pc # "gone" /\ pc' # "gone" /\ logpipe' = logpipe
  <2>1. p \in Pids /\ proc[p].dead /\ proc[p] \in Process /\ p # 0
    BY <1>1a, RunsvAssumption DEF Zombies, Table
  <2>2. wstat' \in Kinds \cup {"none"}
    BY <1>1, <1>3, <2>1 DEF ReapMain, ReapLog, ReapOther, Process, Placed
  <2>3. Placed'
    BY <1>0, <1>1, <2>2 DEF Placed
  <2>4. ~(svd[0].pid = p /\ svd[1].pid = p)
    BY <1>1a, <1>1b, <2>1 DEF Owned, KindsOf
  <2>5. /\ svd' \in [Services -> Slots] /\ Told(svd', status') /\ svd'[0].want = svd[0].want
        /\ \A j \in Services : \/ svd'[j] = svd[j] /\ svd[j].pid # p
                               \/ svd'[j].pid = 0 /\ svd'[j].state # "run" /\ svd[j].pid = p
    <3>1. CASE ReapMain(p)
      <4> DEFINE s == [svd[0] EXCEPT !.pid = 0,
                         !.state = IF @ # "finish" /\ HasFinish THEN "finish" ELSE "down"]
      <4>1. s \in Slots /\ s.pid = 0 /\ s.state # "run" /\ s.want = svd[0].want
        BY <1>1a, <1>1b DEF Slots, States
      <4>2. Update(0, s) /\ p = svd[0].pid
        BY <3>1 DEF ReapMain
      <4> HIDE DEF s
      <4>3. svd' = [svd EXCEPT ![0] = s] /\ Told(svd', status')
        BY <1>1, <1>1b, <4>1, <4>2, UpdateSlot
      <4> QED BY <1>1a, <1>1b, <2>1, <2>4, <4>1, <4>2, <4>3
    <3>2. CASE ReapLog(p)
      <4> DEFINE s == [svd[1] EXCEPT !.pid = 0, !.state = "down"]
      <4>1. s \in Slots /\ s.pid = 0 /\ s.state # "run" /\ s.want = svd[1].want
        BY <1>1a, <1>1b DEF Slots, States
      <4>2. Update(1, s) /\ p = svd[1].pid
        BY <3>2 DEF ReapLog
      <4> HIDE DEF s
      <4>3. svd' = [svd EXCEPT ![1] = s] /\ Told(svd', status')
        BY <1>1, <1>1b, <4>1, <4>2, UpdateSlot
      <4> QED BY <1>1a, <1>1b, <2>1, <2>4, <4>1, <4>2, <4>3
    <3>3. CASE ReapOther(p)
      BY <1>1a, <1>1b, <3>3 DEF ReapOther, Tracked
    <3> QED BY <1>3, <3>1, <3>2, <3>3
  <2>6. Owned(svd', proc') /\ Kept(svd', proc')
    BY <1>1a, <1>3, <2>1, <2>5, ReapKeeps
  <2>7. Instances(proc') = Instances(proc)
    <3>1. NoProc \in Process /\ NoProc.kind # "run"
      BY DEF NoProc, Process, Kinds
    <3>2. Instances(proc') = Instances(proc) \ {p}
      BY <1>1a, <1>3, <2>1, <3>1, InstancesReplace
    <3>3. p \notin Instances(proc)
      BY <2>1 DEF Instances
    <3> QED BY <3>2, <3>3
  <2>8. StepKeeps
    BY <1>0, <1>1, <2>5, <2>6, <2>7 DEF StepKeeps, Matched, Seen
  <2> QED BY <1>0, <2>3, <2>8
<1> QED BY <1>2, <1>3 DEF Reap

\* A command of a control fifo, or none.
LEMMA ReadControlKeeps ==
  ASSUME IInv, NEW i \in Services, NEW here \in {"ctrl0", "ctrl1"},
         NEW next \in {"ctrl1", "term"}, ReadControl(i, here, next)
  PROVE  StepKeeps /\ Placed' /\ pc # "gone" /\ pc' # "gone" /\ logpipe' = logpipe
<1>0. pc = here /\ pc' = next /\ UNCHANGED <<wstat, logpipe, sigterm, term>>
  BY DEF ReadControl
<1>1. Matched /\ chld \in BOOLEAN /\ Placed
  BY <1>0, Running
<1>2. cmds' \in 0 .. MaxCmds
  BY <1>1, RunsvAssumption DEF ReadControl, Placed
<1>3. Placed'
  BY <1>0, <1>1, <1>2, Zenon DEF Placed
<1>4. StepKeeps
  <2>1. CASE \E c \in Commands : Ctrl(i, c)
    BY <1>1, <2>1, CtrlKeeps
  <2>2. CASE UNCHANGED <<svd, status, proc, chld, cmds>>
    BY <1>1, <2>2, Idle
  <2> QED BY <2>1, <2>2 DEF ReadControl
<1> QED BY <1>0, <1>3, <1>4

\* A pending SIGTERM is the command x.
LEMMA HandleTermKeeps ==
  ASSUME IInv, HandleTerm
  PROVE  StepKeeps /\ Placed' /\ pc # "gone" /\ pc' # "gone" /\ logpipe' = logpipe
<1>0. pc = "term" /\ pc' = "exit" /\ sigterm' = FALSE /\ UNCHANGED <<wstat, logpipe, term, cmds>>
  BY DEF HandleTerm
<1>1. Matched /\ chld \in BOOLEAN /\ Placed
  BY <1>0, Running
<1>2. Placed'
  BY <1>0, <1>1 DEF Placed
<1>3. StepKeeps
  <2>1. CASE sigterm
    <3>1. ctrl_exit(0) /\ 0 \in Services
      BY <2>1 DEF HandleTerm, Services
    <3> QED BY <1>1, <3>1, CtrlExit
  <2>2. CASE ~sigterm
    <3>1. UNCHANGED <<svd, status, proc, chld>>
      BY <2>2 DEF HandleTerm
    <3> QED BY <1>1, <3>1, Idle
  <2> QED BY <2>1, <2>2
<1> QED BY <1>0, <1>2, <1>3

\* A SIGTERM from outside is only pending until poll.
LEMMA SendTermKeeps ==
  ASSUME IInv, SendTerm
  PROVE  StepKeeps /\ Placed' /\ pc # "gone" /\ pc' # "gone" /\ logpipe' = logpipe
<1>0. /\ pc # "gone" /\ term' = TRUE /\ cmds < MaxCmds /\ cmds' = cmds + 1
      /\ UNCHANGED <<pc, svd, status, wstat, logpipe, sigterm, proc, chld>>
  BY DEF SendTerm
<1>1. Matched /\ chld \in BOOLEAN /\ Placed
  BY <1>0, Running
<1>2. cmds' \in 0 .. MaxCmds
  BY <1>0, <1>1, RunsvAssumption DEF Placed
<1>3. Placed'
  BY <1>0, <1>1, <1>2 DEF Placed
<1> QED BY <1>0, <1>1, <1>3, Idle

\* A child dies while runsv is there.
LEMMA DieKeeps ==
  ASSUME IInv, NEW p \in Pids, Die(p), pc # "gone"
  PROVE  StepKeeps /\ Placed' /\ pc' # "gone" /\ logpipe' = logpipe
<1>0. /\ UNCHANGED <<pc, svd, status, wstat, logpipe, sigterm, term, cmds>>
      /\ proc' = [proc EXCEPT ![p].dead = TRUE] /\ chld' = TRUE
  BY DEF Die
<1>1. Matched /\ chld \in BOOLEAN /\ Placed
  BY Running
<1>2. Placed'
  BY <1>0, <1>1 DEF Placed
<1>3. Owned(svd, proc) /\ Kept(svd, proc) /\ Told(svd, status) /\ proc \in Table
  BY <1>1 DEF Matched, Owned
<1>4. Owned(svd', proc') /\ Kept(svd', proc') /\ Told(svd', status')
  BY <1>0, <1>3, DeathKeeps
<1>5. Instances(proc') = Instances(proc) \ {p}
  <2> DEFINE r == [proc[p] EXCEPT !.dead = TRUE]
  <2>0. proc[p] \in Process
    BY <1>3 DEF Table
  <2>1. r \in Process /\ r.dead
    BY <2>0 DEF Process
  <2>2. proc' = [proc EXCEPT ![p] = r]
    BY <1>0
  <2> HIDE DEF r
  <2>3. Instances([proc EXCEPT ![p] = r]) =
          (Instances(proc) \ {p}) \cup
          (IF r.kind = "run" /\ ~r.dead /\ ~r.term /\ ~r.kill THEN {p} ELSE {})
    BY <1>3, <2>1, InstancesReplace
  <2> QED BY <2>1, <2>2, <2>3
<1>6. NoStopScripts => Seen
  <2> SUFFICES ASSUME NoStopScripts PROVE Seen  OBVIOUS
  <2>1. Instances(proc) \subseteq {svd[0].pid}
    BY <1>3, InstancesOwned
  <2>2. Instances(proc') = Instances(proc) \/ (Instances(proc) # {} /\ Instances(proc') = {})
    BY <1>5, <2>1
  <2> QED BY <1>0, <2>2 DEF Seen
<1> QED BY <1>0, <1>2, <1>4, <1>5, <1>6 DEF StepKeeps, Matched


\* A child dies, or what is left of it, after runsv.
LEMMA GoneIInv ==
  ASSUME IInv, NEW p \in Pids, Die(p), pc = "gone"
  PROVE  IInv'
<1>0. /\ UNCHANGED <<pc, svd, status, wstat, logpipe, sigterm, chld, term, cmds>>
      /\ proc' = [proc EXCEPT ![p] = NoProc]
  BY DEF Die
<1>1. /\ Placed /\ chld \in BOOLEAN /\ proc \in Table /\ svd \in [Services -> Slots]
      /\ Told(svd, status) /\ status[0].want = "down"
      /\ NoStopScripts => /\ HasLog /\ ~logpipe => Instances(proc) = {}
                          /\ NoneLost(svd, proc) /\ Left(proc)
  BY DEF IInv
<1>2. Placed'
  BY <1>0, <1>1 DEF Placed
<1>3. NoProc \in Process /\ NoProc.kind = "none"
  BY DEF NoProc, Process, Kinds
<1>4. proc' \in Table /\ proc'[p] = NoProc /\ \A q \in Pids : q # p => proc'[q] = proc[q]
  BY <1>0, <1>1, <1>3 DEF Table
<1>5. Instances(proc') \subseteq Instances(proc)
  BY <1>3, <1>4 DEF Instances
<1>6. NoneLost(svd, proc) => NoneLost(svd', proc')
  BY <1>0, <1>3, <1>4 DEF NoneLost
<1>7. Left(proc) => Left(proc')
  BY <1>3, <1>4 DEF Left
<1> QED BY <1>0, <1>1, <1>2, <1>4, <1>5, <1>6, <1>7 DEF IInv

\* The exit test, when runsv goes on.
LEMMA ExitCheckStays ==
  ASSUME IInv, ExitCheck, ~(Leaving /\ svd[1].pid = 0)
  PROVE  IInv' /\ pc # "gone" /\ pc' # "gone" /\ svd'[0].want = svd[0].want /\ proc' = proc
<1>0. /\ pc = "exit" /\ pc' = "log" /\ UNCHANGED <<wstat, sigterm, proc, chld, term, cmds>>
      /\ \/ UNCHANGED <<svd, status, logpipe>>
         \/ Leaving /\ Update(1, Want(1, "exit")) /\ logpipe' = FALSE
  BY DEF ExitCheck
<1>1. Matched /\ chld \in BOOLEAN /\ Placed
  BY <1>0, Running
<1>2. Owned(svd, proc) /\ Kept(svd, proc) /\ Told(svd, status) /\ proc \in Table
  BY <1>1 DEF Matched, Owned
<1>3. CASE UNCHANGED <<svd, status, logpipe>>
  <2>1. Placed'
    BY <1>0, <1>1, <1>3 DEF Placed
  <2>2. StepKeeps
    BY <1>0, <1>1, <1>3, Idle
  <2> QED BY <1>0, <1>3, <2>1, <2>2, StepIInv
<1>4. CASE Leaving /\ Update(1, Want(1, "exit")) /\ logpipe' = FALSE
  <2> DEFINE s == Want(1, "exit")
  <2>1. s \in Slots /\ s.pid = svd[1].pid /\ s.state = svd[1].state /\ 1 \in Services
    BY <1>1, WantSlot DEF Wants, Services
  <2>2. Update(1, s)
    BY <1>4
  <2> HIDE DEF s
  <2>3. svd' = [svd EXCEPT ![1] = s] /\ Told(svd', status')
    BY <1>1, <2>1, <2>2, UpdateSlot
  <2>4. OnlySignals(proc, proc', s.pid)
    BY <1>0, <1>2, SendsNothing
  <2>5. Matched' /\ svd'[0].want = svd[0].want
    <3>1. Matched'
      BY <1>1, <2>1, <2>3, <2>4, SignalStep
    <3>2. svd'[0] = svd[0]
      BY <2>3, <1>2 DEF Owned, Services
    <3> QED BY <3>1, <3>2
  <2>6. Owned(svd', proc') /\ Kept(svd', proc') /\ proc' \in Table /\ svd' \in [Services -> Slots]
    BY <2>5 DEF Matched, Owned
  <2>7. NoStopScripts => Instances(proc') = {}
    BY <1>0, <1>2, <1>4, InstancesOwned DEF Leaving
  <2>8. Placed'
    BY <1>0, <1>1, <1>4 DEF Placed
  <2>9. IInv'
    BY <1>0, <1>1, <2>3, <2>5, <2>6, <2>7, <2>8 DEF IInv, Kept
  <2> QED BY <1>0, <2>5, <2>9
<1> QED BY <1>0, <1>3, <1>4

\* The exit test, when runsv exits.
LEMMA ExitCheckLeaves ==
  ASSUME IInv, ExitCheck, Leaving, svd[1].pid = 0
  PROVE  /\ IInv' /\ pc # "gone" /\ pc' = "gone" /\ UNCHANGED <<svd, proc>>
         /\ svd[0].want = "exit" /\ (NoStopScripts => Instances(proc) = {})
<1>0. /\ pc = "exit" /\ pc' = "gone" /\ svd[0].want = "exit" /\ svd[0].state = "down"
      /\ UNCHANGED <<svd, status, logpipe, wstat, sigterm, proc, chld, term, cmds>>
  BY DEF ExitCheck, Leaving
<1>1. Matched /\ chld \in BOOLEAN /\ Placed
  BY <1>0, Running
<1>2. /\ Owned(svd, proc) /\ Kept(svd, proc) /\ Told(svd, status) /\ proc \in Table
      /\ svd \in [Services -> Slots] /\ 0 \in Services
  BY <1>1 DEF Matched, Owned, Services
<1>3. Placed'
  BY <1>0, <1>1 DEF Placed
<1>4. status[0].want = "down"
  <2>1. status[0] \in Statuses /\ status[0].want # "up"
    BY <1>0, <1>2 DEF Told
  <2> QED BY <2>1 DEF Statuses
<1>5. NoStopScripts => Instances(proc) = {}
  BY <1>0, <1>2, InstancesOwned
<1>6. ASSUME NoStopScripts PROVE NoneLost(svd, proc) /\ Left(proc)
  <2>1. NoneLost(svd, proc) /\ Fits(svd[0], proc)
    BY <1>2, <1>6 DEF Kept
  <2>2. Left(proc)
    <3> SUFFICES ASSUME NEW q \in Pids, proc[q].kind \notin {"none", "finish"}, ~proc[q].dead
                 PROVE  proc[q].term \/ proc[q].kill
      BY DEF Left
    <3>1. q # 0
      BY RunsvAssumption
    <3>2. CASE q = svd[0].pid
      BY <3>1, <3>2, <2>1, <1>0 DEF Fits
    <3>3. CASE q # svd[0].pid
      BY <3>1, <3>3, <2>1 DEF NoneLost
    <3> QED BY <3>2, <3>3
  <2> QED BY <2>1, <2>2
<1>7. IInv'
  BY <1>0, <1>1, <1>2, <1>3, <1>4, <1>5, <1>6 DEF IInv
<1> QED BY <1>0, <1>5, <1>7

\* Next, in the four kinds of steps above.
LEMMA NextCases ==
  ASSUME IInv, Next
  PROVE  \/ StepKeeps /\ Placed' /\ pc # "gone" /\ pc' # "gone" /\ logpipe' = logpipe
         \/ \E p \in Pids : Die(p) /\ pc = "gone"
         \/ ExitCheck
<1>1. CASE StartLog      BY <1>1, StartLogKeeps
<1>2. CASE StartMain     BY <1>2, StartMainKeeps
<1>3. CASE PollSignal \/ PollOther  BY <1>3, PollKeeps
<1>4. CASE Reap          BY <1>4, ReapKeepsStep
<1>5. CASE ReadControl0
  <2>1. ReadControl(0, "ctrl0", IF HasLog THEN "ctrl1" ELSE "term") /\ 0 \in Services
    BY <1>5 DEF ReadControl0, Services
  <2> QED BY <2>1, ReadControlKeeps
<1>6. CASE ReadControl1
  <2>1. ReadControl(1, "ctrl1", "term") /\ 1 \in Services
    BY <1>6 DEF ReadControl1, Services
  <2> QED BY <2>1, ReadControlKeeps
<1>7. CASE HandleTerm    BY <1>7, HandleTermKeeps
<1>8. CASE \E p \in Pids : Die(p)
  <2>1. CASE pc = "gone"  BY <1>8, <2>1
  <2>2. CASE pc # "gone"  BY <1>8, <2>2, DieKeeps
  <2> QED BY <2>1, <2>2
<1>9. CASE SendTerm      BY <1>9, SendTermKeeps
<1> QED BY <1>1, <1>2, <1>3, <1>4, <1>5, <1>6, <1>7, <1>8, <1>9 DEF Next, Loop

\* Every step of the loop, and every death, keeps IInv.
LEMMA NextIInv ==
  ASSUME IInv, [Next]_vars
  PROVE  IInv'
<1>1. CASE Next
  <2>1. CASE StepKeeps /\ Placed' /\ pc # "gone" /\ pc' # "gone" /\ logpipe' = logpipe
    BY <2>1, StepIInv
  <2>2. CASE \E p \in Pids : Die(p) /\ pc = "gone"
    BY <2>2, GoneIInv
  <2>3. CASE ExitCheck
    BY <2>3, ExitCheckStays, ExitCheckLeaves
  <2> QED BY <1>1, <2>1, <2>2, <2>3, NextCases
<1>2. CASE UNCHANGED vars
  BY <1>2 DEF vars, IInv, Placed, Matched
<1> QED BY <1>1, <1>2

\* IInv holds in every state: a slot's pid is an unreaped child of its kind, two
\* slots never share one, and the status written is that of the slot (runsv.c:
\* startservice, the loop over wait_any_nohang, and update_status).
THEOREM Inductive == Spec => []IInv
<1>1. Init => IInv
  BY InitIInv
<1>2. IInv /\ [Next]_vars => IInv'
  BY NextIInv
<1> QED BY <1>1, <1>2, PTL DEF Spec

-----------------------------------------------------------------------------
(* The theorems                                                            *)

\* IInv in the words of Runsv.
LEMMA IInvMeans ==
  ASSUME IInv
  PROVE  /\ TypeOK /\ SignalsOwnChild /\ StatusTrue
         /\ NoStopScripts => RunsvInv /\ LogPipeOutlivesService
<1>0. /\ Placed /\ chld \in BOOLEAN /\ proc \in Table /\ svd \in [Services -> Slots]
      /\ Told(svd, status) /\ (pc # "gone" => Matched) /\ (pc = "gone" => status[0].want = "down")
      /\ NoStopScripts => /\ HasLog /\ ~logpipe => Instances(proc) = {}
                          /\ NoneLost(svd, proc)
                          /\ pc = "gone" => Left(proc)
  BY DEF IInv
<1>1. TypeOK
  BY <1>0 DEF TypeOK, Placed, Told, Table, Process, Slots, Statuses
<1>2. SignalsOwnChild
  BY <1>0 DEF SignalsOwnChild, Matched, Owned
<1>3. StatusTrue
  BY <1>0 DEF StatusTrue, Told
<1>4. ASSUME NoStopScripts PROVE RunsvInv /\ LogPipeOutlivesService
  <2>1. StateFits
    BY <1>0, <1>4 DEF StateFits, Matched, Kept, Fits
  <2>2. ForgottenAreStopping
    BY <1>0, <1>4 DEF ForgottenAreStopping, NoneLost, Alive, Signalled, Tracked, Services
  <2>3. GoneLeavesNothing
    BY <1>0, <1>4 DEF GoneLeavesNothing, Left, Alive, Signalled
  <2>4. LogPipeOutlivesService
    BY <1>0, <1>4 DEF LogPipeOutlivesService, Instances, Alive, Signalled
  <2> QED BY <1>1, <1>2, <1>3, <2>1, <2>2, <2>3, <2>4 DEF RunsvInv
<1> QED BY <1>1, <1>2, <1>3, <1>4

\* Whatever control scripts there are, a number in a slot is that of a child of
\* runsv that was not reaped yet, and the status files tell the truth.
THEOREM OwnChildren == Spec => [](TypeOK /\ SignalsOwnChild /\ StatusTrue)
<1>1. IInv => TypeOK /\ SignalsOwnChild /\ StatusTrue
  BY IInvMeans
<1> QED BY <1>1, Inductive, PTL

\* RunsvInv at every step, for any number of processes, commands, signals and
\* deaths in any order.
THEOREM RunsvCorrect ==
  ASSUME NoStopScripts
  PROVE  Spec => []RunsvInv
<1>1. IInv => RunsvInv
  BY IInvMeans
<1> QED BY <1>1, Inductive, PTL

\* The log pipe stays open as long as ./run is undisturbed.
THEOREM LogPipeKept ==
  ASSUME NoStopScripts
  PROVE  Spec => []LogPipeOutlivesService
<1>1. IInv => LogPipeOutlivesService
  BY IInvMeans
<1> QED BY <1>1, Inductive, PTL

-----------------------------------------------------------------------------
(* runsv implements Service                                                *)

\* The instances of the refinement mapping.
LEMMA MappedInstances ==
  /\ {p \in Pids : Alive(p) /\ proc[p].kind = "run" /\ ~Signalled(p)} = Instances(proc)
  /\ {p \in Pids : Alive(p) /\ proc[p].kind = "run" /\ ~Signalled(p)}' = Instances(proc')
BY DEF Instances, Alive, Signalled

\* A fresh runsv is a supervisor that has not started its service.
LEMMA InitImplements ==
  ASSUME Init
  PROVE  Abstract!Init
<1>1. svd[0].want \in {"up", "down"} /\ pc # "gone"
  BY DEF Init, Services
<1>2. Instances(proc) = {}
  BY DEF Init, NoProc, Instances
<1>3. (pc = "gone") = FALSE
  BY <1>1
<1> QED BY <1>1, <1>2, <1>3, MappedInstances DEF Abstract!Init

\* A step of the running runsv.
LEMMA SeenImplements ==
  ASSUME Seen, pc # "gone", pc' # "gone"
  PROVE  Abstract!Next \/ UNCHANGED Abstract!vars
<1>0. (pc = "gone")' = (pc = "gone")
  OBVIOUS
<1>1. CASE svd'[0].want = svd[0].want /\ Instances(proc') = Instances(proc)
  BY <1>0, <1>1, MappedInstances DEF Abstract!vars
<1>2. CASE svd'[0].want = svd[0].want /\ Instances(proc) # {} /\ Instances(proc') = {}
  <2>1. Abstract!End
    BY <1>0, <1>2, MappedInstances DEF Abstract!End
  <2> QED BY <2>1 DEF Abstract!Next
<1>3. CASE /\ svd'[0].want \in {"up", "down"}
           /\ \/ Instances(proc') = Instances(proc)
              \/ Instances(proc) = {} /\ \E p \in Pids : Instances(proc') = {p}
  <2>1. Abstract!Up \/ Abstract!Once
    BY <1>0, <1>3, MappedInstances DEF Abstract!Up, Abstract!Once, Abstract!NewInstance
  <2> QED BY <2>1 DEF Abstract!Next
<1>4. CASE svd'[0].want \in {"down", "exit"} /\ Instances(proc') = {}
  <2>1. Abstract!Down \/ Abstract!Exit
    BY <1>0, <1>4, MappedInstances DEF Abstract!Down, Abstract!Exit
  <2> QED BY <2>1 DEF Abstract!Next
<1> QED BY <1>1, <1>2, <1>3, <1>4 DEF Seen

\* Every step of runsv is a step of the supervisor, or none that it can see.
LEMMA NextImplements ==
  ASSUME NoStopScripts, IInv, [Next]_vars
  PROVE  [Abstract!Next]_(Abstract!vars)
<1>1. CASE UNCHANGED vars
  <2>1. svd' = svd /\ Instances(proc') = Instances(proc) /\ (pc = "gone")' = (pc = "gone")
    BY <1>1 DEF vars
  <2> QED BY <2>1, MappedInstances DEF Abstract!vars
<1>2. CASE Next
  <2>1. CASE StepKeeps /\ Placed' /\ pc # "gone" /\ pc' # "gone" /\ logpipe' = logpipe
    BY <2>1, SeenImplements DEF StepKeeps
  <2>2. CASE \E p \in Pids : Die(p) /\ pc = "gone"
    <3>1. PICK p \in Pids : Die(p)
      BY <2>2
    <3>2. svd' = svd /\ pc' = pc /\ proc' = [proc EXCEPT ![p] = NoProc]
      BY <3>1, <2>2 DEF Die
    <3>3. Instances(proc) = {}
      BY <2>2 DEF IInv, Left, Instances
    <3>4. proc \in Table /\ NoProc \in Process /\ NoProc.kind # "run"
      BY DEF IInv, NoProc, Process, Kinds
    <3>4a. Instances(proc') = Instances(proc) \ {p}
      BY <3>2, <3>4, InstancesReplace
    <3>5. Instances(proc') = {}
      BY <3>3, <3>4a
    <3> QED BY <3>2, <3>3, <3>5, MappedInstances DEF Abstract!vars
  <2>3. CASE ExitCheck /\ Leaving /\ svd[1].pid = 0
    <3>1. /\ pc # "gone" /\ pc' = "gone" /\ UNCHANGED <<svd, proc>>
          /\ svd[0].want = "exit" /\ Instances(proc) = {}
      BY <2>3, ExitCheckLeaves
    <3>2. Instances(proc') = Instances(proc) /\ (pc = "gone")' = TRUE /\ ~(pc = "gone")
      BY <3>1
    <3>3. Abstract!Quit
      BY <3>1, <3>2, MappedInstances DEF Abstract!Quit
    <3> QED BY <3>3 DEF Abstract!Next
  <2>4. CASE ExitCheck /\ ~(Leaving /\ svd[1].pid = 0)
    <3>1. pc # "gone" /\ pc' # "gone" /\ svd'[0].want = svd[0].want /\ proc' = proc
      BY <2>4, ExitCheckStays
    <3> QED BY <3>1, SeenImplements DEF Seen
  <2> QED BY <1>2, <2>1, <2>2, <2>3, <2>4, NextCases
<1> QED BY <1>1, <1>2

\* runsv is a supervisor: at most one undisturbed instance of ./run at any time,
\* none after down and exit, and none left behind.
THEOREM RunsvIsASupervisor ==
  ASSUME NoStopScripts
  PROVE  Spec => ImplementsService
<1>1. Init => Abstract!Init
  BY InitImplements
<1>2. IInv /\ [Next]_vars => [Abstract!Next]_(Abstract!vars)
  BY NextImplements
<1> QED BY <1>1, <1>2, Inductive, PTL DEF Spec, ImplementsService, Abstract!Spec

=============================================================================
