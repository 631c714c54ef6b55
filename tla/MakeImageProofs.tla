---------------------------- MODULE MakeImageProofs ----------------------------
(***************************************************************************)
(* Proofs about MakeImage, for any number of runs of 06-make-image.sh, any *)
(* failures and kills of them, and any days.                               *)
(***************************************************************************)
EXTENDS MakeImage, SequenceTheorems, TLAPS

-----------------------------------------------------------------------------
(* The inductive invariant                                                 *)

Formatted == {"mount", "populate", "umount", "collect", "makefs", "dd"}
OnLoop    == {"sgdisk", "format"} \cup Formatted
Working   == {"create", "losetup"} \cup OnLoop
Cleaning  == {"c_umount", "c_losetup", "c_rm"}
After     == {"burn", "test-qemu"}

\* The script wrote the root and is on its way to announce its image.
Succeeding == pc \in Cleaning /\ status = "ok"

\* Where the script is, and how that fits its trap, its status and $LOOP.
Control ==
  /\ pc # "idle" => run # None
  /\ pc \in Working => status = "none"
  /\ pc \in (Working \ {"create"}) \cup Cleaning => armed
  /\ pc \in Cleaning => status \in {"ok", "failed"}
  /\ pc \in After => status = "ok" /\ ~armed /\ done[run]
  /\ pc \in OnLoop => LOOP = run
  /\ pc \in Working \cup Cleaning => ~done[run]

\* Image files are of this and earlier runs, and this run's has its name.
Named ==
  /\ \A d \in 1 .. MaxDay : img[d] <= run
  /\ pc \in (Working \ {"create"}) \cup After \/ Succeeding => img[name] = run
  /\ \A r \in Runs : done[r] => r <= run

\* How far the image of the run is.
Progress ==
  /\ pc \in {"format"} \cup Formatted \/ Succeeding => parts[run] = 3
  /\ pc \in Formatted => "fs" \in esp[run]
  /\ pc \in Formatted \ {"mount", "populate"} \/ Succeeding => {"fs"} \cup EspFiles \subseteq esp[run]
  /\ Succeeding => root[run] # NoRoot

\* What makefs finds was collected by one run.
OfOneRun(tree) == \A piece \in tree.has : piece[2] = tree.by

Collected ==
  /\ OfOneRun(ffs)
  /\ pc = "makefs" => \A piece \in contents : piece[2] = run

\* The run is sure to have nothing mounted.
Clear ==
  \/ pc \in (Working \ {"populate", "umount"}) \cup After
  \/ status = "ok"
  \/ pc \in {"c_losetup", "c_rm", "idle"} /\ status = "failed" /\ ~stuck

\* What is mounted is of runs that did not announce an image; the run's own is
\* on top, and away unless the run was killed or its cleanup failed.
Stack ==
  /\ \A i \in 1 .. Len(mounts) : mounts[i] <= run /\ ~done[mounts[i]]
  /\ Clear => \A i \in 1 .. Len(mounts) : mounts[i] # run
  /\ \A i \in 1 .. Len(mounts) - 1 : mounts[i] # run
  /\ pc \in {"populate", "umount"} => mounts # <<>> /\ mounts[Len(mounts)] = run

\* The run's loop device is gone once its cleanup detached it.
Detached ==
  /\ \A r \in loops : r <= run
  /\ LOOP = None => run \notin loops
  /\ pc \in {"c_rm", "idle"} \cup After /\ status \in {"ok", "failed"} /\ ~stuck => run \notin loops

IInv == /\ TypeOK /\ Control /\ Named /\ Progress /\ Collected /\ Stack /\ Detached
        /\ ImageWhole /\ RootOfOneRun /\ BurnedComplete

-----------------------------------------------------------------------------
(* The stack of mounts                                                     *)

\* A mount goes on top of the stack.
LEMMA Pushed ==
  ASSUME NEW S, NEW s \in Seq(S), NEW e \in S, NEW t, t = Append(s, e)
  PROVE  /\ t \in Seq(S) /\ Len(t) = Len(s) + 1 /\ t[Len(s) + 1] = e /\ t # <<>> /\ Len(s) \in Nat
         /\ \A i \in 1 .. Len(s) : t[i] = s[i]
BY AppendProperties, EmptySeq, LenProperties

\* umount takes the top away.
LEMMA Popped ==
  ASSUME NEW S, NEW s \in Seq(S), s # <<>>, NEW t, t = Front(s)
  PROVE  /\ t \in Seq(S) /\ Len(t) = Len(s) - 1 /\ Len(s) \in Nat /\ Len(s) > 0
         /\ \A i \in 1 .. Len(s) - 1 : t[i] = s[i]
<1>1. Len(s) \in Nat \ {0}
  BY EmptySeq
<1>2. PICK n \in Nat : Len(s) = n + 1
  <2>1. Len(s) - 1 \in Nat /\ Len(s) = (Len(s) - 1) + 1
    OBVIOUS
  <2> QED OBVIOUS
<1>3. t = SubSeq(s, 1, n)
  <2>1. (n + 1) - 1 = n
    OBVIOUS
  <2> QED BY <1>2 DEF Front
<1>4. \A i \in 1 .. n : s[i] \in S
  <2> SUFFICES ASSUME NEW i \in 1 .. n PROVE s[i] \in S  OBVIOUS
  <2>1. i \in 1 .. Len(s)
    BY <1>2
  <2> QED BY <2>1, ElementOfSeq
<1>5. /\ SubSeq(s, 1, n) \in Seq(S) /\ Len(SubSeq(s, 1, n)) = IF 1 <= n THEN n - 1 + 1 ELSE 0
      /\ \A i \in 1 .. n - 1 + 1 : SubSeq(s, 1, n)[i] = s[1 + i - 1]
  BY <1>4, SubSeqProperties
<1>6. n - 1 + 1 = n /\ (~(1 <= n) => n = 0)
  OBVIOUS
<1>7. t \in Seq(S) /\ Len(t) = n
  BY <1>3, <1>5
<1>8. \A i \in 1 .. n : t[i] = s[i]
  <2> SUFFICES ASSUME NEW i \in 1 .. n PROVE t[i] = s[i]  OBVIOUS
  <2>1. 1 + i - 1 = i
    OBVIOUS
  <2>2. SubSeq(s, 1, n)[i] = s[1 + i - 1]
    OBVIOUS
  <2> QED BY <1>3
<1>9. Len(s) - 1 = n /\ Len(s) > 0
  BY <1>2
<1> QED BY <1>7, <1>8, <1>9

-----------------------------------------------------------------------------
(* Every step keeps the invariant                                          *)

\* The date changes; the name that a run has chosen does not.
LEMMA MidnightKeeps ==
  ASSUME IInv, midnight
  PROVE  IInv'
<1>1. /\ TypeOK /\ Control /\ Named /\ Progress /\ Collected /\ Stack /\ Detached
      /\ ImageWhole /\ RootOfOneRun /\ BurnedComplete
  BY DEF IInv
<1>2. /\ run \in Nat /\ MaxRuns \in Nat /\ MaxDay \in Nat /\ (run # None => run \in Runs)
  BY <1>1, MakeImageAssumption DEF TypeOK, Runs, None
<1>3. TypeOK'
  BY <1>1, <1>2 DEF midnight, TypeOK, procVars, diskVars, hostVars
<1>4. Control'
  BY <1>1 DEF midnight, Control, procVars, diskVars
<1>5. Named'
  BY <1>1 DEF midnight, Named, Succeeding, procVars, diskVars
<1>6. Progress'
  BY <1>1 DEF midnight, Progress, Succeeding, procVars, diskVars
<1>7. Collected'
  BY <1>1 DEF midnight, Collected, procVars, hostVars
<1>8. Stack'
  BY <1>1 DEF midnight, Stack, Clear, procVars, diskVars, hostVars
<1>9. Detached'
  BY <1>1 DEF midnight, Detached, procVars, hostVars
<1>10. ImageWhole'
  BY <1>1 DEF midnight, ImageWhole, diskVars
<1>11. RootOfOneRun'
  BY <1>1 DEF midnight, RootOfOneRun, diskVars
<1>12. BurnedComplete'
  BY <1>1, <1>2 DEF midnight, BurnedComplete, diskVars, hostVars, procVars
<1> QED BY <1>3, <1>4, <1>5, <1>6, <1>7, <1>8, <1>9, <1>10, <1>11, <1>12 DEF IInv

\* A new run: its number is on no image, no loop device and no mount yet.
LEMMA MakeImageKeeps ==
  ASSUME IInv, make_image
  PROVE  IInv'
<1>1. /\ TypeOK /\ Control /\ Named /\ Progress /\ Collected /\ Stack /\ Detached
      /\ ImageWhole /\ RootOfOneRun /\ BurnedComplete
  BY DEF IInv
<1>2. /\ run \in Nat /\ MaxRuns \in Nat /\ MaxDay \in Nat /\ (run # None => run \in Runs)
  BY <1>1, MakeImageAssumption DEF TypeOK, Runs, None
<1>3. /\ pc = "idle" /\ run + 1 \in Runs /\ run' = run + 1 /\ name' = day /\ LOOP' = None
      /\ armed' = FALSE /\ stuck' = FALSE /\ target' \in {"image", "burn", "test-qemu"}
      /\ \/ pc' = "create" /\ status' = "none"
         \/ pc' = "idle" /\ status' = "failed"
      /\ UNCHANGED <<day, img, parts, esp, root, done, loops, mounts, contents, ffs, device>>
  BY <1>2 DEF make_image, At, Runs, diskVars, hostVars
<1>4. \A r \in Runs : r <= run => r # run + 1
  BY <1>2 DEF Runs
<1>5. ~done[run + 1]
  BY <1>1, <1>3, <1>4 DEF Named
<1>6. TypeOK'
  BY <1>1, <1>3 DEF TypeOK, Labels
<1>7. Control'
  BY <1>2, <1>3, <1>5 DEF Control, Working, OnLoop, Formatted, Cleaning, After, None
<1>8. Named'
  <2>1. \A d \in 1 .. MaxDay : img[d] <= run /\ img[d] \in Nat
    BY <1>1 DEF Named, TypeOK, Runs, None
  <2>2. \A r \in Runs : r \in Nat /\ (done[r] => r <= run)
    BY <1>1 DEF Named, Runs
  <2> QED BY <1>2, <1>3, <2>1, <2>2 DEF Named, Working, OnLoop, Formatted, After, Succeeding
<1>9. Progress'
  BY <1>3 DEF Progress, Formatted, Succeeding
<1>10. Collected'
  BY <1>1, <1>3 DEF Collected
<1>11. Stack'
  <2>1. \A i \in 1 .. Len(mounts) : mounts[i] \in Runs /\ mounts[i] \in Nat
    BY <1>1, <1>2, ElementOfSeq DEF TypeOK, Runs
  <2>2. Len(mounts) \in Nat
    BY LenProperties
  <2>3. \A i \in 1 .. Len(mounts) : mounts[i] <= run + 1 /\ mounts[i] # run + 1 /\ ~done[mounts[i]]
    BY <1>1, <1>2, <2>1 DEF Stack
  <2> QED BY <1>3, <2>3 DEF Stack
<1>12. Detached'
  <2>1. \A r \in loops : r \in Runs /\ r <= run + 1 /\ r # run + 1
    BY <1>1 DEF Detached, TypeOK, Runs
  <2> QED BY <1>3, <2>1 DEF Detached
<1>13. ImageWhole'
  BY <1>1, <1>3 DEF ImageWhole
<1>14. RootOfOneRun'
  BY <1>1, <1>3 DEF RootOfOneRun
<1>15. BurnedComplete'
  BY <1>1, <1>2, <1>3 DEF make_image, BurnedComplete, diskVars, hostVars, TypeOK, None
<1> QED BY <1>6, <1>7, <1>8, <1>9, <1>10, <1>11, <1>12, <1>13, <1>14, <1>15 DEF IInv

\* The run has an image file of its own, or ends.
LEMMA CreateKeeps ==
  ASSUME IInv, create
  PROVE  IInv'
<1>1. /\ TypeOK /\ Control /\ Named /\ Progress /\ Collected /\ Stack /\ Detached
      /\ ImageWhole /\ RootOfOneRun /\ BurnedComplete
  BY DEF IInv
<1>2. /\ run \in Nat /\ MaxRuns \in Nat /\ MaxDay \in Nat /\ (run # None => run \in Runs)
      /\ pc # "idle" /\ run \in Runs
  BY <1>1, MakeImageAssumption DEF TypeOK, Runs, create, At, Control
<1>3. TypeOK'
  BY <1>1 DEF create, TypeOK, Labels, hostVars
<1>4. Control'
  BY <1>1 DEF create, At, Control, Working, OnLoop, Formatted, Cleaning, After
<1>5. Named'
  BY <1>1, <1>2 DEF create, TypeOK, Control, Named, Working, OnLoop, Formatted, After, Succeeding,
     None
<1>6. Progress'
  BY DEF create, Progress, Formatted, Cleaning, Succeeding
<1>7. Collected'
  BY <1>1 DEF create, Collected, hostVars
<1>8. Stack'
  BY <1>1 DEF create, At, Stack, Clear, Working, hostVars
<1>9. Detached'
  BY <1>1 DEF create, Detached, After, hostVars
<1>10. ImageWhole'
  BY <1>1 DEF create, ImageWhole
<1>11. RootOfOneRun'
  BY <1>1 DEF create, RootOfOneRun
<1>12. BurnedComplete'
  BY <1>1, <1>2 DEF create, BurnedComplete, hostVars
<1> QED BY <1>3, <1>4, <1>5, <1>6, <1>7, <1>8, <1>9, <1>10, <1>11, <1>12 DEF IInv

\* The loop device of the run, and $LOOP with it.
LEMMA LosetupKeeps ==
  ASSUME IInv, losetup
  PROVE  IInv'
<1>1. /\ TypeOK /\ Control /\ Named /\ Progress /\ Collected /\ Stack /\ Detached
      /\ ImageWhole /\ RootOfOneRun /\ BurnedComplete
  BY DEF IInv
<1>2. /\ run \in Nat /\ MaxRuns \in Nat /\ MaxDay \in Nat /\ (run # None => run \in Runs)
      /\ pc # "idle" /\ run \in Runs
  BY <1>1, MakeImageAssumption DEF TypeOK, Runs, losetup, At, Control
<1>3. TypeOK'
  BY <1>1, <1>2 DEF losetup, BreaksOff, Die, Killed, TypeOK, Labels, diskVars
<1>4. Control'
  BY <1>1 DEF losetup, At, BreaksOff, Die, Killed, Control, Working, OnLoop, Formatted, Cleaning,
     After, diskVars
<1>5. Named'
  BY <1>1 DEF losetup, At, BreaksOff, Die, Killed, Named, Working, diskVars
<1>6. Progress'
  BY DEF losetup, BreaksOff, Die, Killed, Progress, Formatted, Cleaning, Succeeding
<1>7. Collected'
  BY <1>1 DEF losetup, BreaksOff, Die, Killed, Collected
<1>8. Stack'
  BY <1>1 DEF losetup, At, BreaksOff, Die, Killed, Stack, Clear, Working, diskVars
<1>9. Detached'
  BY <1>1 DEF losetup, At, BreaksOff, Die, Killed, TypeOK, Control, Named, Detached, Working, After
<1>10. ImageWhole'
  BY <1>1 DEF losetup, ImageWhole, diskVars
<1>11. RootOfOneRun'
  BY <1>1 DEF losetup, RootOfOneRun, diskVars
<1>12. BurnedComplete'
  BY <1>1, <1>2 DEF losetup, BurnedComplete, BreaksOff, Die, Killed, diskVars
<1> QED BY <1>3, <1>4, <1>5, <1>6, <1>7, <1>8, <1>9, <1>10, <1>11, <1>12 DEF IInv

\* A partition table, or the end of the run.
LEMMA SgdiskKeeps ==
  ASSUME IInv, sgdisk
  PROVE  IInv'
<1>1. /\ TypeOK /\ Control /\ Named /\ Progress /\ Collected /\ Stack /\ Detached
      /\ ImageWhole /\ RootOfOneRun /\ BurnedComplete
  BY DEF IInv
<1>2. /\ run \in Nat /\ MaxRuns \in Nat /\ MaxDay \in Nat /\ (run # None => run \in Runs)
      /\ pc # "idle" /\ run \in Runs /\ LOOP = run
  BY <1>1, MakeImageAssumption DEF TypeOK, Runs, sgdisk, At, Control, OnLoop
<1>3. TypeOK'
  BY <1>1 DEF sgdisk, Goto, Set, BreaksOff, Die, Killed, TypeOK, Labels, procVars, hostVars
<1>4. Control'
  BY <1>1 DEF sgdisk, At, Goto, BreaksOff, Die, Killed, Control, Working, OnLoop, Formatted,
     Cleaning, After, procVars
<1>5. Named'
  BY <1>1 DEF sgdisk, At, Goto, BreaksOff, Die, Killed, Named, Working, OnLoop, procVars
<1>6. Progress'
  BY <1>2 DEF sgdisk, Goto, BreaksOff, Die, Killed, Progress, Formatted, Cleaning, Succeeding,
     procVars
<1>7. Collected'
  BY <1>1 DEF sgdisk, Goto, BreaksOff, Die, Killed, Collected, hostVars
<1>8. Stack'
  BY <1>1 DEF sgdisk, At, Goto, BreaksOff, Die, Killed, Stack, Clear, Working, OnLoop, procVars,
     hostVars
<1>9. Detached'
  BY <1>1 DEF sgdisk, At, Goto, BreaksOff, Die, Killed, Control, Detached, Working, OnLoop, After,
     procVars, hostVars
<1>10. ImageWhole'
  BY <1>1 DEF sgdisk, Set, TypeOK, ImageWhole
<1>11. RootOfOneRun'
  BY <1>1 DEF sgdisk, RootOfOneRun
<1>12. BurnedComplete'
  BY <1>1, <1>2 DEF sgdisk, BurnedComplete, Goto, BreaksOff, Die, Killed, hostVars, procVars
<1> QED BY <1>3, <1>4, <1>5, <1>6, <1>7, <1>8, <1>9, <1>10, <1>11, <1>12 DEF IInv

\* mkfs.vfat on the loop device of this run.
LEMMA FormatEspKeeps ==
  ASSUME IInv, format_esp
  PROVE  IInv'
<1>1. /\ TypeOK /\ Control /\ Named /\ Progress /\ Collected /\ Stack /\ Detached
      /\ ImageWhole /\ RootOfOneRun /\ BurnedComplete
  BY DEF IInv
<1>2. /\ run \in Nat /\ MaxRuns \in Nat /\ MaxDay \in Nat /\ (run # None => run \in Runs)
      /\ pc # "idle" /\ run \in Runs /\ LOOP = run
  BY <1>1, MakeImageAssumption DEF TypeOK, Runs, format_esp, At, Control, OnLoop
<1>3. /\ pc = "format"
      /\ \/ esp' = [esp EXCEPT ![run] = {"fs"}] /\ Goto("mount")
         \/ BreaksOff /\ UNCHANGED esp
      /\ UNCHANGED <<day, img, parts, root, done, hostVars, device>>
  BY <1>2 DEF format_esp, At, Set
<1>4. TypeOK'
  BY <1>1, <1>3 DEF Goto, BreaksOff, Die, Killed, TypeOK, Labels, procVars, hostVars
<1>5. Control'
  BY <1>1, <1>3 DEF Goto, BreaksOff, Die, Killed, Control, Working, OnLoop, Formatted, Cleaning,
     After, procVars
<1>6. Named'
  BY <1>1, <1>3 DEF Goto, BreaksOff, Die, Killed, Named, Working, OnLoop, procVars
<1>7. Progress'
  <2>1. CASE esp' = [esp EXCEPT ![run] = {"fs"}] /\ Goto("mount")
    <3>1. esp'[run] = {"fs"} /\ pc' = "mount" /\ run' = run /\ parts' = parts
      BY <1>1, <1>2, <1>3, <2>1 DEF TypeOK, Goto, procVars
    <3>2. parts[run] = 3
      BY <1>1, <1>3 DEF Progress
    <3> QED BY <3>1, <3>2 DEF Progress, Succeeding, Cleaning
  <2>2. CASE BreaksOff /\ UNCHANGED esp
    BY <2>2 DEF Progress, BreaksOff, Die, Killed, Formatted, Succeeding
  <2> QED BY <1>3, <2>1, <2>2
<1>8. Collected'
  BY <1>1, <1>3 DEF Goto, BreaksOff, Die, Killed, Collected, hostVars
<1>9. Stack'
  BY <1>1, <1>3 DEF Goto, BreaksOff, Die, Killed, Stack, Clear, Working, OnLoop, procVars, hostVars
<1>10. Detached'
  BY <1>1, <1>3 DEF Goto, BreaksOff, Die, Killed, Control, Detached, Working, OnLoop, After,
     procVars, hostVars
<1>11. ImageWhole'
  BY <1>1, <1>3 DEF TypeOK, Control, ImageWhole, Working, OnLoop
<1>12. RootOfOneRun'
  BY <1>1, <1>3 DEF RootOfOneRun
<1>13. BurnedComplete'
  BY <1>1, <1>2, <1>3 DEF format_esp, BurnedComplete, Goto, BreaksOff, Die, Killed, hostVars, procVars
<1> QED BY <1>4, <1>5, <1>6, <1>7, <1>8, <1>9, <1>10, <1>11, <1>12, <1>13 DEF IInv

\* The run's ESP goes on top of what earlier runs left mounted.
LEMMA MountEspKeeps ==
  ASSUME IInv, mount_esp
  PROVE  IInv'
<1>1. /\ TypeOK /\ Control /\ Named /\ Progress /\ Collected /\ Stack /\ Detached
      /\ ImageWhole /\ RootOfOneRun /\ BurnedComplete
  BY DEF IInv
<1>2. /\ run \in Nat /\ MaxRuns \in Nat /\ MaxDay \in Nat /\ (run # None => run \in Runs)
      /\ pc # "idle" /\ run \in Runs /\ LOOP = run
  BY <1>1, MakeImageAssumption DEF TypeOK, Runs, mount_esp, At, Control, OnLoop, Formatted
<1>3. \/ mounts' = Append(mounts, run) /\ Goto("populate")
      \/ BreaksOff /\ UNCHANGED mounts
  BY <1>2 DEF mount_esp
<1>4. TypeOK'
  <2>1. mounts' \in Seq(Runs)
    BY <1>1, <1>2, <1>3, Pushed DEF TypeOK
  <2> QED BY <1>1, <2>1 DEF mount_esp, Goto, BreaksOff, Die, Killed, TypeOK, Labels, procVars,
       diskVars
<1>5. Control'
  BY <1>1 DEF mount_esp, At, Goto, BreaksOff, Die, Killed, Control, Working, OnLoop, Formatted,
     Cleaning, After, procVars, diskVars
<1>6. Named'
  BY <1>1 DEF mount_esp, At, Goto, BreaksOff, Die, Killed, Named, Working, OnLoop, Formatted,
     procVars, diskVars
<1>7. Progress'
  BY <1>1 DEF mount_esp, At, Goto, BreaksOff, Die, Killed, Progress, Formatted, Cleaning,
     Succeeding, procVars, diskVars
<1>8. Collected'
  BY <1>1 DEF mount_esp, Goto, BreaksOff, Die, Killed, Collected
<1>9. Stack'
  <2>1. CASE mounts' = Append(mounts, run) /\ Goto("populate")
    <3>1. /\ mounts' \in Seq(Runs) /\ Len(mounts') = Len(mounts) + 1 /\ mounts'[Len(mounts) + 1] = run
          /\ mounts' # <<>> /\ Len(mounts) \in Nat /\ \A i \in 1 .. Len(mounts) : mounts'[i] = mounts[i]
      BY <1>1, <1>2, <2>1, Pushed DEF TypeOK
    <3>2. /\ \A i \in 1 .. Len(mounts) : mounts[i] <= run /\ ~done[mounts[i]] /\ mounts[i] # run
          /\ ~done[run] /\ status = "none" /\ pc' = "populate" /\ UNCHANGED <<run, done, status, stuck>>
      BY <1>1, <2>1 DEF mount_esp, At, Goto, Stack, Clear, Control, Working, OnLoop, Formatted,
         procVars, diskVars
    <3>3. \A i \in 1 .. Len(mounts') : i \in 1 .. Len(mounts) \/ i = Len(mounts) + 1
      BY <3>1
    <3> QED BY <1>2, <3>1, <3>2 DEF Stack, Clear, After
  <2>2. CASE BreaksOff /\ UNCHANGED mounts
    BY <1>1, <2>2 DEF mount_esp, At, BreaksOff, Die, Killed, Stack, Clear, Working, OnLoop,
       Formatted, diskVars
  <2> QED BY <2>1, <2>2, <1>3
<1>10. Detached'
  BY <1>1 DEF mount_esp, At, Goto, BreaksOff, Die, Killed, Control, Detached, Working, OnLoop,
     Formatted, After, procVars
<1>11. ImageWhole'
  BY <1>1 DEF mount_esp, ImageWhole, diskVars
<1>12. RootOfOneRun'
  BY <1>1 DEF mount_esp, RootOfOneRun, diskVars
<1>13. BurnedComplete'
  BY <1>1, <1>2 DEF mount_esp, BurnedComplete, Goto, BreaksOff, Die, Killed, diskVars, procVars
<1> QED BY <1>4, <1>5, <1>6, <1>7, <1>8, <1>9, <1>10, <1>11, <1>12, <1>13 DEF IInv

\* The files go to what is on top: the run's own ESP.
LEMMA PopulateEspKeeps ==
  ASSUME IInv, populate_esp
  PROVE  IInv'
<1>1. /\ TypeOK /\ Control /\ Named /\ Progress /\ Collected /\ Stack /\ Detached
      /\ ImageWhole /\ RootOfOneRun /\ BurnedComplete
  BY DEF IInv
<1>2. /\ run \in Nat /\ MaxRuns \in Nat /\ MaxDay \in Nat /\ (run # None => run \in Runs)
      /\ pc # "idle" /\ run \in Runs /\ LOOP = run
  BY <1>1, MakeImageAssumption DEF TypeOK, Runs, populate_esp, At, Control, OnLoop, Formatted
<1>3. PICK files \in SUBSET EspFiles :
        /\ pc = "populate" /\ esp' = [esp EXCEPT ![run] = esp[run] \cup files]
        /\ \/ files = EspFiles /\ Goto("umount")
           \/ BreaksOff
        /\ UNCHANGED <<day, img, parts, root, done, hostVars, device>>
  <2>1. mounts[Len(mounts)] = run
    BY <1>1 DEF populate_esp, At, Stack
  <2> QED BY <2>1 DEF populate_esp, At, Last
<1>4. TypeOK'
  BY <1>1, <1>2, <1>3 DEF Goto, BreaksOff, Die, Killed, TypeOK, Labels, procVars, hostVars
<1>5. Control'
  BY <1>1, <1>3 DEF Goto, BreaksOff, Die, Killed, Control, Working, OnLoop, Formatted, Cleaning,
     After, procVars
<1>6. Named'
  BY <1>1, <1>3 DEF Goto, BreaksOff, Die, Killed, Named, Working, OnLoop, Formatted, procVars
<1>7. Progress'
  BY <1>1, <1>2, <1>3 DEF Goto, BreaksOff, Die, Killed, TypeOK, Progress, Formatted, Cleaning,
     Succeeding, procVars
<1>8. Collected'
  BY <1>1, <1>3 DEF Goto, BreaksOff, Die, Killed, Collected, hostVars
<1>9. Stack'
  BY <1>1, <1>3 DEF Goto, BreaksOff, Die, Killed, Control, Stack, Clear, Working, OnLoop,
     Formatted, After, procVars, hostVars
<1>10. Detached'
  BY <1>1, <1>3 DEF Goto, BreaksOff, Die, Killed, Control, Detached, Working, OnLoop, Formatted,
     After, procVars, hostVars
<1>11. ImageWhole'
  BY <1>1, <1>3 DEF ImageWhole
<1>12. RootOfOneRun'
  BY <1>1, <1>3 DEF RootOfOneRun
<1>13. BurnedComplete'
  BY <1>1, <1>2, <1>3 DEF populate_esp, BurnedComplete, Goto, BreaksOff, Die, Killed, hostVars, procVars
<1> QED BY <1>4, <1>5, <1>6, <1>7, <1>8, <1>9, <1>10, <1>11, <1>12, <1>13 DEF IInv

\* The top of the stack is the run's own, and nothing else of it is mounted.
LEMMA UmountEspKeeps ==
  ASSUME IInv, umount_esp
  PROVE  IInv'
<1>1. /\ TypeOK /\ Control /\ Named /\ Progress /\ Collected /\ Stack /\ Detached
      /\ ImageWhole /\ RootOfOneRun /\ BurnedComplete
  BY DEF IInv
<1>2. /\ run \in Nat /\ MaxRuns \in Nat /\ MaxDay \in Nat /\ (run # None => run \in Runs)
      /\ pc # "idle" /\ run \in Runs /\ LOOP = run
  BY <1>1, MakeImageAssumption DEF TypeOK, Runs, umount_esp, At, Control, OnLoop, Formatted
<1>3. /\ pc = "umount" /\ mounts \in Seq(Runs) /\ mounts # <<>>
      /\ \/ mounts' = Front(mounts) /\ Goto("collect")
         \/ BreaksOff /\ UNCHANGED mounts
      /\ UNCHANGED <<day, diskVars, loops, contents, ffs, device>>
  BY <1>1 DEF umount_esp, At, Stack, TypeOK
<1>4. TypeOK'
  <2>1. mounts' \in Seq(Runs)
    BY <1>3, Popped
  <2> QED BY <1>1, <1>3, <2>1 DEF Goto, BreaksOff, Die, Killed, TypeOK, Labels, procVars, diskVars
<1>5. Control'
  BY <1>1 DEF umount_esp, At, Goto, BreaksOff, Die, Killed, Control, Working, OnLoop, Formatted,
     Cleaning, After, procVars, diskVars
<1>6. Named'
  BY <1>1, <1>3 DEF Goto, BreaksOff, Die, Killed, Named, Working, OnLoop, Formatted, procVars,
     diskVars
<1>7. Progress'
  BY <1>1, <1>3 DEF Goto, BreaksOff, Die, Killed, Progress, Formatted, Cleaning, Succeeding,
     procVars, diskVars
<1>8. Collected'
  BY <1>1, <1>3 DEF Goto, BreaksOff, Die, Killed, Collected
<1>9. Stack'
  <2>1. CASE mounts' = Front(mounts) /\ Goto("collect")
    <3>1. /\ Len(mounts') = Len(mounts) - 1 /\ Len(mounts) \in Nat /\ Len(mounts) > 0
          /\ \A i \in 1 .. Len(mounts) - 1 : mounts'[i] = mounts[i]
      BY <1>3, <2>1, Popped
    <3>2. /\ \A i \in 1 .. Len(mounts) - 1 : mounts[i] <= run /\ ~done[mounts[i]] /\ mounts[i] # run
          /\ pc' = "collect" /\ UNCHANGED <<run, done>>
      BY <1>1, <1>3, <3>1 DEF Goto, Stack, procVars, diskVars
    <3> QED BY <3>1, <3>2 DEF Stack
  <2>2. CASE BreaksOff /\ UNCHANGED mounts
    BY <1>1, <1>3, <2>2 DEF BreaksOff, Die, Killed, Control, Stack, Clear, Working, OnLoop,
       Formatted, After, diskVars
  <2> QED BY <2>1, <2>2, <1>3
<1>10. Detached'
  BY <1>1, <1>3 DEF Goto, BreaksOff, Die, Killed, Control, Detached, Working, OnLoop, Formatted,
     After, procVars
<1>11. ImageWhole'
  BY <1>1, <1>3 DEF ImageWhole, diskVars
<1>12. RootOfOneRun'
  BY <1>1, <1>3 DEF RootOfOneRun, diskVars
<1>13. BurnedComplete'
  BY <1>1, <1>2, <1>3 DEF umount_esp, BurnedComplete, Goto, BreaksOff, Die, Killed, diskVars, procVars
<1> QED BY <1>4, <1>5, <1>6, <1>7, <1>8, <1>9, <1>10, <1>11, <1>12, <1>13 DEF IInv

\* The directory has only what this run collects.
LEMMA CollectKeeps ==
  ASSUME IInv, collect
  PROVE  IInv'
<1>1. /\ TypeOK /\ Control /\ Named /\ Progress /\ Collected /\ Stack /\ Detached
      /\ ImageWhole /\ RootOfOneRun /\ BurnedComplete
  BY DEF IInv
<1>2. /\ run \in Nat /\ MaxRuns \in Nat /\ MaxDay \in Nat /\ (run # None => run \in Runs)
      /\ pc # "idle" /\ run \in Runs /\ LOOP = run
  BY <1>1, MakeImageAssumption DEF TypeOK, Runs, collect, At, Control, OnLoop, Formatted
<1>3. TypeOK'
  <2>1. contents' \subseteq Pieces
    BY <1>1, <1>2 DEF collect, Copied, Pieces, TypeOK
  <2> QED BY <1>1, <2>1 DEF collect, Goto, BreaksOff, Die, Killed, TypeOK, Labels, procVars,
       diskVars
<1>4. Control'
  BY <1>1 DEF collect, At, Goto, BreaksOff, Die, Killed, Control, Working, OnLoop, Formatted,
     Cleaning, After, procVars, diskVars
<1>5. Named'
  BY <1>1 DEF collect, At, Goto, BreaksOff, Die, Killed, Named, Working, OnLoop, Formatted,
     procVars, diskVars
<1>6. Progress'
  BY <1>1 DEF collect, At, Goto, BreaksOff, Die, Killed, Progress, Formatted, Cleaning,
     Succeeding, procVars, diskVars
<1>7. Collected'
  BY <1>1 DEF collect, Goto, BreaksOff, Die, Killed, Copied, Collected, procVars
<1>8. Stack'
  BY <1>1 DEF collect, At, Goto, BreaksOff, Die, Killed, Stack, Clear, Working, OnLoop, Formatted,
     procVars, diskVars
<1>9. Detached'
  BY <1>1 DEF collect, At, Goto, BreaksOff, Die, Killed, Control, Detached, Working, OnLoop,
     Formatted, After, procVars
<1>10. ImageWhole'
  BY <1>1 DEF collect, ImageWhole, diskVars
<1>11. RootOfOneRun'
  BY <1>1 DEF collect, RootOfOneRun, diskVars
<1>12. BurnedComplete'
  BY <1>1, <1>2 DEF collect, BurnedComplete, Goto, BreaksOff, Die, Killed, diskVars, procVars
<1> QED BY <1>3, <1>4, <1>5, <1>6, <1>7, <1>8, <1>9, <1>10, <1>11, <1>12 DEF IInv

\* nbmakefs' status is lost: the run goes on with a root or without.
LEMMA MakefsKeeps ==
  ASSUME IInv, makefs
  PROVE  IInv'
<1>1. /\ TypeOK /\ Control /\ Named /\ Progress /\ Collected /\ Stack /\ Detached
      /\ ImageWhole /\ RootOfOneRun /\ BurnedComplete
  BY DEF IInv
<1>2. /\ run \in Nat /\ MaxRuns \in Nat /\ MaxDay \in Nat /\ (run # None => run \in Runs)
      /\ pc # "idle" /\ run \in Runs /\ LOOP = run
  BY <1>1, MakeImageAssumption DEF TypeOK, Runs, makefs, At, Control, OnLoop, Formatted
<1>3. TypeOK'
  <2>1. \A w \in BOOLEAN : [by |-> run, has |-> contents, whole |-> w] \in Trees
    BY <1>1 DEF Trees, TypeOK
  <2>2. ffs' \in Trees
    BY <1>1, <2>1 DEF makefs, TypeOK
  <2> QED BY <1>1, <2>2 DEF makefs, Goto, Killed, TypeOK, Labels, procVars, diskVars
<1>4. Control'
  BY <1>1 DEF makefs, At, Goto, Killed, Control, Working, OnLoop, Formatted, Cleaning, After,
     procVars, diskVars
<1>5. Named'
  BY <1>1 DEF makefs, At, Goto, Killed, Named, Working, OnLoop, Formatted, procVars, diskVars
<1>6. Progress'
  BY <1>1 DEF makefs, At, Goto, Killed, Progress, Formatted, Cleaning, Succeeding, procVars,
     diskVars
<1>7. Collected'
  BY <1>1 DEF makefs, At, Goto, Killed, Collected, OfOneRun
<1>8. Stack'
  BY <1>1 DEF makefs, At, Goto, Killed, Stack, Clear, Working, OnLoop, Formatted, procVars, diskVars
<1>9. Detached'
  BY <1>1 DEF makefs, Goto, Killed, Detached, After, procVars
<1>10. ImageWhole'
  BY <1>1 DEF makefs, ImageWhole, diskVars
<1>11. RootOfOneRun'
  BY <1>1 DEF makefs, RootOfOneRun, diskVars
<1>12. BurnedComplete'
  BY <1>1, <1>2 DEF makefs, BurnedComplete, Goto, Killed, diskVars, procVars
<1> QED BY <1>3, <1>4, <1>5, <1>6, <1>7, <1>8, <1>9, <1>10, <1>11, <1>12 DEF IInv

\* The root is of one run, whichever run made the file.
LEMMA WriteRootKeeps ==
  ASSUME IInv, write_root
  PROVE  IInv'
<1>1. /\ TypeOK /\ Control /\ Named /\ Progress /\ Collected /\ Stack /\ Detached
      /\ ImageWhole /\ RootOfOneRun /\ BurnedComplete
  BY DEF IInv
<1>2. /\ run \in Nat /\ MaxRuns \in Nat /\ MaxDay \in Nat /\ (run # None => run \in Runs)
      /\ pc # "idle" /\ run \in Runs /\ LOOP = run
  BY <1>1, MakeImageAssumption DEF TypeOK, Runs, write_root, At, Control, OnLoop, Formatted
<1>3. /\ pc = "dd" /\ ffs \in Trees
      /\ \/ /\ ffs # NoRoot /\ root' = [root EXCEPT ![run] = ffs]
            /\ pc' = "c_umount" /\ status' = "ok"
            /\ UNCHANGED <<target, run, armed, stuck, LOOP, name>>
         \/ /\ root' = [root EXCEPT ![run] = [ffs EXCEPT !.whole = FALSE]]
            /\ BreaksOff
         \/ BreaksOff /\ UNCHANGED root
      /\ UNCHANGED <<day, img, parts, esp, done, hostVars, device>>
  BY <1>1, <1>2 DEF write_root, At, Set, TypeOK
<1>4. PICK tree \in Trees :
        /\ tree.has = ffs.has /\ tree.by = ffs.by
        /\ \/ /\ tree = ffs /\ ffs # NoRoot /\ pc' = "c_umount" /\ status' = "ok"
              /\ root' = [root EXCEPT ![run] = tree]
              /\ UNCHANGED <<target, run, armed, stuck, LOOP, name>>
           \/ BreaksOff /\ root' \in {root, [root EXCEPT ![run] = tree]}
  <2>1. [ffs EXCEPT !.whole = FALSE] \in Trees
    BY <1>3 DEF Trees
  <2>2. /\ [ffs EXCEPT !.whole = FALSE].has = ffs.has
        /\ [ffs EXCEPT !.whole = FALSE].by = ffs.by
    OBVIOUS
  <2>3. CASE BreaksOff
    BY <1>3, <2>1, <2>2
  <2>4. CASE ~BreaksOff
    BY <1>3, <2>4
  <2> QED BY <2>3, <2>4
<1>5. TypeOK'
  <2>1. root' \in [Runs -> Trees]
    BY <1>1, <1>4 DEF TypeOK
  <2>2. UNCHANGED <<day, img, parts, esp, done, hostVars, device>>
    BY <1>3
  <2>3. /\ UNCHANGED <<target, run, armed, stuck, LOOP, name>>
        /\ pc' \in {"c_umount", "idle"} /\ status' \in {"ok", "failed", "killed"}
    BY <1>4 DEF BreaksOff, Die, Killed
  <2> QED BY <1>1, <2>1, <2>2, <2>3 DEF TypeOK, Labels, hostVars
<1>6. Control'
  BY <1>1 DEF write_root, At, BreaksOff, Die, Killed, Control, Working, OnLoop, Formatted,
     Cleaning, After
<1>7. Named'
  BY <1>1, <1>3 DEF BreaksOff, Die, Killed, Named, Working, OnLoop, Formatted
<1>8. Progress'
  BY <1>1, <1>2, <1>3 DEF BreaksOff, Die, Killed, TypeOK, Progress, Formatted, Succeeding
<1>9. Collected'
  BY <1>1, <1>3 DEF BreaksOff, Die, Killed, Collected, hostVars
<1>10. Stack'
  BY <1>1, <1>3 DEF BreaksOff, Die, Killed, Stack, Clear, Working, OnLoop, Formatted, hostVars
<1>11. Detached'
  BY <1>1, <1>3 DEF BreaksOff, Die, Killed, Control, Detached, Working, OnLoop, Formatted, After,
     hostVars
<1>12. ImageWhole'
  BY <1>1, <1>3 DEF TypeOK, Control, ImageWhole, Working, OnLoop, Formatted
<1>13. RootOfOneRun'
  <2>1. \A r \in Runs : root'[r] = root[r] \/ root'[r] = tree
    BY <1>1, <1>4 DEF TypeOK
  <2>2. \A piece \in tree.has : piece[2] = tree.by
    BY <1>1, <1>4 DEF Collected, OfOneRun
  <2> QED BY <1>1, <2>1, <2>2 DEF RootOfOneRun
<1>14. BurnedComplete'
  BY <1>1, <1>2, <1>3 DEF write_root, BurnedComplete, BreaksOff, Die, Killed, hostVars
<1> QED BY <1>5, <1>6, <1>7, <1>8, <1>9, <1>10, <1>11, <1>12, <1>13, <1>14 DEF IInv

\* cleanup takes the run's mount away, or an older one when the run has none.
LEMMA CleanupUmountKeeps ==
  ASSUME IInv, cleanup_umount
  PROVE  IInv'
<1>1. /\ TypeOK /\ Control /\ Named /\ Progress /\ Collected /\ Stack /\ Detached
      /\ ImageWhole /\ RootOfOneRun /\ BurnedComplete
  BY DEF IInv
<1>2. /\ run \in Nat /\ MaxRuns \in Nat /\ MaxDay \in Nat /\ (run # None => run \in Runs)
      /\ pc # "idle" /\ run \in Runs
  BY <1>1, MakeImageAssumption DEF TypeOK, Runs, cleanup_umount, At, Control
<1>3. /\ pc = "c_umount" /\ mounts \in Seq(Runs) /\ pc' = "c_losetup"
      /\ \/ mounts # <<>> /\ mounts' = Front(mounts) /\ UNCHANGED stuck
         \/ mounts # <<>> /\ UNCHANGED mounts /\ stuck' = TRUE
         \/ mounts = <<>> /\ UNCHANGED <<mounts, stuck>>
      /\ UNCHANGED <<target, run, status, armed, LOOP, name>>
      /\ UNCHANGED <<day, diskVars, loops, contents, ffs, device>>
  BY <1>1 DEF cleanup_umount, At, Cleaned, TypeOK
<1>4. TypeOK'
  <2>1. mounts' \in Seq(Runs)
    BY <1>3, Popped
  <2>2. stuck' \in BOOLEAN
    BY <1>1, <1>3 DEF TypeOK
  <2> QED BY <1>1, <1>3, <2>1 DEF TypeOK, Labels, diskVars
<1>5. Control'
  BY <1>1, <1>3 DEF Control, Working, OnLoop, Formatted, Cleaning, After, diskVars
<1>6. Named'
  BY <1>1, <1>3 DEF Named, Working, OnLoop, Formatted, Cleaning, After, Succeeding, diskVars
<1>7. Progress'
  BY <1>1, <1>3 DEF Progress, Formatted, Cleaning, Succeeding, diskVars
<1>8. Collected'
  BY <1>1, <1>3 DEF Collected
<1>9. Stack'
  <2>0. /\ \A i \in 1 .. Len(mounts) : mounts[i] <= run /\ ~done[mounts[i]]
        /\ status = "ok" => \A i \in 1 .. Len(mounts) : mounts[i] # run
        /\ \A i \in 1 .. Len(mounts) - 1 : mounts[i] # run
        /\ status \in {"ok", "failed"} /\ UNCHANGED <<run, done, status>>
    BY <1>1, <1>3 DEF Stack, Clear, Control, Cleaning, diskVars
  <2>1. CASE mounts # <<>> /\ mounts' = Front(mounts) /\ UNCHANGED stuck
    <3>1. /\ Len(mounts') = Len(mounts) - 1 /\ Len(mounts) \in Nat /\ Len(mounts) > 0
          /\ \A i \in 1 .. Len(mounts) - 1 : mounts'[i] = mounts[i]
      BY <1>3, <2>1, Popped
    <3>2. \A i \in 1 .. Len(mounts') : mounts'[i] <= run /\ ~done[mounts'[i]] /\ mounts'[i] # run
      BY <2>0, <3>1
    <3>3. Len(mounts') - 1 \in Int /\ Len(mounts') \in Nat
      OBVIOUS
    <3> QED BY <1>3, <2>0, <3>2 DEF Stack
  <2>2. CASE mounts # <<>> /\ UNCHANGED mounts /\ stuck' = TRUE
    BY <1>3, <2>0, <2>2 DEF Stack, Clear, Working, OnLoop, Formatted, After
  <2>3. CASE mounts = <<>> /\ UNCHANGED <<mounts, stuck>>
    <3>1. Len(mounts') = 0
      BY <2>3
    <3> QED BY <1>3, <3>1 DEF Stack
  <2> QED BY <1>3, <2>1, <2>2, <2>3
<1>10. Detached'
  BY <1>1, <1>3 DEF Detached, After
<1>11. ImageWhole'
  BY <1>1, <1>3 DEF ImageWhole, diskVars
<1>12. RootOfOneRun'
  BY <1>1, <1>3 DEF RootOfOneRun, diskVars
<1>13. BurnedComplete'
  BY <1>1, <1>2, <1>3 DEF cleanup_umount, BurnedComplete, Cleaned, diskVars
<1> QED BY <1>4, <1>5, <1>6, <1>7, <1>8, <1>9, <1>10, <1>11, <1>12, <1>13 DEF IInv

\* The run's device is detached, as it is not mounted any more.
LEMMA CleanupLosetupKeeps ==
  ASSUME IInv, cleanup_losetup
  PROVE  IInv'
<1>1. /\ TypeOK /\ Control /\ Named /\ Progress /\ Collected /\ Stack /\ Detached
      /\ ImageWhole /\ RootOfOneRun /\ BurnedComplete
  BY DEF IInv
<1>2. /\ run \in Nat /\ MaxRuns \in Nat /\ MaxDay \in Nat /\ (run # None => run \in Runs)
      /\ pc # "idle" /\ run \in Runs
  BY <1>1, MakeImageAssumption DEF TypeOK, Runs, cleanup_losetup, At, Control
<1>3. TypeOK'
  BY <1>1 DEF cleanup_losetup, Cleaned, TypeOK, Labels, diskVars
<1>4. Control'
  BY <1>1 DEF cleanup_losetup, At, Cleaned, Control, Working, OnLoop, Formatted, Cleaning, After,
     diskVars
<1>5. Named'
  BY <1>1 DEF cleanup_losetup, At, Cleaned, Named, Working, OnLoop, Formatted, Cleaning, After,
     Succeeding, diskVars
<1>6. Progress'
  BY <1>1 DEF cleanup_losetup, At, Cleaned, Progress, Formatted, Cleaning, Succeeding, diskVars
<1>7. Collected'
  BY <1>1 DEF cleanup_losetup, Cleaned, Collected
<1>8. Stack'
  BY <1>1 DEF cleanup_losetup, At, Cleaned, Stack, Clear, Working, OnLoop, Formatted, After,
     diskVars
<1>9. Detached'
  <2>1. /\ pc' = "c_rm" /\ UNCHANGED <<run, status, LOOP>>
        /\ \/ /\ loops' = IF LOOP \in ToSet(mounts) THEN loops ELSE loops \ {LOOP}
              /\ stuck' = stuck
           \/ loops' = loops /\ stuck' = TRUE
    BY DEF cleanup_losetup, Cleaned
  <2>2. status \in {"ok", "failed"} /\ ~stuck => run \notin ToSet(mounts)
    <3>1. status \in {"ok", "failed"} /\ ~stuck => \A i \in 1 .. Len(mounts) : mounts[i] # run
      BY <1>1 DEF cleanup_losetup, At, Stack, Clear
    <3>2. DOMAIN mounts = 1 .. Len(mounts)
      BY LenProperties
    <3> QED BY <3>1 DEF ToSet
  <2>3. LOOP \in {None, run} /\ (LOOP = None => run \notin loops) /\ \A r \in loops : r <= run
    BY <1>1 DEF TypeOK, Detached
  <2> QED BY <2>1, <2>2, <2>3 DEF Detached
<1>10. ImageWhole'
  BY <1>1 DEF cleanup_losetup, ImageWhole, diskVars
<1>11. RootOfOneRun'
  BY <1>1 DEF cleanup_losetup, RootOfOneRun, diskVars
<1>12. BurnedComplete'
  BY <1>1, <1>2 DEF cleanup_losetup, BurnedComplete, Cleaned, diskVars, TypeOK, None
<1> QED BY <1>3, <1>4, <1>5, <1>6, <1>7, <1>8, <1>9, <1>10, <1>11, <1>12 DEF IInv

\* rm -rf through a mount reaches only an image that is not announced.
LEMMA CleanupRmKeeps ==
  ASSUME IInv, cleanup_rm
  PROVE  IInv'
<1>1. /\ TypeOK /\ Control /\ Named /\ Progress /\ Collected /\ Stack /\ Detached
      /\ ImageWhole /\ RootOfOneRun /\ BurnedComplete
  BY DEF IInv
<1>2. /\ run \in Nat /\ MaxRuns \in Nat /\ MaxDay \in Nat /\ (run # None => run \in Runs)
      /\ pc # "idle" /\ run \in Runs
  BY <1>1, MakeImageAssumption DEF TypeOK, Runs, cleanup_rm, At, Control
<1>3. /\ pc = "c_rm" /\ mounts \in Seq(Runs)
      /\ UNCHANGED <<target, run, status, LOOP, name, day, img, parts, root, loops, mounts, device>>
      /\ armed' = FALSE /\ contents' \in {{}, contents} /\ ffs' \in {NoRoot, ffs} /\ stuck' \in {stuck, TRUE}
      /\ IF status = "ok"
         THEN done' = [done EXCEPT ![run] = TRUE] /\ pc' \in {"idle"} \cup After
         ELSE done' = done /\ pc' = "idle"
  BY <1>1 DEF cleanup_rm, At, After, TypeOK
<1>4. /\ esp' \in [Runs -> SUBSET (EspFiles \cup {"fs"})]
      /\ \A r \in Runs : esp'[r] = esp[r] \/ (~done[r] /\ (status = "ok" => r # run))
  <2>1. CASE esp' = esp
    BY <1>1, <2>1 DEF TypeOK
  <2>2. CASE mounts # <<>> /\ esp' = [esp EXCEPT ![Last(mounts)] = @ \cap {"fs"}]
    <3>1. Len(mounts) \in 1 .. Len(mounts) /\ mounts[Len(mounts)] \in Runs
      BY <1>3, <2>2, EmptySeq, LenProperties, ElementOfSeq
    <3>2. ~done[mounts[Len(mounts)]] /\ (status = "ok" => mounts[Len(mounts)] # run)
      BY <1>1, <3>1 DEF Stack, Clear
    <3>3. esp' = [esp EXCEPT ![mounts[Len(mounts)]] = @ \cap {"fs"}]
      BY <2>2 DEF Last
    <3>4. esp \in [Runs -> SUBSET (EspFiles \cup {"fs"})]
      BY <1>1 DEF TypeOK
    <3> QED BY <3>2, <3>3, <3>4
  <2> QED BY <2>1, <2>2 DEF cleanup_rm
<1>5. TypeOK'
  <2>1. NoRoot \in Trees
    BY DEF NoRoot, Trees
  <2>2. /\ done' \in [Runs -> BOOLEAN] /\ stuck' \in BOOLEAN /\ armed' \in BOOLEAN /\ ffs' \in Trees
        /\ contents' \subseteq Pieces
    BY <1>1, <1>3, <2>1 DEF TypeOK
  <2>3. pc' \in Labels
    BY <1>3 DEF Labels, After
  <2> QED BY <1>1, <1>3, <1>4, <2>2, <2>3 DEF TypeOK
<1>6. Control'
  BY <1>1, <1>3 DEF TypeOK, Control, Working, OnLoop, Formatted, Cleaning, After
<1>7. Named'
  BY <1>1, <1>3 DEF TypeOK, Named, Working, OnLoop, Formatted, Cleaning, After, Succeeding
<1>8. Progress'
  BY <1>3 DEF Progress, Formatted, Cleaning, After, Succeeding
<1>9. Collected'
  <2>1. OfOneRun(NoRoot)
    BY DEF OfOneRun, NoRoot
  <2>2. ffs' = NoRoot \/ ffs' = ffs
    BY <1>3
  <2>3. OfOneRun(ffs')
    BY <1>1, <2>1, <2>2 DEF Collected
  <2> QED BY <1>3, <2>3 DEF Collected, After
<1>10. Stack'
  <2>1. /\ \A i \in 1 .. Len(mounts) : mounts[i] \in Runs
        /\ \A i \in 1 .. Len(mounts) : mounts[i] <= run /\ ~done[mounts[i]]
        /\ \A i \in 1 .. Len(mounts) - 1 : mounts[i] # run
    BY <1>1, <1>3, ElementOfSeq DEF Stack
  <2>2. status = "ok" \/ (status = "failed" /\ ~stuck) => \A i \in 1 .. Len(mounts) : mounts[i] # run
    BY <1>1, <1>3 DEF Stack, Clear
  <2>3. status \in {"ok", "failed"}
    BY <1>1, <1>3 DEF Control, Cleaning
  <2>4. Clear' => status = "ok" \/ (status = "failed" /\ ~stuck)
    BY <1>3 DEF Clear, Working, OnLoop, Formatted, After
  <2>5. \A i \in 1 .. Len(mounts) : ~done'[mounts[i]]
    BY <1>1, <1>3, <2>1, <2>2 DEF TypeOK
  <2>6. pc' \notin {"populate", "umount"}
    BY <1>3 DEF After
  <2> QED BY <1>3, <2>1, <2>2, <2>4, <2>5, <2>6 DEF Stack
<1>11. Detached'
  <2>1. /\ \A r \in loops : r <= run
        /\ LOOP = None => run \notin loops
        /\ status \in {"ok", "failed"} /\ ~stuck => run \notin loops
    BY <1>1, <1>3 DEF Detached
  <2>2. stuck' = stuck \/ stuck' = TRUE
    BY <1>3
  <2> QED BY <1>3, <2>1 DEF Detached
<1>12. ImageWhole'
  <2>1. \A r \in Runs : done'[r] => done[r] \/ (r = run /\ status = "ok")
    BY <1>1, <1>3 DEF TypeOK
  <2>2. ASSUME NEW r \in Runs, done[r] \/ (r = run /\ status = "ok")
        PROVE  parts[r] = 3 /\ {"fs"} \cup EspFiles \subseteq esp[r] /\ root[r] # NoRoot
    BY <1>1, <1>3, <2>2 DEF ImageWhole, Progress, Succeeding, Cleaning
  <2>3. \A r \in Runs : done'[r] => esp'[r] = esp[r]
    BY <1>4, <2>1
  <2> QED BY <1>3, <2>1, <2>2, <2>3 DEF ImageWhole
<1>13. RootOfOneRun'
  BY <1>1, <1>3 DEF RootOfOneRun
<1>14. BurnedComplete'
  BY <1>1, <1>2, <1>3 DEF cleanup_rm, BurnedComplete, TypeOK, None
<1> QED BY <1>5, <1>6, <1>7, <1>8, <1>9, <1>10, <1>11, <1>12, <1>13, <1>14 DEF IInv

\* A killed shell runs no trap, and leaves its mount and its loop device.
LEMMA KillKeeps ==
  ASSUME IInv, Kill
  PROVE  IInv'
<1>1. /\ TypeOK /\ Control /\ Named /\ Progress /\ Collected /\ Stack /\ Detached
      /\ ImageWhole /\ RootOfOneRun /\ BurnedComplete
  BY DEF IInv
<1>2. /\ run \in Nat /\ MaxRuns \in Nat /\ MaxDay \in Nat /\ (run # None => run \in Runs)
      /\ pc # "idle" /\ run \in Runs
  BY <1>1, MakeImageAssumption DEF TypeOK, Runs, Kill, Control
<1>3. TypeOK'
  BY <1>1 DEF Kill, Killed, TypeOK, Labels, diskVars, hostVars
<1>4. Control'
  BY DEF Kill, Killed, Control, Working, OnLoop, Formatted, Cleaning, After
<1>5. Named'
  BY <1>1 DEF Kill, Killed, Named, Working, OnLoop, Formatted, After, Succeeding, diskVars
<1>6. Progress'
  BY DEF Kill, Killed, Progress, Formatted, Succeeding
<1>7. Collected'
  BY <1>1 DEF Kill, Killed, Collected, hostVars
<1>8. Stack'
  BY <1>1 DEF Kill, Killed, Stack, Clear, Working, OnLoop, Formatted, After, diskVars, hostVars
<1>9. Detached'
  BY <1>1 DEF Kill, Killed, Detached, hostVars
<1>10. ImageWhole'
  BY <1>1 DEF Kill, ImageWhole, diskVars
<1>11. RootOfOneRun'
  BY <1>1 DEF Kill, RootOfOneRun, diskVars
<1>12. BurnedComplete'
  BY <1>1, <1>2 DEF Kill, BurnedComplete, Killed, diskVars, hostVars
<1> QED BY <1>3, <1>4, <1>5, <1>6, <1>7, <1>8, <1>9, <1>10, <1>11, <1>12 DEF IInv

\* The newest image is the one the run has just announced, or one left on a
\* loop device.
LEMMA BurnKeeps ==
  ASSUME IInv, burn
  PROVE  IInv'
<1>1. /\ TypeOK /\ Control /\ Named /\ Progress /\ Collected /\ Stack /\ Detached
      /\ ImageWhole /\ RootOfOneRun /\ BurnedComplete
  BY DEF IInv
<1>2. /\ run \in Nat /\ MaxRuns \in Nat /\ MaxDay \in Nat /\ (run # None => run \in Runs)
      /\ pc # "idle" /\ run \in Runs
  BY <1>1, MakeImageAssumption DEF TypeOK, Runs, burn, At, Control
<1>3. /\ pc = "burn" /\ UNCHANGED <<day, diskVars, hostVars>> /\ (Goto("idle") \/ Die)
      /\ device' = device \/ device' \in Newest
  BY DEF burn, At
<1>4. \A r \in loops : r \in Runs /\ r <= run
  BY <1>1 DEF Detached, TypeOK
<1>5. device' = device \/ device' = run \/ (device' \in loops /\ device' \in Runs /\ device' < run)
  BY <1>2, <1>3, <1>4 DEF Newest, Runs
<1>6. TypeOK'
  BY <1>1, <1>3, <1>5 DEF Goto, Die, TypeOK, Labels, procVars, diskVars, hostVars
<1>7. Control'
  BY <1>1, <1>3 DEF Goto, Die, Control, Working, OnLoop, Formatted, Cleaning, After
<1>8. Named'
  BY <1>1, <1>3 DEF Goto, Die, Named, After, procVars, diskVars
<1>9. Progress'
  BY <1>3 DEF Goto, Die, Progress, Formatted, Cleaning, Succeeding
<1>10. Collected'
  BY <1>1, <1>3 DEF Goto, Die, Collected, hostVars
<1>11. Stack'
  BY <1>1, <1>3 DEF Goto, Die, Control, Stack, After, procVars, diskVars, hostVars
<1>12. Detached'
  BY <1>1, <1>3 DEF Goto, Die, Control, Detached, After, procVars, hostVars
<1>13. ImageWhole'
  BY <1>1, <1>3 DEF ImageWhole, diskVars
<1>14. RootOfOneRun'
  BY <1>1, <1>3 DEF RootOfOneRun, diskVars
<1>15. BurnedComplete'
  BY <1>1, <1>3, <1>5 DEF Goto, Die, BurnedComplete, Control, After, procVars, diskVars, hostVars
<1> QED BY <1>6, <1>7, <1>8, <1>9, <1>10, <1>11, <1>12, <1>13, <1>14, <1>15 DEF IInv

\* make test-qemu changes no image.
LEMMA TestQemuKeeps ==
  ASSUME IInv, test_qemu
  PROVE  IInv'
<1>1. /\ TypeOK /\ Control /\ Named /\ Progress /\ Collected /\ Stack /\ Detached
      /\ ImageWhole /\ RootOfOneRun /\ BurnedComplete
  BY DEF IInv
<1>2. /\ run \in Nat /\ MaxRuns \in Nat /\ MaxDay \in Nat /\ (run # None => run \in Runs)
      /\ pc # "idle" /\ run \in Runs
  BY <1>1, MakeImageAssumption DEF TypeOK, Runs, test_qemu, At, Control
<1>3. TypeOK'
  BY <1>1 DEF test_qemu, Goto, Die, TypeOK, Labels, procVars, diskVars, hostVars
<1>4. Control'
  BY <1>1 DEF test_qemu, At, Goto, Die, Control, Working, OnLoop, Formatted, Cleaning, After
<1>5. Named'
  BY <1>1 DEF test_qemu, At, Goto, Die, Named, After, procVars, diskVars
<1>6. Progress'
  BY DEF test_qemu, Goto, Die, Progress, Formatted, Cleaning, Succeeding
<1>7. Collected'
  BY <1>1 DEF test_qemu, Goto, Die, Collected, hostVars
<1>8. Stack'
  BY <1>1 DEF test_qemu, At, Goto, Die, Stack, Clear, After, procVars, diskVars, hostVars
<1>9. Detached'
  BY <1>1 DEF test_qemu, At, Goto, Die, Control, Detached, After, procVars, hostVars
<1>10. ImageWhole'
  BY <1>1 DEF test_qemu, ImageWhole, diskVars
<1>11. RootOfOneRun'
  BY <1>1 DEF test_qemu, RootOfOneRun, diskVars
<1>12. BurnedComplete'
  BY <1>1, <1>2 DEF test_qemu, BurnedComplete, Goto, Die, diskVars, hostVars, procVars
<1> QED BY <1>3, <1>4, <1>5, <1>6, <1>7, <1>8, <1>9, <1>10, <1>11, <1>12 DEF IInv

-----------------------------------------------------------------------------
(* The theorems                                                            *)

\* No run yet, no image, nothing attached.
LEMMA InitIInv == Init => IInv
<1> SUFFICES ASSUME Init PROVE IInv  OBVIOUS
<1>1. MaxRuns \in Nat /\ MaxDay \in Nat \ {0} /\ 1 \in 1 .. MaxDay
  BY MakeImageAssumption
<1>2. NoRoot \in Trees /\ OfOneRun(NoRoot)
  BY DEF NoRoot, Trees, OfOneRun
<1>3. mounts = <<>> /\ mounts \in Seq(Runs) /\ Len(mounts) = 0
  BY EmptySeq DEF Init
<1>4. TypeOK
  <2>1. /\ pc \in Labels /\ target \in {"image", "burn", "test-qemu"} /\ run \in Runs \cup {None}
        /\ status \in {"none", "ok", "failed", "killed"} /\ armed \in BOOLEAN /\ stuck \in BOOLEAN
        /\ LOOP \in {None, run} /\ day \in 1 .. MaxDay /\ name \in 1 .. MaxDay
    BY <1>1 DEF Init, Labels, None
  <2>2. /\ img \in [1 .. MaxDay -> Runs \cup {None}] /\ parts \in [Runs -> 0 .. 3]
        /\ done \in [Runs -> BOOLEAN]
    BY DEF Init
  <2>3. esp \in [Runs -> SUBSET (EspFiles \cup {"fs"})] /\ root \in [Runs -> Trees]
    BY <1>2 DEF Init
  <2>4. loops \subseteq Runs /\ contents \subseteq Pieces /\ ffs \in Trees /\ device \in Runs \cup {None}
    BY <1>2 DEF Init
  <2> QED BY <1>3, <2>1, <2>2, <2>3, <2>4 DEF TypeOK
<1>5. Control /\ Progress /\ Detached
  BY DEF Init, Control, Progress, Detached, Working, OnLoop, Formatted, Cleaning, After, Succeeding
<1>6. Named
  BY <1>1 DEF Init, Named, None
<1>7. Collected /\ RootOfOneRun
  BY <1>2 DEF Init, Collected, RootOfOneRun, OfOneRun
<1>8. Stack
  BY DEF Init, Stack
<1>9. ImageWhole /\ BurnedComplete
  BY DEF Init, ImageWhole, BurnedComplete
<1> QED BY <1>4, <1>5, <1>6, <1>7, <1>8, <1>9 DEF IInv

\* A step that changes nothing keeps IInv.
LEMMA StutterKeeps == IInv /\ UNCHANGED vars => IInv'
<1> SUFFICES ASSUME IInv, UNCHANGED vars PROVE IInv'  OBVIOUS
<1>1. UNCHANGED <<pc, target, run, status, armed, stuck, LOOP, name, day, img, parts, esp, root, done,
                  loops, mounts, contents, ffs, device>>
  BY DEF vars, procVars, diskVars, hostVars
<1>2. TypeOK' /\ Control' /\ Named' /\ Progress'
  BY <1>1 DEF IInv, TypeOK, Control, Named, Progress, Succeeding
<1>3. Collected' /\ Stack' /\ Detached'
  BY <1>1 DEF IInv, Collected, Stack, Clear, Detached
<1>4. ImageWhole' /\ RootOfOneRun' /\ BurnedComplete'
  BY <1>1 DEF IInv, ImageWhole, RootOfOneRun, BurnedComplete
<1> QED BY <1>2, <1>3, <1>4 DEF IInv

\* Every command keeps IInv.
LEMMA NextIInv == IInv /\ [Next]_vars => IInv'
BY MidnightKeeps, MakeImageKeeps, CreateKeeps, LosetupKeeps, SgdiskKeeps, FormatEspKeeps,
   MountEspKeeps, PopulateEspKeeps, UmountEspKeeps, CollectKeeps, MakefsKeeps, WriteRootKeeps,
   CleanupUmountKeeps, CleanupLosetupKeeps, CleanupRmKeeps, KillKeeps, BurnKeeps, TestQemuKeeps,
   StutterKeeps DEF Next, Script

\* The invariant holds at every command of every run of 06-make-image.sh.
THEOREM Inductive == Spec => []IInv
BY InitIInv, NextIInv, PTL DEF Spec

\* The image has room for its partitions, and a run that ends by itself gives
\* its loop device and its mount back unless its cleanup failed
\* (06-make-image.sh, sgdisk and cleanup).
THEOREM MakeImageCorrect == Spec => []MakeImageInv
<1>1. IInv => PartitionsFit
  <2> SUFFICES ASSUME IInv, At("sgdisk"), parts[LOOP] < 3 PROVE Fits(parts[LOOP] + 1)
    BY DEF PartitionsFit
  <2>1. LOOP \in Runs
    BY DEF IInv, TypeOK, Control, At, OnLoop
  <2>2. parts[LOOP] \in 0 .. 3
    BY <2>1 DEF IInv, TypeOK
  <2> QED BY DEF Fits, End, TOTAL_SIZE, ESP_SIZE, ROOT_SIZE, SWAP_SIZE
<1>2. IInv => NoLeak
  <2> SUFFICES ASSUME IInv, At("idle"), status \in {"ok", "failed"}, ~stuck
               PROVE  run \notin loops /\ run \notin ToSet(mounts)
    BY DEF NoLeak
  <2>1. run \notin loops
    BY DEF IInv, Detached, At
  <2>2. \A i \in 1 .. Len(mounts) : mounts[i] # run
    BY DEF IInv, Stack, Clear, At
  <2>3. DOMAIN mounts = 1 .. Len(mounts)
    BY LenProperties DEF IInv
  <2> QED BY <2>1, <2>2 DEF ToSet
<1>3. IInv => MakeImageInv
  BY <1>1, <1>2 DEF IInv, MakeImageInv
<1> QED BY <1>3, Inductive, PTL

\* An announced image is whole, whatever failed or was killed in this and in
\* earlier runs (06-make-image.sh from sgdisk to dd, and cleanup).
THEOREM AnnouncedIsWhole == Spec => []ImageWhole
<1>1. IInv => ImageWhole
  BY DEF IInv
<1> QED BY <1>1, Inductive, PTL

\* No root mixes the files of two runs (06-make-image.sh, /tmp/st-root-contents).
THEOREM NoMixedRoot == Spec => []RootOfOneRun
<1>1. IInv => RootOfOneRun
  BY DEF IInv
<1> QED BY <1>1, Inductive, PTL

\* make burn writes only announced images, and images still on a loop device
\* (Makefile, burn).
THEOREM BurnsAnnounced == Spec => []BurnedComplete
<1>1. IInv => BurnedComplete
  BY DEF IInv
<1> QED BY <1>1, Inductive, PTL

-----------------------------------------------------------------------------
(* What a step leaves alone                                                *)

Kept(r) == /\ parts'[r] = parts[r] /\ root'[r] = root[r] /\ done'[r] = done[r]
           /\ esp'[r] # esp[r] => At("c_rm") /\ ~done[r]

\* A step changes no other run's image, but for the rm -rf of a cleanup.
LEMMA StepKeepsOthers ==
  ASSUME IInv, [Next]_vars, NEW r \in Runs, r # run
  PROVE  Kept(r)
<1>1. TypeOK /\ Control /\ Stack /\ run \in Nat
  BY MakeImageAssumption DEF IInv, TypeOK, Runs, None
<1>2. pc \in OnLoop => LOOP = run
  BY <1>1 DEF Control
<1>3. CASE UNCHANGED diskVars
  BY <1>3 DEF diskVars, Kept
<1>4. CASE create
  BY <1>4 DEF create, Kept
<1>5. CASE sgdisk
  BY <1>1, <1>2, <1>5 DEF sgdisk, At, Set, OnLoop, Kept, TypeOK
<1>6. CASE format_esp
  BY <1>1, <1>2, <1>6 DEF format_esp, At, Set, OnLoop, Kept, TypeOK
<1>7. CASE populate_esp
  <2>1. mounts[Len(mounts)] = run
    BY <1>1, <1>7 DEF populate_esp, At, Stack
  <2> QED BY <1>7, <2>1 DEF populate_esp, Last, Kept
<1>8. CASE write_root
  BY <1>1, <1>2, <1>8 DEF write_root, At, Set, OnLoop, Formatted, Kept, TypeOK
<1>9. CASE cleanup_rm
  <2>1. done'[r] = done[r] /\ parts' = parts /\ root' = root /\ At("c_rm")
    BY <1>1, <1>9 DEF cleanup_rm, TypeOK
  <2>2. esp'[r] # esp[r] => ~done[r]
    <3> SUFFICES ASSUME esp'[r] # esp[r] PROVE ~done[r]  OBVIOUS
    <3>1. mounts # <<>> /\ esp' = [esp EXCEPT ![mounts[Len(mounts)]] = @ \cap {"fs"}]
      BY <1>9 DEF cleanup_rm, Last
    <3>2. r = mounts[Len(mounts)]
      BY <3>1
    <3>3. Len(mounts) \in 1 .. Len(mounts)
      BY <3>1, EmptySeq
    <3> QED BY <1>1, <3>2, <3>3 DEF Stack
  <2> QED BY <2>1, <2>2 DEF Kept
<1>10. midnight \/ make_image \/ losetup \/ mount_esp \/ umount_esp \/ collect \/ makefs
         \/ cleanup_umount \/ cleanup_losetup \/ Kill \/ burn \/ test_qemu \/ UNCHANGED vars
       => UNCHANGED diskVars
  BY DEF midnight, make_image, losetup, mount_esp, umount_esp, collect, makefs, cleanup_umount,
     cleanup_losetup, Kill, burn, test_qemu, vars
<1> QED BY <1>3, <1>4, <1>5, <1>6, <1>7, <1>8, <1>9, <1>10 DEF Next, Script

\* A step writes to no image of another run; only the rm -rf of a cleanup may,
\* and never to one that was announced (06-make-image.sh, cleanup).
THEOREM OthersAreKept == Spec => OthersKept
<1>1. IInv /\ [Next]_vars =>
        [\A r \in Runs \ {run} :
           /\ parts'[r] = parts[r] /\ root'[r] = root[r] /\ done'[r] = done[r]
           /\ esp'[r] # esp[r] => At("c_rm") /\ ~done[r]]_vars
  BY StepKeepsOthers DEF Kept
<1> QED BY <1>1, Inductive, PTL DEF Spec, OthersKept

=============================================================================
