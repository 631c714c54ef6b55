--------------------------- MODULE InstallerProofs ---------------------------
(***************************************************************************)
(* Proofs about Installer, for any disks, sizes, live files and number of  *)
(* runs: InstallerInv is inductive, and with it the safety invariants and  *)
(* the action properties of the runs hold.                                 *)
(***************************************************************************)
EXTENDS Installer, SequenceTheorems, TLAPS

-----------------------------------------------------------------------------
(* Mount stacks.                                                           *)

\* Mounting over a stack puts the device on top and adds only it.
LEMMA StackAppend ==
  ASSUME NEW S, NEW s \in Seq(S), NEW e \in S
  PROVE  /\ Append(s, e) \in Seq(S) /\ Append(s, e) # <<>>
         /\ Last(Append(s, e)) = e
         /\ ToSet(Append(s, e)) = ToSet(s) \cup {e}
BY DEF Last, ToSet

\* The top of a stack is mounted, and unmounting it adds nothing.
LEMMA StackPop ==
  ASSUME NEW S, NEW s \in Seq(S), s # <<>>
  PROVE  /\ Front(s) \in Seq(S) /\ ToSet(Front(s)) \subseteq ToSet(s)
         /\ Last(s) \in S /\ Last(s) \in ToSet(s)
<1> DEFINE n == Len(s) - 1
<1>0. Len(s) \in Nat /\ Len(s) # 0
  OBVIOUS
<1>1. n \in 0..Len(s) /\ Len(s) \in 1..Len(s) /\ n = Len(s) - 1
  BY <1>0
<1> HIDE DEF n
<1>2. SubSeq(s, 1, n) \in Seq(S) /\ Len(SubSeq(s, 1, n)) = n
  BY <1>1
<1>3. \A i \in 1..n : SubSeq(s, 1, n)[i] = s[i]
  BY <1>1
<1>4. ToSet(SubSeq(s, 1, n)) \subseteq ToSet(s)
  BY <1>1, <1>2, <1>3 DEF ToSet
<1>5. Front(s) = SubSeq(s, 1, n)
  BY <1>1 DEF Front
<1>6. Last(s) \in S /\ Last(s) \in ToSet(s)
  BY <1>1 DEF Last, ToSet
<1> QED BY <1>2, <1>4, <1>5, <1>6

\* Nothing is on an empty stack.
LEMMA EmptyStack == <<>> \in Seq(Disks) /\ ToSet(<<>>) = {}
BY DEF ToSet

-----------------------------------------------------------------------------
(* What several actions share.                                             *)

USE DEF At, Goto, Exit, vars, runVars, tableVars, fileVars, mountVars

\* A run that ends early leaves the invariant true wherever it stands.
LEMMA RunEnds ==
  ASSUME InstallerInv, pc # "idle", NEW how \in {"failed", "killed"}, Exit(how),
         UNCHANGED <<tableVars, fileVars, mountVars, echo, confirmed>>
  PROVE  InstallerInv'

<1> USE DEF InstallerInv
<1>1. TypeOK'
  BY DEF TypeOK, RunTypes, TableTypes, FileTypes, MountTypes, Labels, Results
<1>2. ConfirmedTargets'
  BY DEF TypeOK, MountTypes, ConfirmedTargets
<1>3. TargetOnTop'
  BY DEF TargetOnTop, RootMounted, EspMounted
<1>4. Progress'
  BY DEF Progress, Partitioned, PastNewfs, PastFstab, PastNames, PastPrompts, RootMounted, RootMounted, EspMounted, PastNewfs, PastFstab, PastNames, PastPrompts
<1>5. OnlyConfirmedTouched'
  BY DEF ConfirmedTargets, OnlyConfirmedTouched, Untouched
<1>6. LiveSystemUntouched'
  BY DEF LiveSystemUntouched
<1>7. CompletedRun'
  BY DEF CompletedRun, Progress, Partitioned
<1> QED BY <1>1, <1>2, <1>3, <1>4, <1>5, <1>6, <1>7

\* Between mount and umount a file written below /mnt/install-target goes to
\* the target disk.
LEMMA WriteRootEffect ==
  ASSUME InstallerInv, pc \in RootMounted, NEW files \in SUBSET RootFiles,
         WriteRoot(files)
  PROVE  /\ target \in Disks /\ target \in confirmed
         /\ rootfile' = [rootfile EXCEPT ![target] = @ \cup files]
         /\ rootfile' \in [Disks -> SUBSET RootFiles]
         /\ live' = live
<1>1. mnt # <<>> /\ Last(mnt) = target
  BY DEF InstallerInv, TargetOnTop
<1>2. target \in Disks
  BY DEF InstallerInv, Progress, Partitioned, PastNewfs
<1>3. target \in confirmed
  BY DEF InstallerInv, ConfirmedTargets, RootMounted
<1>4. rootfile \in [Disks -> SUBSET RootFiles]
  BY DEF InstallerInv, TypeOK, FileTypes
<1> QED BY <1>1, <1>2, <1>3, <1>4 DEF WriteRoot

\* The same for /mnt/install-esp.
LEMMA WriteEspEffect ==
  ASSUME InstallerInv, pc \in EspMounted, NEW files \in SUBSET EspFiles,
         WriteEsp(files)
  PROVE  /\ target \in Disks /\ target \in confirmed
         /\ espfile' = [espfile EXCEPT ![target] = @ \cup files]
         /\ espfile' \in [Disks -> SUBSET EspFiles]
         /\ live' = live
<1>1. esp # <<>> /\ Last(esp) = target
  BY DEF InstallerInv, TargetOnTop
<1>2. target \in Disks
  BY DEF InstallerInv, Progress, Partitioned, PastNewfs, EspMounted, RootMounted
<1>3. target \in confirmed
  BY DEF InstallerInv, ConfirmedTargets, EspMounted
<1>4. espfile \in [Disks -> SUBSET EspFiles]
  BY DEF InstallerInv, TypeOK, FileTypes
<1> QED BY <1>1, <1>2, <1>3, <1>4 DEF WriteEsp

\* gpt add appends one partition to the target's table and takes its space.
LEMMA AddEffect ==
  ASSUME TypeOK, NEW label \in {"EFI", "STAR_TALK", "SWAP"}, NEW mb \in Int,
         AddPartition(label, mb)
  PROVE  /\ TableTypes'
         /\ target \in Disks /\ table[target] = "gpt" /\ table' = table
         /\ parts'[target] = Append(parts[target], label)
         /\ Len(parts'[target]) = Len(parts[target]) + 1 /\ Len(parts[target]) \in Nat
         /\ \A d \in Disks \ {target} : parts'[d] = parts[d]
<1>1. target \in Disks /\ table[target] = "gpt" /\ 0 < mb /\ mb <= free[target]
  BY DEF AddPartition, CanAdd
<1>2. /\ parts[target] \in Seq({"EFI", "STAR_TALK", "SWAP"}) /\ free[target] \in Nat
      /\ free[target] - mb \in Nat
  BY <1>1 DEF TypeOK, TableTypes
<1>3. /\ Append(parts[target], label) \in Seq({"EFI", "STAR_TALK", "SWAP"})
      /\ Len(Append(parts[target], label)) = Len(parts[target]) + 1
      /\ Len(parts[target]) \in Nat
  BY <1>2
<1> QED BY <1>1, <1>2, <1>3 DEF AddPartition, TypeOK, TableTypes

\* Sequences of partitions, element by element.
LEMMA AppendToOne ==
  ASSUME NEW a, NEW b
  PROVE  Append(<<a>>, b) = <<a, b>>
<1> DEFINE s == <<a>>   t == <<a, b>>   u == Append(s, b)   S == {a, b}
<1>1. s \in Seq(S) /\ b \in S
  OBVIOUS
<1>2. Len(s) = 1 /\ s[1] = a
  OBVIOUS
<1>3. t \in Seq(S) /\ Len(t) = 2 /\ t[1] = a /\ t[2] = b
  OBVIOUS
<1> HIDE DEF s, t, S
<1>4. /\ u \in Seq(S) /\ Len(u) = Len(s) + 1
      /\ \A i \in 1..Len(s) : u[i] = s[i]
      /\ u[Len(s) + 1] = b
  BY <1>1, AppendProperties
<1> HIDE DEF u
<1>5. Len(u) = 2 /\ u[1] = a /\ u[2] = b
  BY <1>2, <1>4
<1>6. \A i \in 1..Len(t) : t[i] = u[i]
  BY <1>3, <1>5
<1>7. t = u
  BY <1>3, <1>4, <1>5, <1>6, SeqEqual
<1> QED BY <1>7 DEF s, t, u

\* The same with two partitions before the new one.
LEMMA AppendToTwo ==
  ASSUME NEW a, NEW b, NEW c
  PROVE  Append(<<a, b>>, c) = <<a, b, c>>
<1> DEFINE s == <<a, b>>   t == <<a, b, c>>   u == Append(s, c)   S == {a, b, c}
<1>1. s \in Seq(S) /\ c \in S
  OBVIOUS
<1>2. Len(s) = 2 /\ s[1] = a /\ s[2] = b
  OBVIOUS
<1>3. t \in Seq(S) /\ Len(t) = 3 /\ t[1] = a /\ t[2] = b /\ t[3] = c
  OBVIOUS
<1> HIDE DEF s, t, S
<1>4. /\ u \in Seq(S) /\ Len(u) = Len(s) + 1
      /\ \A i \in 1..Len(s) : u[i] = s[i]
      /\ u[Len(s) + 1] = c
  BY <1>1, AppendProperties
<1> HIDE DEF u
<1>5. Len(u) = 3 /\ u[1] = a /\ u[2] = b /\ u[3] = c
  BY <1>2, <1>4
<1>6. \A i \in 1..Len(t) : t[i] = u[i]
  BY <1>3, <1>5
<1>7. t = u
  BY <1>3, <1>4, <1>5, <1>6, SeqEqual
<1> QED BY <1>7 DEF s, t, u

-----------------------------------------------------------------------------
(* One lemma per action.                                                   *)

\* A new run forgets the old target; what the old run mounted stays mounted.
LEMMA Keeps_main == InstallerInv /\ main => InstallerInv'
<1> SUFFICES ASSUME InstallerInv, main PROVE InstallerInv'
  OBVIOUS
<1> USE DEF InstallerInv
<1>1. RunTypes' /\ TableTypes' /\ FileTypes' /\ MountTypes'
  <2>1. runs' \in Nat
    BY DEF TypeOK, RunTypes, main
  <2>2. pc' \in Labels /\ last' \in Results
    BY DEF Labels, Results, main
  <2>3. target' = NoTarget /\ total_mb' \in Int
    BY DEF main
  <2>4. fresh_gpt' \in BOOLEAN
    BY DEF main
  <2> QED BY <2>1, <2>2, <2>3, <2>4 DEF TypeOK, RunTypes, TableTypes, FileTypes, MountTypes, main
<1>2. TypeOK'
  BY <1>1 DEF TypeOK
<1>3. ConfirmedTargets' /\ TargetOnTop'
  BY DEF ConfirmedTargets, TargetOnTop, RootMounted, EspMounted, main
<1>4. Progress'
  BY DEF Progress, Partitioned, RootMounted, EspMounted, PastNewfs, PastFstab,
      PastNames, PastPrompts, main
<1>5. OnlyConfirmedTouched' /\ LiveSystemUntouched' /\ CompletedRun'
  BY DEF ConfirmedTargets, Progress, Partitioned, OnlyConfirmedTouched,
      Untouched, LiveSystemUntouched, CompletedRun, PastNewfs, RootMounted,
      main
<1> QED BY <1>2, <1>3, <1>4, <1>5 DEF InstallerInv

\* Only a YES leads on, and it records the answer.
LEMMA Keeps_select_disk == InstallerInv /\ select_disk => InstallerInv'
<1> SUFFICES ASSUME InstallerInv, select_disk PROVE InstallerInv'
  OBVIOUS
<1> USE DEF InstallerInv
<1>1. CASE Errexit(Disks # {})
  BY <1>1, RunEnds DEF Errexit, select_disk
<1>2. ASSUME NEW disk \in Disks \cup OtherNodes, target' = disk, At("select"),
             \/ pc' = "idle" /\ last' = "cancelled" /\ UNCHANGED confirmed
             \/ pc' = "clear" /\ confirmed' = confirmed \cup {disk} /\ UNCHANGED last,
             UNCHANGED <<runs, total_mb, fresh_gpt, tableVars, fileVars, mountVars, echo>>
      PROVE  InstallerInv'
  <2>1. TypeOK'
    BY <1>2 DEF TypeOK, RunTypes, TableTypes, FileTypes, MountTypes, Labels,
        Results
  <2>2. ConfirmedTargets' /\ TargetOnTop'
    BY <1>2 DEF ConfirmedTargets, TargetOnTop, RootMounted, EspMounted
  <2>3. Progress'
    BY <1>2 DEF Progress, Partitioned, RootMounted, EspMounted, PastNewfs,
        PastFstab, PastNames, PastPrompts
  <2>4. OnlyConfirmedTouched' /\ LiveSystemUntouched' /\ CompletedRun'
    BY <1>2 DEF ConfirmedTargets, Progress, Partitioned, OnlyConfirmedTouched,
        Untouched, LiveSystemUntouched, CompletedRun, PastNewfs, RootMounted
  <2> QED BY <2>1, <2>2, <2>3, <2>4 DEF InstallerInv
<1> QED BY <1>1, <1>2 DEF select_disk

\* The first megabyte is zeroed, on the confirmed target.
LEMMA Keeps_clear_headers == InstallerInv /\ clear_headers => InstallerInv'
<1> SUFFICES ASSUME InstallerInv, clear_headers PROVE InstallerInv'
  OBVIOUS
<1> USE DEF InstallerInv
<1>1. total_mb' \in Int /\ TableTypes'
  <2>1. total_mb' \in Int
    BY InstallerAssumption DEF clear_headers
  <2>2. TableTypes'
    <3>1. CASE UNCHANGED tableVars
      BY <3>1 DEF TypeOK, TableTypes
    <3>2. CASE /\ table' = [table EXCEPT ![target] = "blank"]
               /\ parts' = [parts EXCEPT ![target] = <<>>]
               /\ free'  = [free EXCEPT ![target] = 0]
      <4>1. <<>> \in Seq({"EFI", "STAR_TALK", "SWAP"}) /\ 0 \in Nat
        OBVIOUS
      <4> QED BY <3>2, <4>1 DEF TypeOK, TableTypes
    <3> QED BY <3>1, <3>2 DEF clear_headers
  <2> QED BY <2>1, <2>2
<1>2. target \in confirmed /\ last' # "complete" /\ UNCHANGED <<fileVars, mountVars, confirmed>>
  BY DEF ConfirmedTargets, Progress, clear_headers
<1>3. \A d \in Disks : d # target => table'[d] = table[d] /\ parts'[d] = parts[d]
  BY DEF TypeOK, TableTypes, clear_headers
<1>4. TypeOK'
  BY <1>1 DEF TypeOK, RunTypes, TableTypes, FileTypes, MountTypes, Labels,
      Results, clear_headers
<1>5. ConfirmedTargets' /\ TargetOnTop'
  BY DEF ConfirmedTargets, TargetOnTop, RootMounted, EspMounted, clear_headers
<1>6. Progress'
  BY DEF Progress, Partitioned, RootMounted, EspMounted, PastNewfs, PastFstab,
      PastNames, PastPrompts, clear_headers
<1>7. OnlyConfirmedTouched' /\ LiveSystemUntouched' /\ CompletedRun'
  BY <1>2, <1>3 DEF ConfirmedTargets, Progress, Partitioned,
      OnlyConfirmedTouched, Untouched, LiveSystemUntouched, CompletedRun,
      PastNewfs, RootMounted, clear_headers
<1> QED BY <1>4, <1>5, <1>6, <1>7 DEF InstallerInv

\* A fresh table has no partition; without one fresh_gpt stays FALSE.
LEMMA Keeps_gpt_create == InstallerInv /\ gpt_create => InstallerInv'
<1> SUFFICES ASSUME InstallerInv, gpt_create PROVE InstallerInv'
  OBVIOUS
<1> USE DEF InstallerInv
<1>1. ASSUME target \in Disks, GptMb <= DiskMb[target], At("gpt_create"),
             table' = [table EXCEPT ![target] = "gpt"],
             parts' = [parts EXCEPT ![target] = <<>>],
             free'  = [free EXCEPT ![target] = DiskMb[target] - GptMb],
             pc' = "add_efi", fresh_gpt' = TRUE,
             UNCHANGED <<runs, last, target, total_mb, fileVars, mountVars, echo, confirmed>>
      PROVE  InstallerInv'
  <2>0. DiskMb[target] - GptMb \in Nat
    BY <1>1, InstallerAssumption DEF GptMb
  <2>1. parts'[target] = <<>>
    BY <1>1 DEF TypeOK, TableTypes
  <2>2. TypeOK'
    BY <1>1, <2>0 DEF TypeOK, RunTypes, TableTypes, FileTypes, MountTypes,
        Labels, Results
  <2>3. ConfirmedTargets' /\ TargetOnTop'
    BY <1>1, <2>0 DEF ConfirmedTargets, TargetOnTop, RootMounted, EspMounted
  <2>4. Progress'
    BY <1>1, <2>1 DEF Progress, Partitioned, RootMounted, EspMounted,
        PastNewfs, PastFstab, PastNames, PastPrompts
  <2>5. OnlyConfirmedTouched' /\ LiveSystemUntouched' /\ CompletedRun'
    BY <1>1, <2>0 DEF ConfirmedTargets, Progress, Partitioned,
        OnlyConfirmedTouched, Untouched, LiveSystemUntouched, CompletedRun,
        PastNewfs, RootMounted
  <2> QED BY <2>2, <2>3, <2>4, <2>5 DEF InstallerInv
<1>2. ASSUME NEW left \in {"blank", "mbr"}, target \in Disks, At("gpt_create"),
             table' = [table EXCEPT ![target] = left],
             parts' = [parts EXCEPT ![target] = <<>>],
             free'  = [free EXCEPT ![target] = 0],
             Goto("add_efi"), UNCHANGED <<fileVars, mountVars, echo, confirmed>>
      PROVE  InstallerInv'
  <2>1. TypeOK'
    BY <1>2 DEF TypeOK, RunTypes, TableTypes, FileTypes, MountTypes, Labels,
        Results
  <2>2. ConfirmedTargets' /\ TargetOnTop'
    BY <1>2 DEF ConfirmedTargets, TargetOnTop, RootMounted, EspMounted
  <2>3. Progress'
    BY <1>2 DEF Progress, Partitioned, RootMounted, EspMounted, PastNewfs,
        PastFstab, PastNames, PastPrompts
  <2>4. OnlyConfirmedTouched' /\ LiveSystemUntouched' /\ CompletedRun'
    BY <1>2 DEF ConfirmedTargets, Progress, Partitioned, OnlyConfirmedTouched,
        Untouched, LiveSystemUntouched, CompletedRun, PastNewfs, RootMounted
  <2> QED BY <2>1, <2>2, <2>3, <2>4 DEF InstallerInv
<1>3. ASSUME At("gpt_create"),
             Ignored(target \in Disks /\ GptMb <= DiskMb[target], "add_efi")
      PROVE  InstallerInv'
  <2>1. TypeOK'
    BY <1>3 DEF TypeOK, RunTypes, TableTypes, FileTypes, MountTypes, Labels,
        Results, Ignored
  <2>2. ConfirmedTargets' /\ TargetOnTop'
    BY <1>3 DEF ConfirmedTargets, TargetOnTop, RootMounted, EspMounted,
        Ignored
  <2>3. Progress'
    BY <1>3 DEF Progress, Partitioned, RootMounted, EspMounted, PastNewfs,
        PastFstab, PastNames, PastPrompts, Ignored
  <2>4. OnlyConfirmedTouched' /\ LiveSystemUntouched' /\ CompletedRun'
    BY <1>3 DEF ConfirmedTargets, Progress, Partitioned, OnlyConfirmedTouched,
        Untouched, LiveSystemUntouched, CompletedRun, PastNewfs, RootMounted,
        Ignored
  <2> QED BY <2>1, <2>2, <2>3, <2>4 DEF InstallerInv
<1> QED BY <1>1, <1>2, <1>3 DEF gpt_create

\* The first partition; without a GPT the run ends here.
LEMMA Keeps_add_efi == InstallerInv /\ add_efi => InstallerInv'
<1> SUFFICES ASSUME InstallerInv, add_efi PROVE InstallerInv'
  OBVIOUS
<1> USE DEF InstallerInv
<1>1. CASE Errexit(CanAdd(efi_mb))
  BY <1>1, RunEnds DEF Errexit, add_efi
<1>2. ASSUME NEW mb \in Int, AddPartition("EFI", mb), At("add_efi"), Goto("add_root"),
             UNCHANGED <<fileVars, mountVars, echo, confirmed>>
      PROVE  InstallerInv'
  <2>1. /\ TableTypes'
        /\ target \in Disks /\ table[target] = "gpt" /\ table' = table
        /\ parts'[target] = Append(parts[target], "EFI")
        /\ Len(parts'[target]) = Len(parts[target]) + 1 /\ Len(parts[target]) \in Nat
        /\ \A d \in Disks \ {target} : parts'[d] = parts[d]
    BY <1>2, AddEffect
  <2>2. Append(<<>>, "EFI") = <<"EFI">>
    OBVIOUS
  <2>3. Partitioned(1, <<"EFI">>)'
    <3>1. Len(parts[target]) >= 0 /\ (fresh_gpt => parts[target] = <<>>)
      BY <1>2, <2>1 DEF Progress, Partitioned
    <3>2. fresh_gpt => parts'[target] = <<"EFI">>
      BY <2>1, <2>2, <3>1, Zenon
    <3> QED BY <1>2, <2>1, <3>1, <3>2 DEF Partitioned
  <2>4. TypeOK'
    BY <1>2, <2>1 DEF TypeOK, RunTypes, TableTypes, FileTypes, MountTypes,
        Labels, Results
  <2>5. ConfirmedTargets' /\ TargetOnTop'
    BY <1>2, <2>1 DEF ConfirmedTargets, TargetOnTop, RootMounted, EspMounted
  <2>6. Progress'
    BY <1>2, <2>3 DEF Progress, Partitioned, RootMounted, EspMounted,
        PastNewfs, PastFstab, PastNames, PastPrompts
  <2>7. OnlyConfirmedTouched' /\ LiveSystemUntouched' /\ CompletedRun'
    BY <1>2, <2>1 DEF ConfirmedTargets, Progress, Partitioned,
        OnlyConfirmedTouched, Untouched, LiveSystemUntouched, CompletedRun,
        PastNewfs, RootMounted
  <2> QED BY <2>4, <2>5, <2>6, <2>7 DEF InstallerInv
<1> QED BY <1>1, <1>2 DEF add_efi, efi_mb

\* The second partition.
LEMMA Keeps_add_root == InstallerInv /\ add_root => InstallerInv'
<1> SUFFICES ASSUME InstallerInv, add_root PROVE InstallerInv'
  OBVIOUS
<1> USE DEF InstallerInv
<1>1. CASE Errexit(CanAdd(free[target]))
  BY <1>1, RunEnds DEF Errexit, add_root
<1>2. ASSUME NEW mb \in Int, AddPartition("STAR_TALK", mb), At("add_root"), Goto("add_swap"),
             UNCHANGED <<fileVars, mountVars, echo, confirmed>>
      PROVE  InstallerInv'
  <2>1. /\ TableTypes'
        /\ target \in Disks /\ table[target] = "gpt" /\ table' = table
        /\ parts'[target] = Append(parts[target], "STAR_TALK")
        /\ Len(parts'[target]) = Len(parts[target]) + 1 /\ Len(parts[target]) \in Nat
        /\ \A d \in Disks \ {target} : parts'[d] = parts[d]
    BY <1>2, AddEffect
  <2>2. Append(<<"EFI">>, "STAR_TALK") = <<"EFI", "STAR_TALK">>
    BY AppendToOne
  <2>3. Partitioned(2, <<"EFI", "STAR_TALK">>)'
    <3>1. Len(parts[target]) >= 1 /\ (fresh_gpt => parts[target] = <<"EFI">>)
      BY <1>2, <2>1 DEF Progress, Partitioned
    <3> QED BY <1>2, <2>1, <2>2, <3>1 DEF Partitioned
  <2>4. TypeOK'
    BY <1>2, <2>1 DEF TypeOK, RunTypes, TableTypes, FileTypes, MountTypes,
        Labels, Results
  <2>5. ConfirmedTargets' /\ TargetOnTop'
    BY <1>2, <2>1 DEF ConfirmedTargets, TargetOnTop, RootMounted, EspMounted
  <2>6. Progress'
    BY <1>2, <2>3 DEF Progress, Partitioned, RootMounted, EspMounted,
        PastNewfs, PastFstab, PastNames, PastPrompts
  <2>7. OnlyConfirmedTouched' /\ LiveSystemUntouched' /\ CompletedRun'
    BY <1>2, <2>1 DEF ConfirmedTargets, Progress, Partitioned,
        OnlyConfirmedTouched, Untouched, LiveSystemUntouched, CompletedRun,
        PastNewfs, RootMounted
  <2> QED BY <2>4, <2>5, <2>6, <2>7 DEF InstallerInv
<1>3. target \in Disks => free[target] \in Int
  BY DEF TypeOK, TableTypes
<1>4. root_mb \in Int
  BY DEF TypeOK, RunTypes, root_mb, efi_mb, swap_mb
<1> QED BY <1>1, <1>2, <1>3, <1>4 DEF add_root, AddRest

\* The third partition.
LEMMA Keeps_add_swap == InstallerInv /\ add_swap => InstallerInv'
<1> SUFFICES ASSUME InstallerInv, add_swap PROVE InstallerInv'
  OBVIOUS
<1> USE DEF InstallerInv
<1>1. CASE Errexit(CanAdd(free[target]))
  BY <1>1, RunEnds DEF Errexit, add_swap
<1>2. ASSUME NEW mb \in Int, AddPartition("SWAP", mb), At("add_swap"), Goto("newfs_esp"),
             UNCHANGED <<fileVars, mountVars, echo, confirmed>>
      PROVE  InstallerInv'
  <2>1. /\ TableTypes'
        /\ target \in Disks /\ table[target] = "gpt" /\ table' = table
        /\ parts'[target] = Append(parts[target], "SWAP")
        /\ Len(parts'[target]) = Len(parts[target]) + 1 /\ Len(parts[target]) \in Nat
        /\ \A d \in Disks \ {target} : parts'[d] = parts[d]
    BY <1>2, AddEffect
  <2>2. Append(<<"EFI", "STAR_TALK">>, "SWAP") = Layout
    BY AppendToTwo DEF Layout
  <2>3. Partitioned(3, Layout)'
    <3>1. Len(parts[target]) >= 2 /\ (fresh_gpt => parts[target] = <<"EFI", "STAR_TALK">>)
      BY <1>2, <2>1 DEF Progress, Partitioned
    <3> QED BY <1>2, <2>1, <2>2, <3>1 DEF Partitioned
  <2>4. TypeOK'
    BY <1>2, <2>1 DEF TypeOK, RunTypes, TableTypes, FileTypes, MountTypes,
        Labels, Results
  <2>5. ConfirmedTargets' /\ TargetOnTop'
    BY <1>2, <2>1 DEF ConfirmedTargets, TargetOnTop, RootMounted, EspMounted
  <2>6. Progress'
    BY <1>2, <2>3 DEF Progress, Partitioned, RootMounted, EspMounted,
        PastNewfs, PastFstab, PastNames, PastPrompts
  <2>7. OnlyConfirmedTouched' /\ LiveSystemUntouched' /\ CompletedRun'
    BY <1>2, <2>1 DEF ConfirmedTargets, Progress, Partitioned,
        OnlyConfirmedTouched, Untouched, LiveSystemUntouched, CompletedRun,
        PastNewfs, RootMounted
  <2> QED BY <2>4, <2>5, <2>6, <2>7 DEF InstallerInv
<1>3. target \in Disks => free[target] \in Int
  BY DEF TypeOK, TableTypes
<1>4. swap_mb \in Int
  BY DEF TypeOK, RunTypes, swap_mb
<1> QED BY <1>1, <1>2, <1>3, <1>4 DEF add_swap, AddRest

\* Formatting the ESP, or only reporting that it failed.
LEMMA Keeps_newfs_esp == InstallerInv /\ newfs_esp => InstallerInv'
<1> SUFFICES ASSUME InstallerInv, newfs_esp PROVE InstallerInv'
  OBVIOUS
<1> USE DEF InstallerInv
<1>1. ASSUME At("newfs_esp"), Goto("newfs_root"),
             espfs' = [espfs EXCEPT ![target] = TRUE],
             espfile' = [espfile EXCEPT ![target] = {}],
             UNCHANGED <<tableVars, rootfs, rootfile, boot, live, mountVars, echo, confirmed>>
      PROVE  InstallerInv'
  <2>1. TypeOK'
    BY <1>1 DEF TypeOK, RunTypes, TableTypes, FileTypes, MountTypes, Labels,
        Results
  <2>2. ConfirmedTargets' /\ TargetOnTop'
    BY <1>1 DEF ConfirmedTargets, TargetOnTop, RootMounted, EspMounted
  <2>3. Progress'
    BY <1>1 DEF Progress, Partitioned, RootMounted, EspMounted, PastNewfs,
        PastFstab, PastNames, PastPrompts
  <2>4. OnlyConfirmedTouched' /\ LiveSystemUntouched' /\ CompletedRun'
    BY <1>1 DEF ConfirmedTargets, Progress, Partitioned, OnlyConfirmedTouched,
        Untouched, LiveSystemUntouched, CompletedRun, PastNewfs, RootMounted
  <2> QED BY <2>1, <2>2, <2>3, <2>4 DEF InstallerInv
<1>2. ASSUME At("newfs_esp"), Ignored(Len(parts[target]) >= 1, "newfs_root")
      PROVE  InstallerInv'
  <2>1. TypeOK'
    BY <1>2 DEF TypeOK, RunTypes, TableTypes, FileTypes, MountTypes, Labels,
        Results, Ignored
  <2>2. ConfirmedTargets' /\ TargetOnTop'
    BY <1>2 DEF ConfirmedTargets, TargetOnTop, RootMounted, EspMounted,
        Ignored
  <2>3. Progress'
    BY <1>2 DEF Progress, Partitioned, RootMounted, EspMounted, PastNewfs,
        PastFstab, PastNames, PastPrompts, Ignored
  <2>4. OnlyConfirmedTouched' /\ LiveSystemUntouched' /\ CompletedRun'
    BY <1>2 DEF ConfirmedTargets, Progress, Partitioned, OnlyConfirmedTouched,
        Untouched, LiveSystemUntouched, CompletedRun, PastNewfs, RootMounted,
        Ignored
  <2> QED BY <2>1, <2>2, <2>3, <2>4 DEF InstallerInv
<1> QED BY <1>1, <1>2 DEF newfs_esp

\* Formatting the root partition.
LEMMA Keeps_newfs_root == InstallerInv /\ newfs_root => InstallerInv'
<1> SUFFICES ASSUME InstallerInv, newfs_root PROVE InstallerInv'
  OBVIOUS
<1> USE DEF InstallerInv
<1>1. CASE Errexit(Len(parts[target]) >= 2)
  BY <1>1, RunEnds DEF Errexit, newfs_root
<1>2. ASSUME At("newfs_root"), Goto("mount_root"),
             rootfs' = [rootfs EXCEPT ![target] = TRUE],
             rootfile' = [rootfile EXCEPT ![target] = {}],
             UNCHANGED <<tableVars, espfs, espfile, boot, live, mountVars, echo, confirmed>>
      PROVE  InstallerInv'
  <2>0. rootfs'[target] /\ Partitioned(3, Layout)'
    BY <1>2 DEF TypeOK, FileTypes, Progress, Partitioned
  <2>1. TypeOK'
    BY <1>2 DEF TypeOK, RunTypes, TableTypes, FileTypes, MountTypes, Labels,
        Results
  <2>2. ConfirmedTargets' /\ TargetOnTop'
    BY <1>2 DEF ConfirmedTargets, TargetOnTop, RootMounted, EspMounted
  <2>3. Progress'
    BY <1>2, <2>0 DEF Progress, Partitioned, RootMounted, EspMounted,
        PastNewfs, PastFstab, PastNames, PastPrompts
  <2>4. OnlyConfirmedTouched' /\ LiveSystemUntouched' /\ CompletedRun'
    BY <1>2 DEF ConfirmedTargets, Progress, Partitioned, OnlyConfirmedTouched,
        Untouched, LiveSystemUntouched, CompletedRun, PastNewfs, RootMounted
  <2> QED BY <2>1, <2>2, <2>3, <2>4 DEF InstallerInv
<1> QED BY <1>1, <1>2 DEF newfs_root

\* The target's file system comes to lie on top of whatever is mounted.
LEMMA Keeps_mount_root == InstallerInv /\ mount_root => InstallerInv'
<1> SUFFICES ASSUME InstallerInv, mount_root PROVE InstallerInv'
  OBVIOUS
<1> USE DEF InstallerInv
<1>1. CASE Errexit(CanMountRoot)
  BY <1>1, RunEnds DEF Errexit, mount_root
<1>2. ASSUME At("mount_root"), Goto("copy"), mnt' = Append(mnt, target),
             UNCHANGED <<tableVars, fileVars, esp, echo, confirmed>>
      PROVE  InstallerInv'
  <2>1. target \in Disks /\ target \in confirmed /\ mnt \in Seq(Disks)
    BY <1>2 DEF TypeOK, MountTypes, Progress, Partitioned, PastNewfs, RootMounted,
        ConfirmedTargets
  <2>2. /\ mnt' \in Seq(Disks) /\ mnt' # <<>> /\ Last(mnt') = target
        /\ ToSet(mnt') = ToSet(mnt) \cup {target}
    BY <1>2, <2>1, StackAppend
  <2>3. TypeOK'
    BY <1>2, <2>1, <2>2 DEF TypeOK, RunTypes, TableTypes, FileTypes,
        MountTypes, Labels, Results
  <2>4. ConfirmedTargets' /\ TargetOnTop'
    BY <1>2, <2>1, <2>2 DEF ConfirmedTargets, TargetOnTop, RootMounted,
        EspMounted
  <2>5. Progress'
    BY <1>2 DEF Progress, Partitioned, RootMounted, EspMounted, PastNewfs,
        PastFstab, PastNames, PastPrompts
  <2>6. OnlyConfirmedTouched' /\ LiveSystemUntouched' /\ CompletedRun'
    BY <1>2, <2>1, <2>2 DEF ConfirmedTargets, Progress, Partitioned,
        OnlyConfirmedTouched, Untouched, LiveSystemUntouched, CompletedRun,
        PastNewfs, RootMounted
  <2> QED BY <2>3, <2>4, <2>5, <2>6 DEF InstallerInv
<1> QED BY <1>1, <1>2 DEF mount_root

\* The same for the ESP; when mount fails the function returns.
LEMMA Keeps_mount_esp == InstallerInv /\ mount_esp => InstallerInv'
<1> SUFFICES ASSUME InstallerInv, mount_esp PROVE InstallerInv'
  OBVIOUS
<1> USE DEF InstallerInv
<1>1. ASSUME At("mount_esp"), Goto("kernel"), esp' = Append(esp, target),
             UNCHANGED <<tableVars, fileVars, mnt, echo, confirmed>>
      PROVE  InstallerInv'
  <2>1. target \in Disks /\ target \in confirmed /\ esp \in Seq(Disks)
    BY <1>1 DEF TypeOK, MountTypes, Progress, Partitioned, PastNewfs, RootMounted,
        ConfirmedTargets
  <2>2. /\ esp' \in Seq(Disks) /\ esp' # <<>> /\ Last(esp') = target
        /\ ToSet(esp') = ToSet(esp) \cup {target}
    BY <1>1, <2>1, StackAppend
  <2>3. TypeOK'
    BY <1>1, <2>1, <2>2 DEF TypeOK, RunTypes, TableTypes, FileTypes,
        MountTypes, Labels, Results
  <2>4. ConfirmedTargets' /\ TargetOnTop'
    BY <1>1, <2>1, <2>2 DEF ConfirmedTargets, TargetOnTop, RootMounted,
        EspMounted
  <2>5. Progress'
    BY <1>1 DEF Progress, Partitioned, RootMounted, EspMounted, PastNewfs,
        PastFstab, PastNames, PastPrompts
  <2>6. OnlyConfirmedTouched' /\ LiveSystemUntouched' /\ CompletedRun'
    BY <1>1, <2>1, <2>2 DEF ConfirmedTargets, Progress, Partitioned,
        OnlyConfirmedTouched, Untouched, LiveSystemUntouched, CompletedRun,
        PastNewfs, RootMounted
  <2> QED BY <2>3, <2>4, <2>5, <2>6 DEF InstallerInv
<1>2. ASSUME At("mount_esp"), Ignored(CanMountEsp, "umount_root")
      PROVE  InstallerInv'
  <2>1. TypeOK'
    BY <1>2 DEF TypeOK, RunTypes, TableTypes, FileTypes, MountTypes, Labels,
        Results, Ignored
  <2>2. ConfirmedTargets' /\ TargetOnTop'
    BY <1>2 DEF ConfirmedTargets, TargetOnTop, RootMounted, EspMounted,
        Ignored
  <2>3. Progress'
    BY <1>2 DEF Progress, Partitioned, RootMounted, EspMounted, PastNewfs,
        PastFstab, PastNames, PastPrompts, Ignored
  <2>4. OnlyConfirmedTouched' /\ LiveSystemUntouched' /\ CompletedRun'
    BY <1>2 DEF ConfirmedTargets, Progress, Partitioned, OnlyConfirmedTouched,
        Untouched, LiveSystemUntouched, CompletedRun, PastNewfs, RootMounted,
        Ignored
  <2> QED BY <2>1, <2>2, <2>3, <2>4 DEF InstallerInv
<1> QED BY <1>1, <1>2 DEF mount_esp

\* Whatever could be copied goes to the target.
LEMMA Keeps_copy == InstallerInv /\ copy => InstallerInv'
<1> SUFFICES ASSUME InstallerInv, copy PROVE InstallerInv'
  OBVIOUS
<1> USE DEF InstallerInv
<1>1. ASSUME NEW copied \in SUBSET LiveDirs, At("copy"), Goto("fstab"), WriteRoot(copied),
             UNCHANGED <<tableVars, espfs, rootfs, espfile, boot, mountVars, echo, confirmed>>
      PROVE  InstallerInv'
  <2>1. /\ target \in Disks /\ target \in confirmed
        /\ rootfile' = [rootfile EXCEPT ![target] = @ \cup copied]
        /\ rootfile' \in [Disks -> SUBSET RootFiles] /\ live' = live
    BY <1>1, WriteRootEffect DEF RootMounted, RootFiles
  <2>2. TypeOK'
    BY <1>1, <2>1 DEF TypeOK, RunTypes, TableTypes, FileTypes, MountTypes,
        Labels, Results
  <2>3. ConfirmedTargets' /\ TargetOnTop'
    BY <1>1, <2>1 DEF ConfirmedTargets, TargetOnTop, RootMounted, EspMounted
  <2>4. Progress'
    BY <1>1, <2>1 DEF Progress, Partitioned, RootMounted, EspMounted,
        PastNewfs, PastFstab, PastNames, PastPrompts
  <2>5. OnlyConfirmedTouched' /\ LiveSystemUntouched' /\ CompletedRun'
    BY <1>1, <2>1 DEF ConfirmedTargets, Progress, Partitioned,
        OnlyConfirmedTouched, Untouched, LiveSystemUntouched, CompletedRun,
        PastNewfs, RootMounted
  <2> QED BY <2>2, <2>3, <2>4, <2>5 DEF InstallerInv
<1> QED BY <1>1 DEF copy

\* The fstab is written only where etc was copied.
LEMMA Keeps_write_fstab == InstallerInv /\ write_fstab => InstallerInv'
<1> SUFFICES ASSUME InstallerInv, write_fstab PROVE InstallerInv'
  OBVIOUS
<1> USE DEF InstallerInv
<1>1. CASE Errexit(EtcCopied)
  BY <1>1, RunEnds DEF Errexit, write_fstab
<1>2. ASSUME EtcCopied, At("fstab"), Goto("hostname"), WriteRoot({"fstab"}),
             UNCHANGED <<tableVars, espfs, rootfs, espfile, boot, mountVars, echo, confirmed>>
      PROVE  InstallerInv'
  <2>1. /\ target \in Disks /\ target \in confirmed
        /\ rootfile' = [rootfile EXCEPT ![target] = @ \cup {"fstab"}]
        /\ rootfile' \in [Disks -> SUBSET RootFiles] /\ live' = live
    BY <1>2, WriteRootEffect DEF RootMounted, RootFiles
  <2>2. "etc" \in rootfile[target] /\ {"etc", "fstab"} \subseteq rootfile'[target]
    BY <1>2, <2>1 DEF EtcCopied, TargetOnTop, RootMounted, TypeOK, FileTypes
  <2>3. TypeOK'
    BY <1>2, <2>1, <2>2 DEF TypeOK, RunTypes, TableTypes, FileTypes,
        MountTypes, Labels, Results
  <2>4. ConfirmedTargets' /\ TargetOnTop'
    BY <1>2, <2>1, <2>2 DEF ConfirmedTargets, TargetOnTop, RootMounted,
        EspMounted
  <2>5. Progress'
    BY <1>2, <2>1, <2>2 DEF Progress, Partitioned, RootMounted, EspMounted,
        PastNewfs, PastFstab, PastNames, PastPrompts
  <2>6. OnlyConfirmedTouched' /\ LiveSystemUntouched' /\ CompletedRun'
    BY <1>2, <2>1, <2>2 DEF ConfirmedTargets, Progress, Partitioned,
        OnlyConfirmedTouched, Untouched, LiveSystemUntouched, CompletedRun,
        PastNewfs, RootMounted
  <2> QED BY <2>3, <2>4, <2>5, <2>6 DEF InstallerInv
<1> QED BY <1>1, <1>2 DEF write_fstab

\* The host name goes to the target.
LEMMA Keeps_set_hostname == InstallerInv /\ set_hostname => InstallerInv'
<1> SUFFICES ASSUME InstallerInv, set_hostname PROVE InstallerInv'
  OBVIOUS
<1> USE DEF InstallerInv
<1>1. CASE Errexit(TRUE)
  BY <1>1, RunEnds DEF Errexit, set_hostname
<1>2. ASSUME At("hostname"), Goto("username"), WriteRoot({"myname"}),
             UNCHANGED <<tableVars, espfs, rootfs, espfile, boot, mountVars, echo, confirmed>>
      PROVE  InstallerInv'
  <2>1. /\ target \in Disks /\ target \in confirmed
        /\ rootfile' = [rootfile EXCEPT ![target] = @ \cup {"myname"}]
        /\ rootfile' \in [Disks -> SUBSET RootFiles] /\ live' = live
    BY <1>2, WriteRootEffect DEF RootMounted, RootFiles
  <2>2. TypeOK'
    BY <1>2, <2>1 DEF TypeOK, RunTypes, TableTypes, FileTypes, MountTypes,
        Labels, Results
  <2>3. ConfirmedTargets' /\ TargetOnTop'
    BY <1>2, <2>1 DEF ConfirmedTargets, TargetOnTop, RootMounted, EspMounted
  <2>4. Progress'
    BY <1>2, <2>1 DEF Progress, Partitioned, RootMounted, EspMounted,
        PastNewfs, PastFstab, PastNames, PastPrompts
  <2>5. OnlyConfirmedTouched' /\ LiveSystemUntouched' /\ CompletedRun'
    BY <1>2, <2>1 DEF ConfirmedTargets, Progress, Partitioned,
        OnlyConfirmedTouched, Untouched, LiveSystemUntouched, CompletedRun,
        PastNewfs, RootMounted
  <2> QED BY <2>2, <2>3, <2>4, <2>5 DEF InstallerInv
<1> QED BY <1>1, <1>2 DEF set_hostname

\* The terminal stops echoing.
LEMMA Keeps_read_username == InstallerInv /\ read_username => InstallerInv'
<1> SUFFICES ASSUME InstallerInv, read_username PROVE InstallerInv'
  OBVIOUS
<1> USE DEF InstallerInv
<1>1. CASE Errexit(TRUE)
  BY <1>1, RunEnds DEF Errexit, read_username
<1>2. ASSUME At("username"), Goto("password"), echo' = FALSE,
             UNCHANGED <<tableVars, fileVars, mountVars, confirmed>>
      PROVE  InstallerInv'
  <2>1. TypeOK'
    BY <1>2 DEF TypeOK, RunTypes, TableTypes, FileTypes, MountTypes, Labels,
        Results
  <2>2. ConfirmedTargets' /\ TargetOnTop'
    BY <1>2 DEF ConfirmedTargets, TargetOnTop, RootMounted, EspMounted
  <2>3. Progress'
    BY <1>2 DEF Progress, Partitioned, RootMounted, EspMounted, PastNewfs,
        PastFstab, PastNames, PastPrompts
  <2>4. OnlyConfirmedTouched' /\ LiveSystemUntouched' /\ CompletedRun'
    BY <1>2 DEF ConfirmedTargets, Progress, Partitioned, OnlyConfirmedTouched,
        Untouched, LiveSystemUntouched, CompletedRun, PastNewfs, RootMounted
  <2> QED BY <2>1, <2>2, <2>3, <2>4 DEF InstallerInv
<1> QED BY <1>1, <1>2 DEF read_username

\* The terminal echoes again.
LEMMA Keeps_read_password == InstallerInv /\ read_password => InstallerInv'
<1> SUFFICES ASSUME InstallerInv, read_password PROVE InstallerInv'
  OBVIOUS
<1> USE DEF InstallerInv
<1>1. CASE Errexit(TRUE)
  BY <1>1, RunEnds DEF Errexit, read_password
<1>2. ASSUME At("password"), Goto("useradd"), echo' = TRUE,
             UNCHANGED <<tableVars, fileVars, mountVars, confirmed>>
      PROVE  InstallerInv'
  <2>1. TypeOK'
    BY <1>2 DEF TypeOK, RunTypes, TableTypes, FileTypes, MountTypes, Labels,
        Results
  <2>2. ConfirmedTargets' /\ TargetOnTop'
    BY <1>2 DEF ConfirmedTargets, TargetOnTop, RootMounted, EspMounted
  <2>3. Progress'
    BY <1>2 DEF Progress, Partitioned, RootMounted, EspMounted, PastNewfs,
        PastFstab, PastNames, PastPrompts
  <2>4. OnlyConfirmedTouched' /\ LiveSystemUntouched' /\ CompletedRun'
    BY <1>2 DEF ConfirmedTargets, Progress, Partitioned, OnlyConfirmedTouched,
        Untouched, LiveSystemUntouched, CompletedRun, PastNewfs, RootMounted
  <2> QED BY <2>1, <2>2, <2>3, <2>4 DEF InstallerInv
<1> QED BY <1>1, <1>2 DEF read_password

\* The account is made on the target, or reported.
LEMMA Keeps_useradd == InstallerInv /\ useradd => InstallerInv'
<1> SUFFICES ASSUME InstallerInv, useradd PROVE InstallerInv'
  OBVIOUS
<1> USE DEF InstallerInv
<1>1. ASSUME At("useradd"), Goto("mount_esp"), WriteRoot({"user"}),
             UNCHANGED <<tableVars, espfs, rootfs, espfile, boot, mountVars, echo, confirmed>>
      PROVE  InstallerInv'
  <2>1. /\ target \in Disks /\ target \in confirmed
        /\ rootfile' = [rootfile EXCEPT ![target] = @ \cup {"user"}]
        /\ rootfile' \in [Disks -> SUBSET RootFiles] /\ live' = live
    BY <1>1, WriteRootEffect DEF RootMounted, RootFiles
  <2>2. TypeOK'
    BY <1>1, <2>1 DEF TypeOK, RunTypes, TableTypes, FileTypes, MountTypes,
        Labels, Results
  <2>3. ConfirmedTargets' /\ TargetOnTop'
    BY <1>1, <2>1 DEF ConfirmedTargets, TargetOnTop, RootMounted, EspMounted
  <2>4. Progress'
    BY <1>1, <2>1 DEF Progress, Partitioned, RootMounted, EspMounted,
        PastNewfs, PastFstab, PastNames, PastPrompts
  <2>5. OnlyConfirmedTouched' /\ LiveSystemUntouched' /\ CompletedRun'
    BY <1>1, <2>1 DEF ConfirmedTargets, Progress, Partitioned,
        OnlyConfirmedTouched, Untouched, LiveSystemUntouched, CompletedRun,
        PastNewfs, RootMounted
  <2> QED BY <2>2, <2>3, <2>4, <2>5 DEF InstallerInv
<1>2. ASSUME At("useradd"), NEW possible, Ignored(possible, "mount_esp")
      PROVE  InstallerInv'
  <2>1. TypeOK'
    BY <1>2 DEF TypeOK, RunTypes, TableTypes, FileTypes, MountTypes, Labels,
        Results, Ignored
  <2>2. ConfirmedTargets' /\ TargetOnTop'
    BY <1>2 DEF ConfirmedTargets, TargetOnTop, RootMounted, EspMounted,
        Ignored
  <2>3. Progress'
    BY <1>2 DEF Progress, Partitioned, RootMounted, EspMounted, PastNewfs,
        PastFstab, PastNames, PastPrompts, Ignored
  <2>4. OnlyConfirmedTouched' /\ LiveSystemUntouched' /\ CompletedRun'
    BY <1>2 DEF ConfirmedTargets, Progress, Partitioned, OnlyConfirmedTouched,
        Untouched, LiveSystemUntouched, CompletedRun, PastNewfs, RootMounted,
        Ignored
  <2> QED BY <2>1, <2>2, <2>3, <2>4 DEF InstallerInv
<1> QED BY <1>1, <1>2 DEF useradd

\* The kernel goes to the target's ESP, or there is none to copy.
LEMMA Keeps_copy_kernel == InstallerInv /\ copy_kernel => InstallerInv'
<1> SUFFICES ASSUME InstallerInv, copy_kernel PROVE InstallerInv'
  OBVIOUS
<1> USE DEF InstallerInv
<1>1. CASE Errexit(TRUE)
  BY <1>1, RunEnds DEF Errexit, copy_kernel
<1>2. ASSUME At("kernel"), Goto("loader"), WriteEsp({"netbsd"}),
             UNCHANGED <<tableVars, espfs, rootfs, rootfile, boot, mountVars, echo, confirmed>>
      PROVE  InstallerInv'
  <2>1. /\ target \in Disks /\ target \in confirmed
        /\ espfile' = [espfile EXCEPT ![target] = @ \cup {"netbsd"}]
        /\ espfile' \in [Disks -> SUBSET EspFiles] /\ live' = live
    BY <1>2, WriteEspEffect DEF EspMounted, EspFiles
  <2>2. TypeOK'
    BY <1>2, <2>1 DEF TypeOK, RunTypes, TableTypes, FileTypes, MountTypes,
        Labels, Results
  <2>3. ConfirmedTargets' /\ TargetOnTop'
    BY <1>2, <2>1 DEF ConfirmedTargets, TargetOnTop, RootMounted, EspMounted
  <2>4. Progress'
    BY <1>2, <2>1 DEF Progress, Partitioned, RootMounted, EspMounted,
        PastNewfs, PastFstab, PastNames, PastPrompts
  <2>5. OnlyConfirmedTouched' /\ LiveSystemUntouched' /\ CompletedRun'
    BY <1>2, <2>1 DEF ConfirmedTargets, Progress, Partitioned,
        OnlyConfirmedTouched, Untouched, LiveSystemUntouched, CompletedRun,
        PastNewfs, RootMounted
  <2> QED BY <2>2, <2>3, <2>4, <2>5 DEF InstallerInv
<1>3. ASSUME At("kernel"), Goto("loader"), UNCHANGED <<espfile, live>>,
             UNCHANGED <<tableVars, espfs, rootfs, rootfile, boot, mountVars, echo, confirmed>>
      PROVE  InstallerInv'
  <2>1. TypeOK'
    BY <1>3 DEF TypeOK, RunTypes, TableTypes, FileTypes, MountTypes, Labels,
        Results
  <2>2. ConfirmedTargets' /\ TargetOnTop'
    BY <1>3 DEF ConfirmedTargets, TargetOnTop, RootMounted, EspMounted
  <2>3. Progress'
    BY <1>3 DEF Progress, Partitioned, RootMounted, EspMounted, PastNewfs,
        PastFstab, PastNames, PastPrompts
  <2>4. OnlyConfirmedTouched' /\ LiveSystemUntouched' /\ CompletedRun'
    BY <1>3 DEF ConfirmedTargets, Progress, Partitioned, OnlyConfirmedTouched,
        Untouched, LiveSystemUntouched, CompletedRun, PastNewfs, RootMounted
  <2> QED BY <2>1, <2>2, <2>3, <2>4 DEF InstallerInv
<1> QED BY <1>1, <1>2, <1>3 DEF copy_kernel

\* The loader goes to the target's ESP, or boot blocks to its root partition.
LEMMA Keeps_install_loader == InstallerInv /\ install_loader => InstallerInv'
<1> SUFFICES ASSUME InstallerInv, install_loader PROVE InstallerInv'
  OBVIOUS
<1> USE DEF InstallerInv
<1>1. CASE Errexit(TRUE)
  BY <1>1, RunEnds DEF Errexit, install_loader
<1>2. ASSUME At("loader"), Goto("boot_cfg"), WriteEsp({"bootx64.efi"}),
             UNCHANGED <<tableVars, espfs, rootfs, rootfile, boot, mountVars, echo, confirmed>>
      PROVE  InstallerInv'
  <2>1. /\ target \in Disks /\ target \in confirmed
        /\ espfile' = [espfile EXCEPT ![target] = @ \cup {"bootx64.efi"}]
        /\ espfile' \in [Disks -> SUBSET EspFiles] /\ live' = live
    BY <1>2, WriteEspEffect DEF EspMounted, EspFiles
  <2>2. TypeOK'
    BY <1>2, <2>1 DEF TypeOK, RunTypes, TableTypes, FileTypes, MountTypes,
        Labels, Results
  <2>3. ConfirmedTargets' /\ TargetOnTop'
    BY <1>2, <2>1 DEF ConfirmedTargets, TargetOnTop, RootMounted, EspMounted
  <2>4. Progress'
    BY <1>2, <2>1 DEF Progress, Partitioned, RootMounted, EspMounted,
        PastNewfs, PastFstab, PastNames, PastPrompts
  <2>5. OnlyConfirmedTouched' /\ LiveSystemUntouched' /\ CompletedRun'
    BY <1>2, <2>1 DEF ConfirmedTargets, Progress, Partitioned,
        OnlyConfirmedTouched, Untouched, LiveSystemUntouched, CompletedRun,
        PastNewfs, RootMounted
  <2> QED BY <2>2, <2>3, <2>4, <2>5 DEF InstallerInv
<1>3. ASSUME At("loader"), Goto("boot_cfg"),
             boot' = [boot EXCEPT ![target] = @ \cup {"bootxx"}],
             UNCHANGED <<tableVars, espfs, rootfs, espfile, rootfile, live, mountVars, echo,
                         confirmed>>
      PROVE  InstallerInv'
  <2>1. TypeOK'
    BY <1>3 DEF TypeOK, RunTypes, TableTypes, FileTypes, MountTypes, Labels,
        Results
  <2>2. ConfirmedTargets' /\ TargetOnTop'
    BY <1>3 DEF ConfirmedTargets, TargetOnTop, RootMounted, EspMounted
  <2>3. Progress'
    BY <1>3 DEF Progress, Partitioned, RootMounted, EspMounted, PastNewfs,
        PastFstab, PastNames, PastPrompts
  <2>4. OnlyConfirmedTouched' /\ LiveSystemUntouched' /\ CompletedRun'
    BY <1>3 DEF ConfirmedTargets, Progress, Partitioned, OnlyConfirmedTouched,
        Untouched, LiveSystemUntouched, CompletedRun, PastNewfs, RootMounted
  <2> QED BY <2>1, <2>2, <2>3, <2>4 DEF InstallerInv
<1>4. ASSUME At("loader"), Ignored(TRUE, "boot_cfg")
      PROVE  InstallerInv'
  <2>1. TypeOK'
    BY <1>4 DEF TypeOK, RunTypes, TableTypes, FileTypes, MountTypes, Labels,
        Results, Ignored
  <2>2. ConfirmedTargets' /\ TargetOnTop'
    BY <1>4 DEF ConfirmedTargets, TargetOnTop, RootMounted, EspMounted,
        Ignored
  <2>3. Progress'
    BY <1>4 DEF Progress, Partitioned, RootMounted, EspMounted, PastNewfs,
        PastFstab, PastNames, PastPrompts, Ignored
  <2>4. OnlyConfirmedTouched' /\ LiveSystemUntouched' /\ CompletedRun'
    BY <1>4 DEF ConfirmedTargets, Progress, Partitioned, OnlyConfirmedTouched,
        Untouched, LiveSystemUntouched, CompletedRun, PastNewfs, RootMounted,
        Ignored
  <2> QED BY <2>1, <2>2, <2>3, <2>4 DEF InstallerInv
<1> QED BY <1>1, <1>2, <1>3, <1>4 DEF install_loader

\* boot.cfg goes to the target's ESP, the boot entry to the firmware.
LEMMA Keeps_write_boot_cfg == InstallerInv /\ write_boot_cfg => InstallerInv'
<1> SUFFICES ASSUME InstallerInv, write_boot_cfg PROVE InstallerInv'
  OBVIOUS
<1> USE DEF InstallerInv
<1>1. CASE Errexit(TRUE)
  BY <1>1, RunEnds DEF Errexit, write_boot_cfg
<1>2. ASSUME At("boot_cfg"), Goto("umount_esp"), WriteEsp({"boot.cfg"}),
             boot' \in {boot, [boot EXCEPT ![target] = @ \cup {"nvram"}]},
             UNCHANGED <<tableVars, espfs, rootfs, rootfile, mountVars, echo, confirmed>>
      PROVE  InstallerInv'
  <2>1. /\ target \in Disks /\ target \in confirmed
        /\ espfile' = [espfile EXCEPT ![target] = @ \cup {"boot.cfg"}]
        /\ espfile' \in [Disks -> SUBSET EspFiles] /\ live' = live
    BY <1>2, WriteEspEffect DEF EspMounted, EspFiles
  <2>0. /\ boot' \in [Disks -> SUBSET {"bootxx", "nvram"}]
        /\ \A d \in Disks : d # target => boot'[d] = boot[d]
    BY <1>2, <2>1 DEF TypeOK, FileTypes
  <2>2. TypeOK'
    BY <1>2, <2>1, <2>0 DEF TypeOK, RunTypes, TableTypes, FileTypes, MountTypes,
        Labels, Results
  <2>3. ConfirmedTargets' /\ TargetOnTop'
    BY <1>2, <2>1 DEF ConfirmedTargets, TargetOnTop, RootMounted, EspMounted
  <2>4. Progress'
    BY <1>2, <2>1 DEF Progress, Partitioned, RootMounted, EspMounted,
        PastNewfs, PastFstab, PastNames, PastPrompts
  <2>5. OnlyConfirmedTouched' /\ LiveSystemUntouched' /\ CompletedRun'
    BY <1>2, <2>1, <2>0 DEF ConfirmedTargets, Progress, Partitioned,
        OnlyConfirmedTouched, Untouched, LiveSystemUntouched, CompletedRun,
        PastNewfs, RootMounted
  <2> QED BY <2>2, <2>3, <2>4, <2>5 DEF InstallerInv
<1> QED BY <1>1, <1>2 DEF write_boot_cfg

\* Unmounting takes the top off, or leaves it when it fails.
LEMMA Keeps_umount_esp == InstallerInv /\ umount_esp => InstallerInv'
<1> SUFFICES ASSUME InstallerInv, umount_esp PROVE InstallerInv'
  OBVIOUS
<1> USE DEF InstallerInv
<1>1. ASSUME At("umount_esp"), Goto("umount_root"), esp # <<>>, esp' = Front(esp),
             UNCHANGED <<tableVars, fileVars, mnt, echo, confirmed>>
      PROVE  InstallerInv'
  <2>1. esp' \in Seq(Disks) /\ ToSet(esp') \subseteq ToSet(esp)
    BY <1>1, StackPop DEF TypeOK, MountTypes
  <2>2. TypeOK'
    BY <1>1, <2>1 DEF TypeOK, RunTypes, TableTypes, FileTypes, MountTypes,
        Labels, Results
  <2>3. ConfirmedTargets' /\ TargetOnTop'
    BY <1>1, <2>1 DEF ConfirmedTargets, TargetOnTop, RootMounted, EspMounted
  <2>4. Progress'
    BY <1>1 DEF Progress, Partitioned, RootMounted, EspMounted, PastNewfs,
        PastFstab, PastNames, PastPrompts
  <2>5. OnlyConfirmedTouched' /\ LiveSystemUntouched' /\ CompletedRun'
    BY <1>1 DEF ConfirmedTargets, Progress, Partitioned, OnlyConfirmedTouched,
        Untouched, LiveSystemUntouched, CompletedRun, PastNewfs, RootMounted
  <2> QED BY <2>2, <2>3, <2>4, <2>5 DEF InstallerInv
<1>2. ASSUME At("umount_esp"), Ignored(esp # <<>>, "umount_root")
      PROVE  InstallerInv'
  <2>1. TypeOK'
    BY <1>2 DEF TypeOK, RunTypes, TableTypes, FileTypes, MountTypes, Labels,
        Results, Ignored
  <2>2. ConfirmedTargets' /\ TargetOnTop'
    BY <1>2 DEF ConfirmedTargets, TargetOnTop, RootMounted, EspMounted,
        Ignored
  <2>3. Progress'
    BY <1>2 DEF Progress, Partitioned, RootMounted, EspMounted, PastNewfs,
        PastFstab, PastNames, PastPrompts, Ignored
  <2>4. OnlyConfirmedTouched' /\ LiveSystemUntouched' /\ CompletedRun'
    BY <1>2 DEF ConfirmedTargets, Progress, Partitioned, OnlyConfirmedTouched,
        Untouched, LiveSystemUntouched, CompletedRun, PastNewfs, RootMounted,
        Ignored
  <2> QED BY <2>1, <2>2, <2>3, <2>4 DEF InstallerInv
<1> QED BY <1>1, <1>2 DEF umount_esp

\* Unmounting takes the top off, or leaves it when it fails.
LEMMA Keeps_umount_root == InstallerInv /\ umount_root => InstallerInv'
<1> SUFFICES ASSUME InstallerInv, umount_root PROVE InstallerInv'
  OBVIOUS
<1> USE DEF InstallerInv
<1>1. ASSUME At("umount_root"), Goto("rm_mnt"), mnt # <<>>, mnt' = Front(mnt),
             UNCHANGED <<tableVars, fileVars, esp, echo, confirmed>>
      PROVE  InstallerInv'
  <2>1. mnt' \in Seq(Disks) /\ ToSet(mnt') \subseteq ToSet(mnt)
    BY <1>1, StackPop DEF TypeOK, MountTypes
  <2>2. TypeOK'
    BY <1>1, <2>1 DEF TypeOK, RunTypes, TableTypes, FileTypes, MountTypes,
        Labels, Results
  <2>3. ConfirmedTargets' /\ TargetOnTop'
    BY <1>1, <2>1 DEF ConfirmedTargets, TargetOnTop, RootMounted, EspMounted
  <2>4. Progress'
    BY <1>1 DEF Progress, Partitioned, RootMounted, EspMounted, PastNewfs,
        PastFstab, PastNames, PastPrompts
  <2>5. OnlyConfirmedTouched' /\ LiveSystemUntouched' /\ CompletedRun'
    BY <1>1 DEF ConfirmedTargets, Progress, Partitioned, OnlyConfirmedTouched,
        Untouched, LiveSystemUntouched, CompletedRun, PastNewfs, RootMounted
  <2> QED BY <2>2, <2>3, <2>4, <2>5 DEF InstallerInv
<1>2. ASSUME At("umount_root"), Ignored(mnt # <<>>, "rm_mnt")
      PROVE  InstallerInv'
  <2>1. TypeOK'
    BY <1>2 DEF TypeOK, RunTypes, TableTypes, FileTypes, MountTypes, Labels,
        Results, Ignored
  <2>2. ConfirmedTargets' /\ TargetOnTop'
    BY <1>2 DEF ConfirmedTargets, TargetOnTop, RootMounted, EspMounted,
        Ignored
  <2>3. Progress'
    BY <1>2 DEF Progress, Partitioned, RootMounted, EspMounted, PastNewfs,
        PastFstab, PastNames, PastPrompts, Ignored
  <2>4. OnlyConfirmedTouched' /\ LiveSystemUntouched' /\ CompletedRun'
    BY <1>2 DEF ConfirmedTargets, Progress, Partitioned, OnlyConfirmedTouched,
        Untouched, LiveSystemUntouched, CompletedRun, PastNewfs, RootMounted,
        Ignored
  <2> QED BY <2>1, <2>2, <2>3, <2>4 DEF InstallerInv
<1> QED BY <1>1, <1>2 DEF umount_root

\* rm -rf empties only confirmed disks, and never the target's tables.
LEMMA Keeps_rm_mountpoints == InstallerInv /\ rm_mountpoints => InstallerInv'
<1> SUFFICES ASSUME InstallerInv, rm_mountpoints PROVE InstallerInv'
  OBVIOUS
<1> USE DEF InstallerInv
<1>1. \A d \in Disks : d \notin confirmed =>
        rootfile'[d] = rootfile[d] /\ espfile'[d] = espfile[d]
  BY StackPop DEF TypeOK, FileTypes, MountTypes, ConfirmedTargets, rm_mountpoints, Emptied
<1>2. /\ rootfile' \in [Disks -> SUBSET RootFiles]
      /\ espfile' \in [Disks -> SUBSET EspFiles]
  BY DEF TypeOK, FileTypes, rm_mountpoints, Emptied
<1>3. TypeOK'
  BY <1>1, <1>2 DEF TypeOK, RunTypes, TableTypes, FileTypes, MountTypes,
      Labels, Results, rm_mountpoints
<1>4. ConfirmedTargets' /\ TargetOnTop'
  BY DEF ConfirmedTargets, TargetOnTop, RootMounted, EspMounted,
      rm_mountpoints
<1>5. Progress'
  BY DEF Progress, Partitioned, RootMounted, EspMounted, PastNewfs, PastFstab,
      PastNames, PastPrompts, rm_mountpoints
<1>6. OnlyConfirmedTouched' /\ LiveSystemUntouched'
  BY <1>1 DEF OnlyConfirmedTouched, Untouched, LiveSystemUntouched, rm_mountpoints
<1>7. CompletedRun'
  BY DEF Progress, Partitioned, CompletedRun, PastNewfs, PastFstab, PastNames,
      PastPrompts, RootMounted, rm_mountpoints
<1> QED BY <1>3, <1>4, <1>5, <1>6, <1>7 DEF InstallerInv

\* An interrupted run simply ends.
LEMMA Keeps_Kill == InstallerInv /\ Kill => InstallerInv'
<1> SUFFICES ASSUME InstallerInv, Kill PROVE InstallerInv'
  OBVIOUS
<1> USE DEF InstallerInv
<1> QED BY RunEnds DEF Kill

\* A reboot empties both stacks and resets the terminal.
LEMMA Keeps_Reboot == InstallerInv /\ Reboot => InstallerInv'
<1> SUFFICES ASSUME InstallerInv, Reboot PROVE InstallerInv'
  OBVIOUS
<1> USE DEF InstallerInv
<1>1. TypeOK'
  BY EmptyStack DEF TypeOK, RunTypes, TableTypes, FileTypes, MountTypes,
      Labels, Results, Reboot
<1>2. ConfirmedTargets' /\ TargetOnTop'
  BY EmptyStack DEF ConfirmedTargets, TargetOnTop, RootMounted, EspMounted,
      Reboot
<1>3. Progress'
  BY EmptyStack DEF Progress, Partitioned, RootMounted, EspMounted, PastNewfs,
      PastFstab, PastNames, PastPrompts, Reboot
<1>4. OnlyConfirmedTouched' /\ LiveSystemUntouched' /\ CompletedRun'
  BY EmptyStack DEF ConfirmedTargets, Progress, Partitioned,
      OnlyConfirmedTouched, Untouched, LiveSystemUntouched, CompletedRun,
      PastNewfs, RootMounted, Reboot
<1> QED BY <1>1, <1>2, <1>3, <1>4 DEF InstallerInv

-----------------------------------------------------------------------------
(* The theorems.                                                           *)

\* No disk is touched and nothing is mounted before the first run.
LEMMA InitInv == Init => InstallerInv
<1> SUFFICES ASSUME Init PROVE InstallerInv
  OBVIOUS
<1>1. TypeOK
  <2>1. RunTypes
    <3>1. pc \in Labels /\ last \in Results /\ target = NoTarget
      BY DEF Init, Labels, Results
    <3>2. runs \in Nat /\ total_mb \in Int
      BY DEF Init
    <3>3. fresh_gpt \in BOOLEAN
      BY DEF Init
    <3> QED BY <3>1, <3>2, <3>3 DEF RunTypes
  <2>2. <<>> \in Seq({"EFI", "STAR_TALK", "SWAP"})
    OBVIOUS
  <2>3. TableTypes
    BY <2>2 DEF Init, TableTypes
  <2>4. FileTypes /\ MountTypes
    BY EmptyStack DEF Init, FileTypes, MountTypes
  <2> QED BY <2>1, <2>3, <2>4 DEF TypeOK
<1>2. ConfirmedTargets /\ TargetOnTop /\ Progress
  BY EmptyStack DEF Init, ConfirmedTargets, TargetOnTop, Progress, RootMounted,
      EspMounted, PastNewfs, PastFstab, PastNames, PastPrompts
<1>3. OnlyConfirmedTouched /\ LiveSystemUntouched /\ CompletedRun
  BY DEF Init, OnlyConfirmedTouched, Untouched, LiveSystemUntouched, CompletedRun
<1> QED BY <1>1, <1>2, <1>3 DEF InstallerInv

\* Every step of install.sh keeps the invariant.
LEMMA NextInv == InstallerInv /\ [Next]_vars => InstallerInv'
<1> SUFFICES ASSUME InstallerInv, [Next]_vars PROVE InstallerInv'
  OBVIOUS
<1>1. CASE main \/ select_disk
  BY <1>1, Keeps_main, Keeps_select_disk
<1>2. CASE partition_disk
  BY <1>2, Keeps_clear_headers, Keeps_gpt_create, Keeps_add_efi, Keeps_add_root,
      Keeps_add_swap DEF partition_disk
<1>3. CASE create_filesystems
  BY <1>3, Keeps_newfs_esp, Keeps_newfs_root DEF create_filesystems
<1>4. CASE copy_system
  BY <1>4, Keeps_mount_root, Keeps_copy, Keeps_write_fstab, Keeps_set_hostname,
      Keeps_read_username, Keeps_read_password, Keeps_useradd DEF copy_system
<1>5. CASE install_bootloader
  BY <1>5, Keeps_mount_esp, Keeps_copy_kernel, Keeps_install_loader,
      Keeps_write_boot_cfg, Keeps_umount_esp DEF install_bootloader
<1>6. CASE finalize
  BY <1>6, Keeps_umount_root, Keeps_rm_mountpoints DEF finalize
<1>7. CASE Kill \/ Reboot
  BY <1>7, Keeps_Kill, Keeps_Reboot
<1>8. CASE UNCHANGED vars
  <2>1. TypeOK'
    BY <1>8 DEF InstallerInv, TypeOK, RunTypes, TableTypes, FileTypes, MountTypes
  <2>2. ConfirmedTargets' /\ TargetOnTop' /\ LiveSystemUntouched'
    BY <1>8 DEF InstallerInv, ConfirmedTargets, TargetOnTop, LiveSystemUntouched
  <2>3. Progress'
    BY <1>8 DEF InstallerInv, Progress, Partitioned
  <2>4. OnlyConfirmedTouched' /\ CompletedRun'
    BY <1>8 DEF InstallerInv, OnlyConfirmedTouched, Untouched, CompletedRun
  <2> QED BY <2>1, <2>2, <2>3, <2>4 DEF InstallerInv
<1> QED BY <1>1, <1>2, <1>3, <1>4, <1>5, <1>6, <1>7, <1>8 DEF Next, Step

\* The inductive invariant holds however often install.sh is run, killed and
\* run again on however many disks.
THEOREM InstallerInvariant == Spec => []InstallerInv
<1> QED BY InitInv, NextInv, PTL DEF Spec

\* Type correctness of the installer's state.
THEOREM Typing == Spec => []TypeOK
<1>1. InstallerInv => TypeOK
  BY DEF InstallerInv
<1> QED BY <1>1, InstallerInvariant, PTL

\* No disk is written to that the operator did not confirm in select_disk.
THEOREM OnlyConfirmed == Spec => []OnlyConfirmedTouched
<1>1. InstallerInv => OnlyConfirmedTouched
  BY DEF InstallerInv
<1> QED BY <1>1, InstallerInvariant, PTL

\* copy_system and install_bootloader never write to the live system.
THEOREM LiveSystem == Spec => []LiveSystemUntouched
<1>1. InstallerInv => LiveSystemUntouched
  BY DEF InstallerInv
<1> QED BY <1>1, InstallerInvariant, PTL

\* What "Installation Complete!" is worth.
THEOREM Completion == Spec => []CompletedRun
<1>1. InstallerInv => CompletedRun
  BY DEF InstallerInv
<1> QED BY <1>1, InstallerInvariant, PTL

\* Until the final rm -rf the run touches the data of its target only, although
\* it writes through mount points other disks may be mounted on as well.
THEOREM OtherDisks == Spec => OtherDisksKept
<1> DEFINE Kept(d) == /\ table'[d] = table[d] /\ parts'[d] = parts[d]
                      /\ espfile'[d] = espfile[d] /\ rootfile'[d] = rootfile[d]
                      /\ boot'[d] = boot[d]
<1>1. ASSUME InstallerInv, Next, pc # "rm_mnt", NEW d \in Disks, d # target'
      PROVE  Kept(d)
  <2> USE <1>1 DEF InstallerInv, Errexit, Ignored
  <2>1. CASE main \/ select_disk \/ Kill \/ Reboot
    BY <2>1 DEF main, select_disk, Kill, Reboot
  <2>2. CASE partition_disk
    BY <2>2 DEF partition_disk, clear_headers, gpt_create, add_efi, add_root, add_swap,
        AddPartition, AddRest, TypeOK, TableTypes
  <2>3. CASE create_filesystems
    BY <2>3 DEF create_filesystems, newfs_esp, newfs_root, TypeOK, FileTypes
  <2>4. CASE copy_system
    <3>1. CASE mount_root \/ read_username \/ read_password
      BY <3>1 DEF mount_root, read_username, read_password
    <3>2. CASE copy \/ write_fstab \/ set_hostname \/ useradd
      <4>1. mnt # <<>> /\ Last(mnt) = target /\ target' = target
        BY <3>2 DEF copy, write_fstab, set_hostname, useradd, TargetOnTop, RootMounted
      <4> QED BY <3>2, <4>1 DEF copy, write_fstab, set_hostname, useradd, WriteRoot,
            TypeOK, FileTypes
    <3> QED BY <2>4, <3>1, <3>2 DEF copy_system
  <2>5. CASE install_bootloader
    <3>1. CASE mount_esp \/ umount_esp
      BY <3>1 DEF mount_esp, umount_esp
    <3>2. CASE copy_kernel \/ install_loader \/ write_boot_cfg
      <4>1. esp # <<>> /\ Last(esp) = target /\ target' = target
        BY <3>2 DEF copy_kernel, install_loader, write_boot_cfg, TargetOnTop, EspMounted
      <4> QED BY <3>2, <4>1 DEF copy_kernel, install_loader, write_boot_cfg, WriteEsp,
            TypeOK, FileTypes
    <3> QED BY <2>5, <3>1, <3>2 DEF install_bootloader
  <2>6. CASE finalize
    BY <2>6 DEF finalize, umount_root, rm_mountpoints
  <2> QED BY <2>1, <2>2, <2>3, <2>4, <2>5, <2>6 DEF Next, Step
<1>2. InstallerInv /\ [Next]_vars =>
        [\A d \in Disks : (d # target' /\ pc # "rm_mnt") => Kept(d)]_vars
  BY <1>1
<1> QED BY <1>2, InstallerInvariant, PTL DEF Spec, OtherDisksKept

\* finalize's rm -rf keeps the installed files once the target is unmounted.
THEOREM InstallKept == Spec => UnmountedInstallKept
<1>1. InstallerInv /\ [Next]_vars =>
        [(pc = "rm_mnt" /\ last' = "complete" /\ target \notin ToSet(mnt)) =>
            {"etc", "fstab", "myname"} \subseteq rootfile'[target]]_vars
  <2> SUFFICES ASSUME InstallerInv, Next, pc = "rm_mnt", last' = "complete",
                      target \notin ToSet(mnt)
               PROVE  {"etc", "fstab", "myname"} \subseteq rootfile'[target]
    OBVIOUS
  <2>1. rm_mountpoints
    BY DEF Next, Step, main, Kill, Reboot, Errexit, Ignored, select_disk, partition_disk,
        clear_headers, gpt_create, add_efi, add_root, add_swap, create_filesystems,
        newfs_esp, newfs_root, copy_system, mount_root, copy, write_fstab, set_hostname,
        read_username, read_password, useradd, install_bootloader, mount_esp,
        copy_kernel, install_loader, write_boot_cfg, umount_esp, finalize, umount_root
  <2>2. target \in Disks /\ {"etc", "fstab", "myname"} \subseteq rootfile[target]
    BY DEF InstallerInv, Progress, Partitioned, PastNewfs, PastFstab, PastNames,
        RootMounted
  <2>3. mnt # <<>> => Last(mnt) # target
    BY StackPop DEF InstallerInv, TypeOK, MountTypes
  <2> QED BY <2>1, <2>2, <2>3 DEF rm_mountpoints, Emptied, InstallerInv, TypeOK, FileTypes
<1> QED BY <1>1, InstallerInvariant, PTL DEF Spec, UnmountedInstallKept

-----------------------------------------------------------------------------
(* install_bootloader, on a live system that has a kernel and a loader     *)

\* What is on the target's ESP when the kernel, and then the loader, are past.
LoaderInv ==
  /\ pc \in {"loader", "boot_cfg", "umount_esp"} => "netbsd" \in espfile[target]
  /\ pc \in {"boot_cfg", "umount_esp"} => "bootx64.efi" \in espfile[target]

\* Only three commands lead into those labels.
LEMMA LoaderLabels ==
  ASSUME InstallerInv, Next
  PROVE  \/ pc' \notin {"loader", "boot_cfg", "umount_esp"}
         \/ copy_kernel \/ install_loader \/ write_boot_cfg
<1> USE DEF Errexit, Ignored
<1>1. CASE main \/ select_disk \/ Kill \/ Reboot
  BY <1>1 DEF main, select_disk, Kill, Reboot
<1>2. CASE partition_disk
  BY <1>2 DEF partition_disk, clear_headers, gpt_create, add_efi, add_root, add_swap
<1>3. CASE create_filesystems
  BY <1>3 DEF create_filesystems, newfs_esp, newfs_root
<1>4. CASE copy_system
  BY <1>4 DEF copy_system, mount_root, copy, write_fstab, set_hostname, read_username,
      read_password, useradd
<1>5. CASE install_bootloader
  BY <1>5 DEF install_bootloader, mount_esp, umount_esp
<1>6. CASE finalize
  BY <1>6 DEF finalize, umount_root, rm_mountpoints
<1> QED BY <1>1, <1>2, <1>3, <1>4, <1>5, <1>6 DEF Next, Step

\* cp of the kernel is under errexit, so "loader" is reached with it on the ESP.
LEMMA KernelCopied ==
  ASSUME InstallerInv, "netbsd" \in LiveFiles, copy_kernel
  PROVE  LoaderInv'
<1>1. CASE Errexit(TRUE)
  BY <1>1 DEF Errexit, LoaderInv
<1>2. CASE WriteEsp({"netbsd"}) /\ Goto("loader") /\ At("kernel")
  <2>1. target \in Disks /\ espfile' = [espfile EXCEPT ![target] = @ \cup {"netbsd"}]
    BY <1>2, WriteEspEffect DEF EspMounted, EspFiles
  <2>2. espfile \in [Disks -> SUBSET EspFiles]
    BY DEF InstallerInv, TypeOK, FileTypes
  <2> QED BY <1>2, <2>1, <2>2 DEF LoaderInv
<1> QED BY <1>1, <1>2 DEF copy_kernel

\* So is cp of the loader, which leaves the kernel where it is.
LEMMA LoaderCopied ==
  ASSUME InstallerInv, LoaderInv, "bootx64.efi" \in LiveFiles, install_loader
  PROVE  LoaderInv'
<1>1. CASE Errexit(TRUE)
  BY <1>1 DEF Errexit, LoaderInv
<1>2. CASE WriteEsp({"bootx64.efi"}) /\ Goto("boot_cfg") /\ At("loader")
  <2>1. target \in Disks /\ espfile' = [espfile EXCEPT ![target] = @ \cup {"bootx64.efi"}]
    BY <1>2, WriteEspEffect DEF EspMounted, EspFiles
  <2>2. espfile \in [Disks -> SUBSET EspFiles]
    BY DEF InstallerInv, TypeOK, FileTypes
  <2> QED BY <1>2, <2>1, <2>2 DEF LoaderInv
<1> QED BY <1>1, <1>2 DEF install_loader

\* boot.cfg is added to both.
LEMMA BootCfgWritten ==
  ASSUME InstallerInv, LoaderInv, write_boot_cfg
  PROVE  LoaderInv'
<1>1. CASE Errexit(TRUE)
  BY <1>1 DEF Errexit, LoaderInv
<1>2. CASE WriteEsp({"boot.cfg"}) /\ Goto("umount_esp") /\ At("boot_cfg")
  <2>1. target \in Disks /\ espfile' = [espfile EXCEPT ![target] = @ \cup {"boot.cfg"}]
    BY <1>2, WriteEspEffect DEF EspMounted, EspFiles
  <2>2. espfile \in [Disks -> SUBSET EspFiles]
    BY DEF InstallerInv, TypeOK, FileTypes
  <2> QED BY <1>2, <2>1, <2>2 DEF LoaderInv
<1> QED BY <1>1, <1>2 DEF write_boot_cfg

\* "Bootloader installed." is true on a live system that has a kernel and a
\* loader to copy, whatever ESPs of earlier runs are mounted below the target's
\* (install.sh: install_bootloader writes through the mount point).
THEOREM BootloaderInPlace ==
  ASSUME {"netbsd", "bootx64.efi"} \subseteq LiveFiles
  PROVE  Spec => []BootloaderInstalled
<1>1. Init => LoaderInv
  BY DEF Init, LoaderInv
<1>2. InstallerInv /\ LoaderInv /\ [Next]_vars => LoaderInv'
  <2> SUFFICES ASSUME InstallerInv, LoaderInv, [Next]_vars PROVE LoaderInv'
    OBVIOUS
  <2>1. CASE UNCHANGED vars
    BY <2>1 DEF LoaderInv
  <2>2. CASE pc' \notin {"loader", "boot_cfg", "umount_esp"}
    BY <2>2 DEF LoaderInv
  <2>3. CASE copy_kernel \/ install_loader \/ write_boot_cfg
    BY <2>3, KernelCopied, LoaderCopied, BootCfgWritten
  <2> QED BY <2>1, <2>2, <2>3, LoaderLabels
<1>3. LoaderInv => BootloaderInstalled
  BY DEF LoaderInv, BootloaderInstalled
<1> QED BY <1>1, <1>2, <1>3, InstallerInvariant, PTL DEF Spec

=============================================================================
