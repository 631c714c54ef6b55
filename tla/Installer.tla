------------------------------ MODULE Installer ------------------------------
(***************************************************************************)
(* The hard disk installer, configs/netbsd/install/install.sh.             *)
(*                                                                         *)
(* The script is one sequential process under `set -e' with no trap.  Its  *)
(* state is pc, the command it runs next, and its shell variables.  What   *)
(* outlives a run is on the machine: the disks, the two stacks of file     *)
(* systems mounted on /mnt/install-target and /mnt/install-esp, and the    *)
(* terminal's echo flag.  A run ends by finishing, by errexit, by an       *)
(* explicit exit, or by being killed; the operator may start it again,     *)
(* with the same disk or another, with whatever the previous run left      *)
(* mounted still mounted.                                                  *)
(***************************************************************************)
EXTENDS Integers, SequencesExt

CONSTANTS
  Disks,       \* whole disks the globs of select_disk list
  OtherNodes,  \* other answers that pass its -e tests ("" does: /dev/ exists)
  NoTarget,    \* $TARGET_DISK before it is read
  DiskMb,      \* size of each disk in MB
  LiveDirs,    \* directories of the copy loop that exist on the live system
  LiveFiles,   \* which of /netbsd and a bootx64.efi the live system has
  Faults,      \* TRUE: any tool may fail and any prompt may meet end of file
  MaxRuns      \* bound: how often the operator starts the script

ASSUME InstallerAssumption ==
  /\ Disks \cap OtherNodes = {}
  /\ NoTarget \notin Disks \cup OtherNodes
  /\ DiskMb \in [Disks -> Nat]
  /\ LiveFiles \subseteq {"netbsd", "bootx64.efi"}
  /\ Faults \in BOOLEAN
  /\ MaxRuns \in Nat

VARIABLES
  pc,         \* command to run next; "idle" when no installer runs
  runs,       \* number of runs so far
  last,       \* how the latest run ended, or "running"
  target,     \* $TARGET_DISK
  total_mb,   \* $total_mb of partition_disk
  fresh_gpt,  \* gpt create succeeded in this run
  table,      \* partition table of each disk
  parts,      \* labels of its GPT partitions, in partition order
  free,       \* MB not allocated to a partition
  espfs,      \* partition 1 holds a FAT file system
  rootfs,     \* partition 2 holds an FFS file system
  espfile,    \* what is in the file system of partition 1
  rootfile,   \* what is in the file system of partition 2
  boot,       \* boot blocks and firmware entries made for the disk
  mnt,        \* disks whose partition 2 is on /mnt/install-target, top last
  esp,        \* disks whose partition 1 is on /mnt/install-esp, top last
  live,       \* files written below the mount points onto the live system
  echo,       \* the terminal echoes
  confirmed   \* disks the operator has ever answered YES for

runVars   == <<pc, runs, last, target, total_mb, fresh_gpt>>
tableVars == <<table, parts, free>>
fileVars  == <<espfs, rootfs, espfile, rootfile, boot, live>>
mountVars == <<mnt, esp>>
vars == <<runVars, tableVars, fileVars, mountVars, echo, confirmed>>

Layout    == <<"EFI", "STAR_TALK", "SWAP">>
RootFiles == LiveDirs \cup {"fstab", "myname", "user"}
EspFiles  == {"netbsd", "bootx64.efi", "boot.cfg"}

Labels == {"idle", "select", "clear", "gpt_create", "add_efi", "add_root",
           "add_swap", "newfs_esp", "newfs_root", "mount_root", "copy",
           "fstab", "hostname", "username", "password", "useradd",
           "mount_esp", "kernel", "loader", "boot_cfg", "umount_esp",
           "umount_root", "rm_mnt"}

Results == {"none", "running", "cancelled", "failed", "killed", "complete"}

-----------------------------------------------------------------------------
(* Sizes of partition_disk, and what the external tools do.                *)

efi_mb  == 260
swap_mb == 4096
root_mb == total_mb - efi_mb - swap_mb - 10

\* gpt(8) keeps its two tables in less than one MB.
GptMb == 1

\* gpt add: needs a GPT and free space for the size asked.
CanAdd(mb) == target \in Disks /\ table[target] = "gpt" /\ 0 < mb /\ mb <= free[target]

AddPartition(label, mb) ==
  /\ CanAdd(mb)
  /\ parts' = [parts EXCEPT ![target] = Append(@, label)]
  /\ free'  = [free EXCEPT ![target] = @ - mb]
  /\ UNCHANGED table

\* gpt add without -s takes all the space that is left.
AddRest(label) == target \in Disks /\ AddPartition(label, free[target])


\* A file written below a mount point goes to the file system on top of the
\* stack or, when nothing is mounted there, to the live system.
WriteRoot(files) ==
  IF mnt = <<>>
  THEN live' = live \cup files /\ UNCHANGED rootfile
  ELSE rootfile' = [rootfile EXCEPT ![Last(mnt)] = @ \cup files] /\ UNCHANGED live

WriteEsp(files) ==
  IF esp = <<>>
  THEN live' = live \cup files /\ UNCHANGED espfile
  ELSE espfile' = [espfile EXCEPT ![Last(esp)] = @ \cup files] /\ UNCHANGED live

-----------------------------------------------------------------------------
(* Control: go on to the next command, or end the run.                     *)

At(label)   == pc = label
Goto(label) == pc' = label /\ UNCHANGED <<runs, last, target, total_mb, fresh_gpt>>
Exit(how)   == pc' = "idle" /\ last' = how /\ UNCHANGED <<runs, target, total_mb, fresh_gpt>>

\* errexit: a command whose failure nothing catches.  `possible' says when it
\* has to succeed if tools do not fail on their own.
Errexit(possible) ==
  /\ Faults \/ ~possible
  /\ Exit("failed")
  /\ UNCHANGED <<tableVars, fileVars, mountVars, echo, confirmed>>

\* The command fails, is caught by `|| true' or `|| printf', and changes nothing.
Ignored(possible, label) ==
  /\ Faults \/ ~possible
  /\ Goto(label)
  /\ UNCHANGED <<tableVars, fileVars, mountVars, echo, confirmed>>

-----------------------------------------------------------------------------
Init ==
  /\ pc = "idle" /\ runs = 0 /\ last = "none"
  /\ target = NoTarget /\ total_mb = 0 /\ fresh_gpt = FALSE
  /\ table  = [d \in Disks |-> "owner"]
  /\ parts  = [d \in Disks |-> <<>>]
  /\ free   = [d \in Disks |-> 0]
  /\ espfs  = [d \in Disks |-> FALSE]
  /\ rootfs = [d \in Disks |-> FALSE]
  /\ espfile  = [d \in Disks |-> {}]
  /\ rootfile = [d \in Disks |-> {}]
  /\ boot = [d \in Disks |-> {}]
  /\ mnt = <<>> /\ esp = <<>> /\ live = {}
  /\ echo = TRUE
  /\ confirmed = {}

(* main: the root check; missing tools are only reported.                  *)
main ==
  /\ At("idle") /\ runs < MaxRuns
  /\ runs' = runs + 1
  /\ \/ pc' = "select" /\ last' = "running"
     \/ Faults /\ pc' = "idle" /\ last' = "failed"
  /\ target' = NoTarget /\ total_mb' = 0 /\ fresh_gpt' = FALSE
  /\ UNCHANGED <<tableVars, fileVars, mountVars, echo, confirmed>>

\* Mutant: YES is not waited for.
select_disk_unconfirmed ==
  /\ At("select")
  /\ \E disk \in Disks \cup OtherNodes :
       /\ target' = disk /\ pc' = "clear"
       /\ UNCHANGED <<runs, last, total_mb, fresh_gpt, tableVars, fileVars, mountVars,
                      echo, confirmed>>

(* select_disk: no disks, end of file or an answer that names no node      *)
(* exits 1; an answer other than YES exits 0.                              *)
select_disk ==
  /\ At("select")
  /\ \/ Errexit(Disks # {})
     \/ \E disk \in Disks \cup OtherNodes :
          /\ target' = disk
          /\ \/ pc' = "idle" /\ last' = "cancelled" /\ UNCHANGED confirmed
             \/ /\ pc' = "clear" /\ confirmed' = confirmed \cup {disk}
                /\ UNCHANGED last
          /\ UNCHANGED <<runs, total_mb, fresh_gpt, tableVars, fileVars, mountVars, echo>>

-----------------------------------------------------------------------------
(* partition_disk                                                          *)

\* disklabel gives the size or nothing, which the arithmetic takes for 0;
\* dd over the first megabyte may fail.
clear_headers ==
  /\ At("clear")
  /\ pc' = "gpt_create"
  /\ \/ target \in Disks /\ total_mb' = DiskMb[target]
     \/ (Faults \/ target \notin Disks) /\ total_mb' = 0
  /\ \/ /\ target \in Disks
        /\ table' = [table EXCEPT ![target] = "blank"]
        /\ parts' = [parts EXCEPT ![target] = <<>>]
        /\ free'  = [free EXCEPT ![target] = 0]
     \/ (Faults \/ target \notin Disks) /\ UNCHANGED tableVars
  /\ UNCHANGED <<runs, last, target, fresh_gpt, fileVars, mountVars, echo, confirmed>>

\* gpt destroy || true; gpt create -f || (fdisk || true).
gpt_create ==
  /\ At("gpt_create")
  /\ \/ /\ target \in Disks /\ GptMb <= DiskMb[target]
        /\ table' = [table EXCEPT ![target] = "gpt"]
        /\ parts' = [parts EXCEPT ![target] = <<>>]
        /\ free'  = [free EXCEPT ![target] = DiskMb[target] - GptMb]
        /\ pc' = "add_efi" /\ fresh_gpt' = TRUE
        /\ UNCHANGED <<runs, last, target, total_mb, fileVars, mountVars, echo, confirmed>>
     \/ /\ Faults /\ target \in Disks
        /\ \E left \in {"blank", "mbr"} : table' = [table EXCEPT ![target] = left]
        /\ parts' = [parts EXCEPT ![target] = <<>>]
        /\ free'  = [free EXCEPT ![target] = 0]
        /\ Goto("add_efi")
        /\ UNCHANGED <<fileVars, mountVars, echo, confirmed>>
     \/ Ignored(target \in Disks /\ GptMb <= DiskMb[target], "add_efi")

\* Both forms of the command ask for the same size.
add_efi ==
  /\ At("add_efi")
  /\ \/ /\ AddPartition("EFI", efi_mb) /\ Goto("add_root")
        /\ UNCHANGED <<fileVars, mountVars, echo, confirmed>>
     \/ Errexit(CanAdd(efi_mb))

\* The first form of gpt add has no -s, the fallback has.
add_root ==
  /\ At("add_root")
  /\ \/ /\ \/ AddRest("STAR_TALK")
           \/ Faults /\ AddPartition("STAR_TALK", root_mb)
        /\ Goto("add_swap")
        /\ UNCHANGED <<fileVars, mountVars, echo, confirmed>>
     \/ Errexit(CanAdd(free[target]))

\* Mutant: the failure of gpt add is only reported.
add_swap_ignored ==
  /\ At("add_swap")
  /\ Ignored(CanAdd(free[target]), "newfs_esp")

add_swap ==
  /\ At("add_swap")
  /\ \/ /\ \/ AddRest("SWAP")
           \/ Faults /\ AddPartition("SWAP", swap_mb)
        /\ Goto("newfs_esp")
        /\ UNCHANGED <<fileVars, mountVars, echo, confirmed>>
     \/ Errexit(CanAdd(free[target]))

partition_disk == clear_headers \/ gpt_create \/ add_efi \/ add_root \/ add_swap

-----------------------------------------------------------------------------
(* create_filesystems                                                      *)

newfs_esp ==
  /\ At("newfs_esp")
  /\ \/ /\ Len(parts[target]) >= 1
        /\ espfs' = [espfs EXCEPT ![target] = TRUE]
        /\ espfile' = [espfile EXCEPT ![target] = {}]
        /\ Goto("newfs_root")
        /\ UNCHANGED <<tableVars, rootfs, rootfile, boot, live, mountVars, echo, confirmed>>
     \/ Ignored(Len(parts[target]) >= 1, "newfs_root")

newfs_root ==
  /\ At("newfs_root")
  /\ \/ /\ Len(parts[target]) >= 2
        /\ rootfs' = [rootfs EXCEPT ![target] = TRUE]
        /\ rootfile' = [rootfile EXCEPT ![target] = {}]
        /\ Goto("mount_root")
        /\ UNCHANGED <<tableVars, espfs, espfile, boot, live, mountVars, echo, confirmed>>
     \/ Errexit(Len(parts[target]) >= 2)

create_filesystems == newfs_esp \/ newfs_root

-----------------------------------------------------------------------------
(* copy_system                                                             *)

\* mount refuses a device that is mounted already; over another mount it
\* stacks.  Its failure is not caught.
CanMountRoot == rootfs[target] /\ target \notin ToSet(mnt)

\* Mutant: the failure of mount is only reported.
mount_root_unchecked ==
  /\ At("mount_root")
  /\ \/ /\ CanMountRoot
        /\ mnt' = Append(mnt, target)
        /\ Goto("copy")
        /\ UNCHANGED <<tableVars, fileVars, esp, echo, confirmed>>
     \/ Ignored(CanMountRoot, "copy")

mount_root ==
  /\ At("mount_root")
  /\ \/ /\ CanMountRoot
        /\ mnt' = Append(mnt, target)
        /\ Goto("copy")
        /\ UNCHANGED <<tableVars, fileVars, esp, echo, confirmed>>
     \/ Errexit(CanMountRoot)

\* The loop over the directories: one that cannot be copied is reported and
\* skipped.
copy ==
  /\ At("copy")
  /\ \E copied \in SUBSET LiveDirs :
       /\ Faults \/ copied = LiveDirs
       /\ WriteRoot(copied)
  /\ Goto("fstab")
  /\ UNCHANGED <<tableVars, espfs, rootfs, espfile, boot, mountVars, echo, confirmed>>

\* cat > $mnt/etc/fstab: the redirection fails when etc was not copied.
EtcCopied == mnt # <<>> /\ "etc" \in rootfile[Last(mnt)]

write_fstab ==
  /\ At("fstab")
  /\ \/ /\ EtcCopied
        /\ WriteRoot({"fstab"})
        /\ Goto("hostname")
        /\ UNCHANGED <<tableVars, espfs, rootfs, espfile, boot, mountVars, echo, confirmed>>
     \/ Errexit(EtcCopied)

set_hostname ==
  /\ At("hostname")
  /\ \/ /\ WriteRoot({"myname"})
        /\ Goto("username")
        /\ UNCHANGED <<tableVars, espfs, rootfs, espfile, boot, mountVars, echo, confirmed>>
     \/ Errexit(TRUE)

\* read USERNAME, then stty -echo.
read_username ==
  /\ At("username")
  /\ \/ /\ echo' = FALSE
        /\ Goto("password")
        /\ UNCHANGED <<tableVars, fileVars, mountVars, confirmed>>
     \/ Errexit(TRUE)

\* read PASSWORD, then stty echo; at end of file errexit comes first.
read_password ==
  /\ At("password")
  /\ \/ /\ echo' = TRUE
        /\ Goto("useradd")
        /\ UNCHANGED <<tableVars, fileVars, mountVars, confirmed>>
     \/ Errexit(TRUE)

useradd ==
  /\ At("useradd")
  /\ \/ /\ mnt # <<>> /\ "usr" \in rootfile[Last(mnt)]
        /\ WriteRoot({"user"})
        /\ Goto("mount_esp")
        /\ UNCHANGED <<tableVars, espfs, rootfs, espfile, boot, mountVars, echo, confirmed>>
     \/ Ignored(mnt # <<>> /\ "usr" \in rootfile[Last(mnt)], "mount_esp")

copy_system == \/ mount_root \/ copy \/ write_fstab \/ set_hostname
               \/ read_username \/ read_password \/ useradd

-----------------------------------------------------------------------------
(* install_bootloader                                                      *)

\* When the partition cannot be mounted the function returns.
CanMountEsp == espfs[target] /\ target \notin ToSet(esp)

\* Mutant: the function does not return.
mount_esp_unchecked ==
  /\ At("mount_esp")
  /\ \/ /\ CanMountEsp
        /\ esp' = Append(esp, target)
        /\ Goto("kernel")
        /\ UNCHANGED <<tableVars, fileVars, mnt, echo, confirmed>>
     \/ Ignored(CanMountEsp, "kernel")

mount_esp ==
  /\ At("mount_esp")
  /\ \/ /\ CanMountEsp
        /\ esp' = Append(esp, target)
        /\ Goto("kernel")
        /\ UNCHANGED <<tableVars, fileVars, mnt, echo, confirmed>>
     \/ Ignored(CanMountEsp, "umount_root")

\* Mutant: the failure of cp is only reported.
copy_kernel_ignored == At("kernel") /\ Ignored(TRUE, "loader")

\* cp of /netbsd, else of $mnt/netbsd, which the copy loop never brings; the
\* kernel may be missing without a word.
copy_kernel ==
  /\ At("kernel")
  /\ \/ /\ IF \/ "netbsd" \in LiveFiles
              \/ mnt # <<>> /\ "netbsd" \in rootfile[Last(mnt)]
           THEN WriteEsp({"netbsd"})
           ELSE UNCHANGED <<espfile, live>>
        /\ Goto("loader")
        /\ UNCHANGED <<tableVars, espfs, rootfs, rootfile, boot, mountVars, echo, confirmed>>
     \/ Errexit(TRUE)

\* cp of bootx64.efi, else installboot || printf.
install_loader ==
  /\ At("loader")
  /\ \/ /\ "bootx64.efi" \in LiveFiles
        /\ WriteEsp({"bootx64.efi"})
        /\ Goto("boot_cfg")
        /\ UNCHANGED <<tableVars, espfs, rootfs, rootfile, boot, mountVars, echo, confirmed>>
     \/ /\ "bootx64.efi" \notin LiveFiles
        /\ boot' = [boot EXCEPT ![target] = @ \cup {"bootxx"}]
        /\ Goto("boot_cfg")
        /\ UNCHANGED <<tableVars, espfs, rootfs, espfile, rootfile, live, mountVars, echo, confirmed>>
     \/ "bootx64.efi" \notin LiveFiles /\ Ignored(TRUE, "boot_cfg")
     \/ "bootx64.efi" \in LiveFiles /\ Errexit(TRUE)

\* boot.cfg, then efibootmgr || printf.
write_boot_cfg ==
  /\ At("boot_cfg")
  /\ \/ /\ WriteEsp({"boot.cfg"})
        /\ \/ boot' = [boot EXCEPT ![target] = @ \cup {"nvram"}]
           \/ Faults /\ UNCHANGED boot
        /\ Goto("umount_esp")
        /\ UNCHANGED <<tableVars, espfs, rootfs, rootfile, mountVars, echo, confirmed>>
     \/ Errexit(TRUE)

\* umount || true: a busy file system stays mounted.
umount_esp ==
  /\ At("umount_esp")
  /\ \/ /\ esp # <<>>
        /\ esp' = Front(esp)
        /\ Goto("umount_root")
        /\ UNCHANGED <<tableVars, fileVars, mnt, echo, confirmed>>
     \/ Ignored(esp # <<>>, "umount_root")

install_bootloader == \/ mount_esp \/ copy_kernel \/ install_loader
                      \/ write_boot_cfg \/ umount_esp

-----------------------------------------------------------------------------
(* finalize                                                                *)

\* Mutant: rm -rf comes before the umount.
umount_root_late ==
  /\ At("umount_root") /\ mnt # <<>>
  /\ rootfile' = [rootfile EXCEPT ![Last(mnt)] = {}]
  /\ mnt' = Front(mnt)
  /\ Goto("rm_mnt")
  /\ UNCHANGED <<tableVars, espfs, rootfs, espfile, boot, live, esp, echo, confirmed>>

umount_root ==
  /\ At("umount_root")
  /\ \/ /\ mnt # <<>>
        /\ mnt' = Front(mnt)
        /\ Goto("rm_mnt")
        /\ UNCHANGED <<tableVars, fileVars, esp, echo, confirmed>>
     \/ Ignored(mnt # <<>>, "rm_mnt")

\* rm -rf of both mount points empties whatever is still mounted on top of
\* them.  The run then reports "Installation Complete!".
Emptied(files, stack) ==
  IF stack = <<>> THEN files ELSE [files EXCEPT ![Last(stack)] = {}]

rm_mountpoints ==
  /\ At("rm_mnt")
  /\ rootfile' = Emptied(rootfile, mnt)
  /\ espfile'  = Emptied(espfile, esp)
  /\ live' = IF mnt = <<>> /\ esp = <<>> THEN {} ELSE live
  /\ Exit("complete")
  /\ UNCHANGED <<tableVars, espfs, rootfs, boot, mountVars, echo, confirmed>>

finalize == umount_root \/ rm_mountpoints

-----------------------------------------------------------------------------
(* The operator interrupts the script, or reboots the machine: a reboot    *)
(* unmounts everything and resets the terminal.                            *)
Kill ==
  /\ Faults /\ pc # "idle"
  /\ Exit("killed")
  /\ UNCHANGED <<tableVars, fileVars, mountVars, echo, confirmed>>

Reboot ==
  /\ mnt' = <<>> /\ esp' = <<>> /\ echo' = TRUE
  /\ IF pc = "idle" THEN UNCHANGED <<pc, last>> ELSE pc' = "idle" /\ last' = "killed"
  /\ Faults \/ pc = "idle"
  /\ UNCHANGED <<runs, target, total_mb, fresh_gpt, tableVars, fileVars, confirmed>>

Step == \/ select_disk \/ partition_disk \/ create_filesystems
        \/ copy_system \/ install_bootloader \/ finalize

Next == main \/ Step \/ Kill \/ Reboot

Spec == Init /\ [][Next]_vars

-----------------------------------------------------------------------------
(* Properties                                                              *)

RunTypes ==
  /\ pc \in Labels /\ runs \in Nat /\ last \in Results
  /\ target \in Disks \cup OtherNodes \cup {NoTarget}
  /\ total_mb \in Int /\ fresh_gpt \in BOOLEAN

TableTypes ==
  /\ table \in [Disks -> {"owner", "blank", "mbr", "gpt"}]
  /\ parts \in [Disks -> Seq({"EFI", "STAR_TALK", "SWAP"})]
  /\ free \in [Disks -> Nat]

FileTypes ==
  /\ espfs \in [Disks -> BOOLEAN] /\ rootfs \in [Disks -> BOOLEAN]
  /\ espfile \in [Disks -> SUBSET EspFiles]
  /\ rootfile \in [Disks -> SUBSET RootFiles]
  /\ boot \in [Disks -> SUBSET {"bootxx", "nvram"}]
  /\ live \subseteq RootFiles \cup EspFiles

MountTypes ==
  /\ mnt \in Seq(Disks) /\ esp \in Seq(Disks)
  /\ echo \in BOOLEAN
  /\ confirmed \subseteq Disks \cup OtherNodes

\* Type correctness: in particular the target is a node that exists, no
\* partition is larger than the space that was free, and only file systems of
\* listed disks are ever mounted (install.sh: the -e tests of select_disk).
TypeOK == RunTypes /\ TableTypes /\ FileTypes /\ MountTypes

\* From the mount of the root partition to its unmount.
RootMounted == {"copy", "fstab", "hostname", "username", "password", "useradd",
                "mount_esp", "kernel", "loader", "boot_cfg", "umount_esp",
                "umount_root"}
EspMounted  == {"kernel", "loader", "boot_cfg", "umount_esp"}
PastNewfs   == RootMounted \cup {"mount_root", "rm_mnt"}
PastFstab   == PastNewfs \ {"mount_root", "copy", "fstab"}
PastNames   == PastFstab \ {"hostname"}
PastPrompts == PastNames \ {"username", "password"}

\* The partitions made when n of the three gpt add commands have succeeded.
Partitioned(n, made) ==
  /\ target \in Disks
  /\ table[target] = "gpt" /\ Len(parts[target]) >= n
  /\ fresh_gpt => parts[target] = made

ConfirmedTargets ==
  /\ pc \notin {"idle", "select"} => target \in confirmed
  /\ ToSet(mnt) \subseteq confirmed /\ ToSet(esp) \subseteq confirmed

TargetOnTop ==
  /\ pc \in RootMounted => mnt # <<>> /\ Last(mnt) = target
  /\ pc \in EspMounted  => esp # <<>> /\ Last(esp) = target

Progress ==
  /\ pc \in {"select", "clear", "gpt_create"} => ~fresh_gpt
  /\ pc = "add_efi" /\ fresh_gpt => target \in Disks /\ parts[target] = <<>>
  /\ pc = "add_root" => Partitioned(1, <<"EFI">>)
  /\ pc = "add_swap" => Partitioned(2, <<"EFI", "STAR_TALK">>)
  /\ (pc \in {"newfs_esp", "newfs_root"} \cup PastNewfs) => Partitioned(3, Layout)
  /\ pc \in PastNewfs => rootfs[target]
  /\ pc \in PastFstab => {"etc", "fstab"} \subseteq rootfile[target]
  /\ pc \in PastNames => "myname" \in rootfile[target]
  /\ pc \in PastPrompts => echo
  /\ last = "complete" => pc = "idle"

Untouched(d) ==
  /\ table[d] = "owner" /\ parts[d] = <<>>
  /\ ~espfs[d] /\ ~rootfs[d]
  /\ espfile[d] = {} /\ rootfile[d] = {} /\ boot[d] = {}

\* Nothing is written to a disk the operator never answered YES for, however
\* runs fail, are killed and are repeated, and whatever they leave mounted
\* (install.sh: the confirmation of select_disk guards everything after it).
OnlyConfirmedTouched == \A d \in Disks : d \notin confirmed => Untouched(d)

\* Whatever fails, nothing is ever written under the mount points onto the
\* live system's own file system (install.sh: `mount' of the root partition
\* is under errexit, a failing `mount' of the ESP returns).
LiveSystemUntouched == live = {}

\* Until the final rm -rf, no step changes the data of a disk other than the
\* target, although file systems of other disks may be mounted below the
\* target's on the same mount points (install.sh: copy_system and
\* install_bootloader write through the mount points, not to a device).
OtherDisksKept ==
  [][\A d \in Disks :
       (d # target' /\ pc # "rm_mnt") =>
          /\ table'[d] = table[d] /\ parts'[d] = parts[d]
          /\ espfile'[d] = espfile[d] /\ rootfile'[d] = rootfile[d]
          /\ boot'[d] = boot[d]]_vars

\* A run that reports completion has a GPT with the three partitions that the
\* fstab it wrote names by number; they are exactly EFI, root and swap, in
\* that order, when `gpt create' succeeded (a failed one is only reported).
\* The terminal echoes again, even if an earlier run was cut at the password.
CompletedRun ==
  last = "complete" =>
     /\ target \in Disks
     /\ table[target] = "gpt" /\ Len(parts[target]) >= 3
     /\ fresh_gpt => parts[target] = Layout
     /\ rootfs[target]
     /\ echo

\* The inductive invariant: every mounted disk was confirmed, the target's file
\* system is the one on top from its mount to its unmount, and each label
\* records what the commands before it have done (install.sh: errexit stops
\* the script before a later command can rely on one that failed).
InstallerInv ==
  /\ TypeOK /\ ConfirmedTargets /\ TargetOnTop /\ Progress
  /\ OnlyConfirmedTouched /\ LiveSystemUntouched /\ CompletedRun

\* The final rm -rf keeps the installed files when the root partition really
\* was unmounted, even with file systems of earlier runs mounted underneath.
UnmountedInstallKept ==
  [][(pc = "rm_mnt" /\ last' = "complete" /\ target \notin ToSet(mnt)) =>
        {"etc", "fstab", "myname"} \subseteq rootfile'[target]]_vars

\* What install_bootloader prints when it ends, "Bootloader installed.": the
\* ESP has the kernel its boot.cfg loads, and a loader is in place.
BootloaderInstalled ==
  pc = "umount_esp" =>
     /\ "netbsd" \in espfile[target]
     /\ "bootx64.efi" \in espfile[target] \/ "bootxx" \in boot[target]

=============================================================================
