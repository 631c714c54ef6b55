------------------------------ MODULE MakeImage ------------------------------
(***************************************************************************)
(* The disk image: 06-make-image.sh, and the targets burn and test-qemu    *)
(* (07-test-qemu.sh), which make an image first.                           *)
(*                                                                         *)
(* The script works outside the tree: on a loop device, a mount point and  *)
(* three fixed names in /tmp.  It has an EXIT trap that cleans up, which a *)
(* killed shell does not run, so a run may start with what earlier ones    *)
(* left.  Any command may fail.  Run r creates image file r; img tells     *)
(* which one has the name of a day.                                        *)
(***************************************************************************)
EXTENDS Integers, SequencesExt

CONSTANTS
  Sources,   \* what there is to copy: "userland", "staging", "pkgsrc"
  Loader,    \* out/bootx64.efi is there
  MaxRuns,   \* bound: runs of the script
  MaxDay     \* bound: days, the date is part of the image's name

ASSUME MakeImageAssumption ==
  /\ Sources \subseteq {"userland", "staging", "pkgsrc"} /\ Loader \in BOOLEAN
  /\ MaxRuns \in Nat /\ MaxDay \in Nat \ {0}

VARIABLES
  pc,        \* command to run next, "idle" when no make runs
  target,    \* "image", "burn" or "test-qemu"
  run,       \* the present or latest run
  status,    \* how it ended: "none", "ok", "failed" or "killed"
  armed,     \* its EXIT trap is set
  stuck,     \* a command of its cleanup failed
  LOOP,      \* $LOOP: image file on its loop device, None before losetup
  day, name, \* today, and the day in the name of the run's image
  img,       \* image file by day, None if there is none
  parts,     \* partitions by image file
  esp,       \* files on the ESP by image file, {} before mkfs
  root,      \* what was written to the root partition by image file
  done,      \* the run announced the image file
  loops,     \* image files on loop devices
  mounts,    \* what is mounted on /tmp/st-esp, the top last
  contents,  \* /tmp/st-root-contents: pairs of a source and the run of the copy
  ffs,       \* /tmp/st-root.ffs
  device     \* image file the operator's device was written with

procVars  == <<target, run, status, armed, stuck, LOOP, name>>
diskVars  == <<img, parts, esp, root, done>>
hostVars  == <<loops, mounts, contents, ffs>>
vars == <<pc, procVars, day, diskVars, hostVars, device>>

None   == 0
Runs   == 1 .. MaxRuns
NoRoot == [by |-> None, has |-> {}, whole |-> FALSE]

ESP_SIZE   == 260
ROOT_SIZE  == 8192
SWAP_SIZE  == 4096

TOTAL_SIZE == ESP_SIZE + ROOT_SIZE + SWAP_SIZE + 5

\* The first partition starts at 1 MiB, and the copy of the GPT ends the disk.
End(n)  == 1 + (IF n >= 1 THEN ESP_SIZE ELSE 0) + (IF n >= 2 THEN ROOT_SIZE ELSE 0)
             + (IF n >= 3 THEN SWAP_SIZE ELSE 0)
Fits(n) == End(n) + 1 <= TOTAL_SIZE

-----------------------------------------------------------------------------
(* Control.                                                                *)

At(label)   == pc = label
Goto(label) == pc' = label /\ UNCHANGED procVars

\* errexit: the trap runs cleanup once it is set.
Die == /\ pc' = IF armed THEN "c_umount" ELSE "idle"
       /\ status' = "failed" /\ UNCHANGED <<target, run, armed, stuck, LOOP, name>>

Killed == /\ pc' = "idle" /\ status' = "killed"
          /\ UNCHANGED <<target, run, armed, stuck, LOOP, name>>

\* A command fails, or the shell is killed in it.
BreaksOff == Die \/ Killed

Set(f, x) == f' = [f EXCEPT ![LOOP] = x]

Init ==
  /\ pc = "idle" /\ target = "image" /\ run = None /\ status = "none"
  /\ armed = FALSE /\ stuck = FALSE /\ LOOP = None /\ day = 1 /\ name = 1
  /\ img = [d \in 1 .. MaxDay |-> None]
  /\ parts = [r \in Runs |-> 0] /\ esp = [r \in Runs |-> {}]
  /\ root = [r \in Runs |-> NoRoot] /\ done = [r \in Runs |-> FALSE]
  /\ loops = {} /\ mounts = <<>> /\ contents = {} /\ ffs = NoRoot
  /\ device = None

midnight ==
  /\ day < MaxDay /\ day' = day + 1
  /\ UNCHANGED <<pc, procVars, diskVars, hostVars, device>>

\* make image, make burn or make test-qemu; the prerequisites of the script
\* are checked before the trap is set.
make_image ==
  /\ At("idle") /\ run < MaxRuns
  /\ target' \in {"image", "burn", "test-qemu"} /\ run' = run + 1 /\ name' = day
  /\ armed' = FALSE /\ stuck' = FALSE /\ LOOP' = None
  /\ \/ pc' = "create" /\ status' = "none"
     \/ pc' = "idle" /\ status' = "failed"
  /\ UNCHANGED <<day, diskVars, hostVars, device>>

-----------------------------------------------------------------------------
(* The partitions.                                                         *)

\* trap, rm -f, dd and truncate
create ==
  /\ At("create")
  /\ armed' = TRUE
  /\ \/ img' = [img EXCEPT ![name] = run] /\ pc' = "losetup" /\ UNCHANGED status
     \/ /\ \E f \in {img[name], None, run} : img' = [img EXCEPT ![name] = f]
        /\ \/ pc' = "c_umount" /\ status' = "failed"
           \/ pc' = "idle" /\ status' = "killed"
  /\ UNCHANGED <<target, run, stuck, LOOP, name, day, parts, esp, root, done, hostVars,
                 device>>

losetup ==
  /\ At("losetup")
  /\ \/ /\ loops' = loops \cup {run} /\ LOOP' = run /\ pc' = "sgdisk"
        /\ UNCHANGED <<target, run, status, armed, stuck, name>>
     \/ BreaksOff /\ UNCHANGED loops
  /\ UNCHANGED <<day, diskVars, mounts, contents, ffs, device>>

\* sgdisk -o, then -n for each partition in turn
sgdisk ==
  /\ At("sgdisk")
  /\ \/ parts[LOOP] < 3 /\ Fits(parts[LOOP] + 1) /\ Set(parts, parts[LOOP] + 1) /\ Goto("sgdisk")
     \/ parts[LOOP] = 3 /\ Goto("format") /\ UNCHANGED parts
     \/ BreaksOff /\ UNCHANGED parts
  /\ UNCHANGED <<day, img, esp, root, done, hostVars, device>>

-----------------------------------------------------------------------------
(* The ESP.                                                                *)

format_esp ==
  /\ At("format")
  /\ \/ Set(esp, {"fs"}) /\ Goto("mount")
     \/ BreaksOff /\ UNCHANGED esp
  /\ UNCHANGED <<day, img, parts, root, done, hostVars, device>>

\* Mutant: the mount's failure is ignored, and the copies go to what an
\* earlier run left mounted.
mount_esp_unchecked ==
  /\ At("mount")
  /\ mounts' \in {Append(mounts, LOOP)} \cup {m \in {mounts} : m # <<>>}
  /\ Goto("populate")
  /\ UNCHANGED <<day, diskVars, loops, contents, ffs, device>>

mount_esp ==
  /\ At("mount")
  /\ \/ mounts' = Append(mounts, LOOP) /\ Goto("populate")
     \/ BreaksOff /\ UNCHANGED mounts
  /\ UNCHANGED <<day, diskVars, loops, contents, ffs, device>>

EspFiles == {"kernel", "boot.cfg"} \cup IF Loader THEN {"loader"} ELSE {}

populate_esp ==
  /\ At("populate")
  /\ \E files \in SUBSET EspFiles :
       /\ esp' = [esp EXCEPT ![Last(mounts)] = @ \cup files]
       /\ \/ files = EspFiles /\ Goto("umount")
          \/ BreaksOff
  /\ UNCHANGED <<day, img, parts, root, done, hostVars, device>>

\* Mutant: a failure of umount is ignored.
umount_esp_ignored ==
  /\ At("umount")
  /\ mounts' \in {Front(mounts), mounts}
  /\ Goto("collect")
  /\ UNCHANGED <<day, diskVars, loops, contents, ffs, device>>

umount_esp ==
  /\ At("umount")
  /\ \/ mounts' = Front(mounts) /\ Goto("collect")
     \/ BreaksOff /\ UNCHANGED mounts
  /\ UNCHANGED <<day, diskVars, loops, contents, ffs, device>>

-----------------------------------------------------------------------------
(* The root partition.                                                     *)

Copied(sources) == {<<s, run>> : s \in sources}

\* Mutant: without the rm -rf of what an earlier run left.
collect_over ==
  /\ At("collect")
  /\ \E sources \in SUBSET Sources : contents' = contents \cup Copied(sources)
  /\ Goto("makefs")
  /\ UNCHANGED <<day, diskVars, loops, mounts, ffs, device>>

\* rm -rf, mkdir, the copies of userland, staging and pkgsrc.  A copy may be
\* incomplete without a failure: `cp ... || true', and pipelines of two tars.
collect ==
  /\ At("collect")
  /\ \/ \E sources \in SUBSET Sources : contents' = Copied(sources) /\ (Goto("makefs") \/ BreaksOff)
     \/ contents' \in SUBSET contents /\ BreaksOff
  /\ UNCHANGED <<day, diskVars, loops, mounts, ffs, device>>

\* nbmakefs | tail -1: when it fails, a file that was there or a part of the
\* new one is left, and the script goes on.
makefs ==
  /\ At("makefs")
  /\ \/ ffs' = [by |-> run, has |-> contents, whole |-> TRUE] /\ Goto("dd")
     \/ ffs' \in {ffs, [by |-> run, has |-> contents, whole |-> FALSE]} /\ (Goto("dd") \/ Killed)
  /\ UNCHANGED <<day, diskVars, loops, mounts, contents, device>>

\* dd needs the file.
write_root ==
  /\ At("dd")
  /\ \/ /\ ffs # NoRoot /\ Set(root, ffs)
        /\ pc' = "c_umount" /\ status' = "ok"
        /\ UNCHANGED <<target, run, armed, stuck, LOOP, name>>
     \/ ffs # NoRoot /\ Set(root, [ffs EXCEPT !.whole = FALSE]) /\ BreaksOff
     \/ BreaksOff /\ UNCHANGED root
  /\ UNCHANGED <<day, img, parts, esp, done, hostVars, device>>

-----------------------------------------------------------------------------
(* cleanup, called at the end and by the trap; every failure is ignored.   *)

Cleaned(label) == pc' = label /\ UNCHANGED <<target, run, status, armed, LOOP, name>>

cleanup_umount ==
  /\ At("c_umount")
  /\ \/ mounts # <<>> /\ mounts' = Front(mounts) /\ UNCHANGED stuck
     \/ mounts # <<>> /\ UNCHANGED mounts /\ stuck' = TRUE
     \/ mounts = <<>> /\ UNCHANGED <<mounts, stuck>>
  /\ Cleaned("c_losetup")
  /\ UNCHANGED <<day, diskVars, loops, contents, ffs, device>>

\* Mutant: the loop device is left.
cleanup_losetup_left ==
  /\ At("c_losetup")
  /\ Cleaned("c_rm")
  /\ UNCHANGED <<stuck, day, diskVars, hostVars, device>>

\* losetup -d does not detach what is mounted.
cleanup_losetup ==
  /\ At("c_losetup")
  /\ \/ /\ loops' = IF LOOP \in ToSet(mounts) THEN loops ELSE loops \ {LOOP}
        /\ UNCHANGED stuck
     \/ LOOP # None /\ UNCHANGED loops /\ stuck' = TRUE
  /\ Cleaned("c_rm")
  /\ UNCHANGED <<day, diskVars, mounts, contents, ffs, device>>

\* rm -rf goes through a mount point that is still mounted, if it may.
cleanup_rm ==
  /\ At("c_rm")
  /\ esp' \in {esp} \cup {[esp EXCEPT ![Last(m)] = @ \cap {"fs"}] : m \in {mounts} \ {<<>>}}
  /\ \/ contents' = {} /\ ffs' = NoRoot /\ UNCHANGED stuck
     \/ contents' \in {{}, contents} /\ ffs' \in {NoRoot, ffs} /\ stuck' = TRUE
  /\ IF status = "ok"
     THEN /\ done' = [done EXCEPT ![run] = TRUE]
          /\ pc' = IF target = "image" THEN "idle" ELSE target
     ELSE pc' = "idle" /\ UNCHANGED done
  /\ armed' = FALSE
  /\ UNCHANGED <<target, run, status, LOOP, name, day, img, parts, root, loops, mounts,
                 device>>

Kill ==
  /\ pc # "idle" /\ Killed
  /\ UNCHANGED <<day, diskVars, hostVars, device>>

-----------------------------------------------------------------------------
(* burn and test-qemu: ls -t | head -1 names the image written last.  That *)
(* is the present run's, or one that is still on a loop device: the        *)
(* kernel's write-back, and a cleanup that unmounts or empties what an     *)
(* earlier run left mounted, write to its file at any later time.          *)

Existing == {img[d] : d \in 1 .. MaxDay} \ {None}
Newest   == Existing \cap (loops \cup {run})

\* Mutant: the oldest image instead of the newest.
burn_oldest ==
  /\ At("burn") /\ Existing # {}
  /\ device' = CHOOSE r \in Existing : \A s \in Existing : s >= r
  /\ Goto("idle")
  /\ UNCHANGED <<day, diskVars, hostVars>>

\* DEVICE may be empty; dd may fail halfway.
burn ==
  /\ At("burn")
  /\ \/ device' \in Newest /\ (Goto("idle") \/ Die)
     \/ Die /\ UNCHANGED device
  /\ UNCHANGED <<day, diskVars, hostVars>>

\* QEMU runs in the background, if there is one.  `-enable-kvm || true' ends
\* its command before the -drive: it writes to no image.
test_qemu ==
  /\ At("test-qemu")
  /\ \/ Existing # {} /\ Goto("idle")
     \/ Die
  /\ UNCHANGED <<day, diskVars, hostVars, device>>

-----------------------------------------------------------------------------
Script == \/ create \/ losetup \/ sgdisk \/ format_esp \/ mount_esp \/ populate_esp
          \/ umount_esp \/ collect \/ makefs \/ write_root
          \/ cleanup_umount \/ cleanup_losetup \/ cleanup_rm

Next == midnight \/ make_image \/ Script \/ burn \/ test_qemu \/ Kill

Spec == Init /\ [][Next]_vars

-----------------------------------------------------------------------------
(* Properties.                                                             *)

Pieces == Sources \X Runs
Trees  == [by : Runs \cup {None}, has : SUBSET Pieces, whole : BOOLEAN]
Labels == {"idle", "create", "losetup", "sgdisk", "format", "mount", "populate", "umount",
           "collect", "makefs", "dd", "c_umount", "c_losetup", "c_rm", "burn", "test-qemu"}

\* The types of the variables: no table has more than the script's three
\* partitions, and an ESP has only the files the script copies.
TypeOK ==
  /\ pc \in Labels /\ target \in {"image", "burn", "test-qemu"}
  /\ run \in Runs \cup {None} /\ status \in {"none", "ok", "failed", "killed"}
  /\ armed \in BOOLEAN /\ stuck \in BOOLEAN /\ LOOP \in {None, run}
  /\ day \in 1 .. MaxDay /\ name \in 1 .. MaxDay
  /\ img \in [1 .. MaxDay -> Runs \cup {None}]
  /\ parts \in [Runs -> 0 .. 3] /\ esp \in [Runs -> SUBSET (EspFiles \cup {"fs"})]
  /\ root \in [Runs -> Trees] /\ done \in [Runs -> BOOLEAN]
  /\ loops \subseteq Runs /\ mounts \in Seq(Runs)
  /\ contents \subseteq Pieces /\ ffs \in Trees
  /\ device \in Runs \cup {None}

\* The image is large enough for what sgdisk is asked for: the three partitions
\* and both copies of the GPT.
PartitionsFit == At("sgdisk") /\ parts[LOOP] < 3 => Fits(parts[LOOP] + 1)

\* An image the script announced has its three partitions, an ESP with the
\* kernel, the boot.cfg and the loader if there is one, and a root that was
\* written: whichever commands of this and of earlier runs failed, whatever
\* killed runs left mounted, and whatever the cleanup removed through a mount.
ImageWhole ==
  \A r \in Runs : done[r] => /\ parts[r] = 3
                             /\ {"fs"} \cup EspFiles \subseteq esp[r]
                             /\ root[r] # NoRoot

\* The root of an image never mixes files that two runs collected, although
\* the directory they are collected in has a fixed name.
RootOfOneRun == \A r \in Runs : \A piece \in root[r].has : piece[2] = root[r].by

\* A run that ends by itself leaves neither its loop device nor its mount,
\* unless a command of its cleanup failed.
NoLeak == At("idle") /\ status \in {"ok", "failed"} /\ ~stuck
            => run \notin loops /\ run \notin ToSet(mounts)

\* What holds at every command of 06-make-image.sh: the types, an image large
\* enough for its partitions, and loop devices and mounts that are given back.
MakeImageInv == TypeOK /\ PartitionsFit /\ NoLeak

\* make burn writes an image that its script announced.  One that a failed or
\* killed run left in out/ it writes only if that run also left it on a loop
\* device, where it may have been written to last (Makefile, ls -t).
BurnedComplete == device # None => done[device] \/ (device < run /\ device \in loops)

\* A step writes to no image but the one of its own run: not through a mount
\* or a loop device of an earlier run.  The one exception is the rm -rf of a
\* cleanup, and it never reaches an image that was announced.
OthersKept ==
  [][\A r \in Runs \ {run} :
       /\ parts'[r] = parts[r] /\ root'[r] = root[r] /\ done'[r] = done[r]
       /\ esp'[r] # esp[r] => At("c_rm") /\ ~done[r]]_vars

=============================================================================
