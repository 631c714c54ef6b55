-------------------------------- MODULE Build --------------------------------
(***************************************************************************)
(* The build: the Makefile, utils-netbsd.sh and the phase scripts 01 to 05 *)
(* of scripts/netbsd.  Script 06 is one step here.                         *)
(*                                                                         *)
(* One make runs at a time, its targets in order, each phase script under  *)
(* `set -e'.  pc is the command to run next, and the target being made is  *)
(* number `at' of the recipe of `cmd'.  Everything else is in the file     *)
(* system and outlives the run: a make that fails or is killed leaves it   *)
(* as it is, and the next one decides by the stamp files what to skip.     *)
(***************************************************************************)
EXTENDS Integers, Sequences

CONSTANTS
  Commands,  \* the make targets the operator uses
  Faults,    \* FALSE: tools never fail and make is never killed
  MaxMakes,  \* bound: how often make is started
  MaxConf    \* bound: versions of the kernel configuration

ASSUME BuildAssumption ==
  /\ Commands \subseteq {"all", "kernel", "userland", "packages", "desktop",
                         "rootfs", "image", "clean", "clean-all"}
  /\ Faults \in BOOLEAN
  /\ MaxMakes \in Nat /\ MaxConf \in Nat \ {0}

VARIABLES
  pc,      \* command to run next, "idle" when no make runs
  cmd,     \* what make was called with, "none" when no make runs
  at,      \* which target of Recipe(cmd) is being made
  makes,   \* how often make was started
  said,    \* the latest line of interest it printed
  flaky,   \* tools may fail and make may be killed; for good once FALSE
  braces,  \* the host's /bin/sh expands {a,b}, which POSIX does not ask for
  conf,    \* version of configs/netbsd/kernel/SWIMSTAR
  src,     \* NetBSD source tree; "partial": build.sh is there, not all the rest
  tools,   \* work/netbsd-tools; "partial": nbmake is there, not all the rest
  objk,    \* version of the kernel in work/netbsd-obj, or None
  kern,    \* version of out/netbsd, None, or Partial
  dest,    \* work/netbsd-dest: "none", "partial" or "full"
  stage,   \* work/rootfs-staging exists
  staged,  \* Star-Talk's own parts in it
  hooks,   \* how often its etc/rc.local runs star-talk-firstboot
  stamps,  \* work/.*-done files
  image    \* the disk image: the version of its kernel, None, or Broken

procVars  == <<pc, cmd, at, makes, said, flaky>>
srcVars   == <<braces, conf, src, tools>>
objVars   == <<objk, kern, dest>>
stageVars == <<stage, staged, hooks, stamps>>
vars == <<procVars, srcVars, objVars, stageVars, image>>

None    == 0
Partial == -1
Broken  == -2

Stamps == {"userland", "packages", "desktop", "rootfs"}
Parts  == {"etc", "firstboot", "rc.conf", "installer", "fstab"}

Targets == Stamps \cup {"kernel", "image", "report", "clean", "clean-all"}
MakeArgs == (Targets \ {"report"}) \cup {"all"}
Labels  == {"idle", "make", "k_fetch", "k_conf", "k_tools", "k_build", "k_copy",
            "u_fetch", "u_build", "u_copy", "p_scripts", "p_rclocal", "p_configs",
            "d_rcconf", "d_install", "r_assemble", "touch", "c_packages",
            "c_desktop", "c_rootfs", "c_staging", "c_images", "ca_kernel"}

Lines   == {"nothing", "failed", "build complete", "source extracted", "kernel already built",
            "kernel built", "already done", "phase done", "image made", "clean done",
            "deep clean done"}

\* Files of etc that both the distribution and Star-Talk provide.
DistFiles == {"rc.local", "rc.conf"}

Recipe(command) ==
  CASE command = "all" -> <<"kernel", "userland", "packages", "desktop", "rootfs", "image",
                            "report">>
    [] command = "clean-all" -> <<"clean", "clean-all">>
    [] OTHER -> <<command>>

-----------------------------------------------------------------------------
(* Control.                                                                *)

At(label)   == pc = label
ToMake      == at <= Len(Recipe(cmd))
Current     == Recipe(cmd)[at]
Target(t)   == pc = "make" /\ ToMake /\ Current = t
Say(label, what) == pc' = label /\ said' = what /\ UNCHANGED <<cmd, at, makes, flaky>>
Goto(label) == Say(label, said)
Built(what) == pc' = "make" /\ at' = at + 1 /\ said' = what /\ UNCHANGED <<cmd, makes, flaky>>
Idle(what)  == pc' = "idle" /\ cmd' = "none" /\ at' = 0 /\ said' = what
               /\ UNCHANGED <<makes, flaky>>

\* make stops at the first recipe that fails.
Stop == Idle("failed")
Fail == flaky /\ Stop

\* A script fails while it writes a part, which may be cut off then.
BreaksOff(part) == Fail /\ staged' \in {staged, staged \ {part}}

Stamped(t)  == t \in stamps
AllButProc  == <<srcVars, objVars, stageVars, image>>

-----------------------------------------------------------------------------
Init ==
  /\ pc = "idle" /\ cmd = "none" /\ at = 0 /\ makes = 0 /\ said = "nothing"
  /\ flaky = Faults
  /\ braces \in BOOLEAN /\ conf = 1 /\ src \in {"none", "full"} /\ tools = "none"
  /\ objk = None /\ kern = None /\ dest = "none"
  /\ stage = FALSE /\ staged = {} /\ hooks = 0 /\ stamps = {}
  /\ image = None

make ==
  /\ At("idle") /\ makes < MaxMakes
  /\ cmd' \in Commands /\ at' = 1
  /\ pc' = "make" /\ makes' = makes + 1 /\ said' = "nothing"
  /\ UNCHANGED <<flaky, AllButProc>>

make_ends ==
  /\ At("make") /\ ~ToMake
  /\ Idle(said)
  /\ UNCHANGED AllButProc

\* The end of `all'.
report ==
  /\ Target("report")
  /\ Built("build complete")
  /\ UNCHANGED AllButProc

edit_conf ==
  /\ At("idle") /\ conf < MaxConf
  /\ conf' = conf + 1
  /\ UNCHANGED <<procVars, braces, src, tools, objVars, stageVars, image>>

-----------------------------------------------------------------------------
(* fetch_netbsd_src, called as `fetch_netbsd_src || die': inside it errexit  *)
(* is off, so a download or an extraction that breaks off still prints       *)
(* success and returns 0.  Only an empty download returns 1.                 *)
fetch_netbsd_src(next) ==
  \/ /\ src # "none"
     /\ Goto(next) /\ UNCHANGED AllButProc
  \/ /\ src = "none"
     /\ src' \in IF flaky THEN {"none", "partial", "full"} ELSE {"full"}
     /\ Say(next, "source extracted")
     /\ UNCHANGED <<braces, conf, tools, objVars, stageVars, image>>
  \/ src = "none" /\ Fail /\ UNCHANGED AllButProc

-----------------------------------------------------------------------------
(* kernel: 01-kernel.sh, stamped by its own output out/netbsd.             *)

kernel ==
  /\ Target("kernel")
  /\ IF kern # None THEN Built("kernel already built") ELSE Goto("k_fetch")
  /\ UNCHANGED AllButProc

kernel_fetch == At("k_fetch") /\ fetch_netbsd_src("k_conf")

\* cp of the configuration into the tree, which has to have the directory.
kernel_conf ==
  /\ At("k_conf")
  /\ \/ src # "none" /\ Goto("k_tools")
     \/ (flaky \/ src # "full") /\ Stop
  /\ UNCHANGED AllButProc

\* Not done when there is an nbmake, which build.sh installs first.
\* build.sh tools | tail: the status is tail's.
kernel_tools ==
  /\ At("k_tools")
  /\ \/ tools # "none" /\ UNCHANGED tools
     \/ tools = "none" /\ tools' = "full"
     \/ tools = "none" /\ (flaky \/ src # "full") /\ tools' \in {"none", "partial"}
  /\ Goto("k_build")
  /\ UNCHANGED <<braces, conf, src, objVars, stageVars, image>>

\* build.sh kernel | tail: a kernel that was there before stays.  With tools in
\* part it depends on what is missing.
kernel_build ==
  /\ At("k_build")
  /\ \/ src = "full" /\ tools # "none" /\ objk' = conf
     \/ (flaky \/ tools # "full" \/ src # "full") /\ UNCHANGED objk
  /\ Goto("k_copy")
  /\ UNCHANGED <<srcVars, kern, dest, stageVars, image>>

\* The cp may break off, by itself or because make is killed.
kernel_copy ==
  /\ At("k_copy")
  /\ \/ objk # None /\ kern' = objk /\ Built("kernel built")
     \/ objk # None /\ kern' = Partial /\ Fail
     \/ objk = None /\ Stop /\ UNCHANGED kern
  /\ UNCHANGED <<srcVars, objk, dest, stageVars, image>>

kernel_phase == \/ kernel \/ kernel_fetch \/ kernel_conf \/ kernel_tools
                \/ kernel_build \/ kernel_copy

-----------------------------------------------------------------------------
(* The other phases: skipped when stamped, stamped when the script is done. *)

phase(t, first) ==
  /\ Target(t)
  /\ IF Stamped(t) THEN Built("already done") ELSE Goto(first)
  /\ UNCHANGED AllButProc

touch_stamp ==
  /\ At("touch")
  /\ \/ /\ stamps' = stamps \cup {Current}
        /\ Built("phase done")
        /\ UNCHANGED <<srcVars, objVars, stage, staged, hooks, image>>
     \/ Fail /\ UNCHANGED AllButProc

(* userland: 02-userland.sh.                                               *)
\* Mutant: the recipe does not look for its stamp.
userland_unstamped == Target("userland") /\ Goto("u_fetch") /\ UNCHANGED AllButProc

userland == phase("userland", "u_fetch")

userland_fetch == At("u_fetch") /\ fetch_netbsd_src("u_build")

\* build.sh distribution | tail and build.sh release | tail; both build what
\* the tool chain lacks first.
userland_build ==
  /\ At("u_build")
  /\ \/ src = "full" /\ dest' = "full" /\ tools' = "full"
     \/ /\ src = "partial" \/ (src = "full" /\ flaky)
        /\ dest' \in {dest, "partial"}
        /\ tools' \in {tools, "full"} \/ (tools = "none" /\ tools' = "partial")
     \/ src = "none" /\ UNCHANGED <<dest, tools>>
  /\ Goto("u_copy")
  /\ UNCHANGED <<braces, conf, src, objk, kern, stageVars, image>>

\* cp -r of the distribution over the staging directory, which has to exist:
\* a failure, after any part of the copy, only changes a shell variable.
userland_copy ==
  /\ At("u_copy")
  /\ \/ /\ stage /\ dest # "none"
        /\ \E over \in SUBSET DistFiles :
             /\ flaky \/ dest = "partial" \/ over = DistFiles
             /\ hooks'  = IF "rc.local" \in over THEN 0 ELSE hooks
             /\ staged' \in {(staged \ over) \cup {"etc"}} \cup {s \in {staged} : over = {}}
        /\ UNCHANGED <<stage, stamps>>
     \/ (~stage \/ dest = "none") /\ UNCHANGED stageVars
  /\ Goto("touch")
  /\ UNCHANGED <<srcVars, objVars, image>>

userland_phase == userland \/ userland_fetch \/ userland_build \/ userland_copy

(* packages: 03-packages.sh.                                               *)
packages == phase("packages", "p_scripts")

packages_scripts ==
  /\ At("p_scripts")
  /\ \/ stage' = TRUE /\ staged' = staged \cup {"firstboot"} /\ Goto("p_rclocal")
     \/ stage' \in {stage, TRUE} /\ BreaksOff("firstboot")
  /\ UNCHANGED <<srcVars, objVars, hooks, stamps, image>>

\* Mutant: without the mkdir -p of etc.
packages_rclocal_no_mkdir ==
  /\ At("p_rclocal")
  /\ \/ "etc" \in staged /\ hooks' = hooks + 1 /\ Goto("p_configs") /\ UNCHANGED staged
     \/ (flaky \/ "etc" \notin staged) /\ Stop /\ UNCHANGED <<staged, hooks>>
  /\ UNCHANGED <<srcVars, objVars, stage, stamps, image>>

\* mkdir -p etc, then cat >> rc.local: a second run appends again.
packages_rclocal ==
  /\ At("p_rclocal")
  /\ \/ staged' = staged \cup {"etc"} /\ hooks' = hooks + 1 /\ Goto("p_configs")
     \/ Fail /\ UNCHANGED <<staged, hooks>>
  /\ UNCHANGED <<srcVars, objVars, stage, stamps, image>>

\* rc.d scripts || true, the wallpaper, and the script's own touch.
packages_configs ==
  /\ At("p_configs")
  /\ \/ stamps' = stamps \cup {"packages"} /\ Goto("touch")
     \/ Fail /\ UNCHANGED stamps
  /\ UNCHANGED <<srcVars, objVars, stage, staged, hooks, image>>

packages_phase == packages \/ packages_scripts \/ packages_rclocal \/ packages_configs

(* desktop: 04-desktop.sh makes directories for the wallpaper, but the     *)
(* first cp needs the etc that 03 makes.                                   *)
desktop == phase("desktop", "d_rcconf")

desktop_rcconf ==
  /\ At("d_rcconf")
  /\ \/ /\ stage' = TRUE
        /\ \/ "etc" \in staged /\ staged' = staged \cup {"rc.conf"} /\ Goto("d_install")
           \/ "etc" \notin staged /\ Stop /\ UNCHANGED staged
     \/ stage' \in {stage, TRUE} /\ BreaksOff("rc.conf")
  /\ UNCHANGED <<srcVars, objVars, hooks, stamps, image>>

\* Without brace expansion the directories of the user skeleton are not made,
\* and the cp of the wallpaper into one of them ends the script.
desktop_install ==
  /\ At("d_install")
  /\ \/ staged' = staged \cup {"installer"} /\ IF braces THEN Goto("touch") ELSE Stop
     \/ BreaksOff("installer")
  /\ UNCHANGED <<srcVars, objVars, stage, hooks, stamps, image>>

desktop_phase == desktop \/ desktop_rcconf \/ desktop_install

(* rootfs: 05-assemble-rootfs.sh; the directories first, then etc/fstab.   *)
rootfs == phase("rootfs", "r_assemble")

rootfs_assemble ==
  /\ At("r_assemble")
  /\ \/ /\ stage' = TRUE
        /\ \/ "etc" \in staged /\ staged' = staged \cup {"fstab"} /\ Goto("touch")
           \/ "etc" \notin staged /\ Stop /\ UNCHANGED staged
     \/ stage' \in {stage, TRUE} /\ BreaksOff("fstab")
  /\ UNCHANGED <<srcVars, objVars, hooks, stamps, image>>

rootfs_phase == rootfs \/ rootfs_assemble

\* Mutant: `06-make-image.sh || true'.
make_image_ignored ==
  /\ Target("image")
  /\ \/ kern # None /\ (tools # "none" \/ flaky) /\ image' = kern
     \/ kern # None /\ (tools # "full" \/ flaky) /\ image' \in {image, None, Broken}
     \/ kern = None /\ UNCHANGED image
  /\ Built("image made")
  /\ UNCHANGED <<srcVars, objVars, stageVars>>

(* image: 06-make-image.sh dies without out/netbsd.  It deletes the old    *)
(* image first, so a failure leaves none or a broken one, and it needs     *)
(* makefs of the tool chain, or what an interrupted run left in /tmp.      *)
make_image ==
  /\ Target("image")
  /\ \/ kern # None /\ (tools # "none" \/ flaky) /\ image' = kern /\ Built("image made")
     \/ kern # None /\ (tools # "full" \/ flaky) /\ Stop /\ image' \in {image, None, Broken}
     \/ kern = None /\ Stop /\ UNCHANGED image
  /\ UNCHANGED <<srcVars, objVars, stageVars>>

-----------------------------------------------------------------------------
(* clean and clean-all.                                                    *)

\* Mutant: clean forgets the stamps.
rm_stamp_kept(t) == UNCHANGED stamps

\* rm -f names the stamps in the order of the phases.
rm_stamp(t) == stamps' = stamps \ {t}

clean_stamps ==
  /\ \/ Target("clean") /\ rm_stamp("userland") /\ Goto("c_packages")
     \/ At("c_packages") /\ rm_stamp("packages") /\ Goto("c_desktop")
     \/ At("c_desktop") /\ rm_stamp("desktop") /\ Goto("c_rootfs")
     \/ At("c_rootfs") /\ rm_stamp("rootfs") /\ Goto("c_staging")
  /\ UNCHANGED <<srcVars, objVars, stage, staged, hooks, image>>

\* rm -rf rootfs-staging/* may break off half way.
clean_staging ==
  /\ At("c_staging")
  /\ \/ staged' = {} /\ hooks' = 0 /\ Goto("c_images")
     \/ /\ staged' \in SUBSET staged /\ hooks' \in {0, hooks} /\ Fail
        /\ "etc" \in staged' \/ (staged' \cap {"rc.conf", "fstab"} = {} /\ hooks' = 0)
  /\ UNCHANGED <<srcVars, objVars, stage, stamps, image>>

clean_images ==
  /\ At("c_images")
  /\ image' = None
  /\ Built("clean done")
  /\ UNCHANGED <<srcVars, objVars, stageVars>>

clean_all_work ==
  /\ Target("clean-all")
  /\ \/ objk' = None /\ tools' = "none" /\ dest' = "none" /\ Goto("ca_kernel")
     \/ /\ objk' \in {objk, None} /\ dest' \in {dest, "none"} /\ Fail
        /\ tools' \in {tools, "none"} \/ (tools # "none" /\ tools' = "partial")
  /\ UNCHANGED <<braces, conf, src, kern, stageVars, image>>

clean_all_kernel ==
  /\ At("ca_kernel")
  /\ kern' = None
  /\ Built("deep clean done")
  /\ UNCHANGED <<srcVars, objk, dest, stageVars, image>>

clean == \/ clean_stamps \/ clean_staging \/ clean_images
         \/ clean_all_work \/ clean_all_kernel

-----------------------------------------------------------------------------
\* make is interrupted between two commands.
Kill ==
  /\ pc # "idle" /\ Fail
  /\ UNCHANGED AllButProc

\* From here on every tool works.
settle ==
  /\ flaky /\ flaky' = FALSE
  /\ UNCHANGED <<pc, cmd, at, makes, said, AllButProc>>

Step == \/ make_ends \/ report \/ kernel_phase \/ userland_phase \/ packages_phase
        \/ desktop_phase \/ rootfs_phase \/ touch_stamp \/ make_image \/ clean

Next == make \/ edit_conf \/ Step \/ Kill \/ settle

Spec == Init /\ [][Next]_vars

\* The operator lets a make run to its end.
FairSpec == Spec /\ WF_vars(Step)

-----------------------------------------------------------------------------
(* Properties                                                              *)

MakeTypes ==
  /\ pc \in Labels /\ cmd \in MakeArgs \cup {"none"} /\ at \in Nat
  /\ at <= Len(Recipe(cmd)) + 1
  /\ makes \in Nat /\ said \in Lines /\ flaky \in BOOLEAN

FileTypes ==
  /\ conf \in Nat /\ src \in {"none", "partial", "full"}
  /\ braces \in BOOLEAN /\ tools \in {"none", "partial", "full"}
  /\ objk \in Nat /\ kern \in Nat \cup {Partial} /\ dest \in {"none", "partial", "full"}
  /\ stage \in BOOLEAN /\ staged \subseteq Parts /\ hooks \in Nat
  /\ stamps \subseteq Stamps
  /\ image \in Nat \cup {Partial, Broken}

\* The types; stamps are only the four files the Makefile looks for, and at
\* stays within the recipe it counts in.
TypeOK == MakeTypes /\ FileTypes

\* What each stamp lets later runs take for granted.
Promised(t) ==
  CASE t = "packages" -> {"etc", "firstboot"}
    [] t = "desktop"  -> {"installer"}
    [] t = "rootfs"   -> {"fstab"}
    [] OTHER -> {}

\* A stamped phase has its parts in the staging directory, in whatever order
\* targets are made, fail, are killed and cleaned (Makefile: every script
\* stamps last, and clean removes the stamps before the parts).
StampedPartsStaged == \A t \in stamps : Promised(t) \subseteq staged

\* "Star-Talk build complete!" comes only with all parts staged, a kernel, and
\* an image made with that kernel, although any number of phases were skipped
\* (Makefile, all).
BuildComplete ==
  said = "build complete" =>
    /\ stamps = Stamps
    /\ {"etc", "firstboot", "installer", "fstab"} \subseteq staged
    /\ stage /\ kern # None /\ image = kern

-----------------------------------------------------------------------------
(* The inductive invariant behind the two.                                 *)

LabelsOf(t) ==
  CASE t = "kernel"    -> {"k_fetch", "k_conf", "k_tools", "k_build", "k_copy"}
    [] t = "userland"  -> {"u_fetch", "u_build", "u_copy"}
    [] t = "packages"  -> {"p_scripts", "p_rclocal", "p_configs"}
    [] t = "desktop"   -> {"d_rcconf", "d_install"}
    [] t = "rootfs"    -> {"r_assemble"}
    [] t = "clean"     -> {"c_packages", "c_desktop", "c_rootfs", "c_staging", "c_images"}
    [] t = "clean-all" -> {"ca_kernel"}
    [] OTHER -> {}

\* A script runs only while make is at its target, and unstamped.
Place ==
  /\ pc = "idle" <=> cmd = "none"
  /\ pc # "idle" => at >= 1
  /\ pc \notin {"idle", "make"} => ToMake
  /\ \A t \in Targets : pc \in LabelsOf(t) => Current = t
  /\ pc = "touch" => Current \in Stamps
  /\ \A t \in Stamps : pc \in LabelsOf(t) => ~Stamped(t)

\* Parts are only in a staging directory.
StageThere == staged # {} => stage

\* What the running script has staged by now.
SoFarStaged ==
  /\ pc \in {"p_rclocal", "p_configs"} => "firstboot" \in staged
  /\ pc = "p_configs" => "etc" \in staged
  /\ pc = "d_install" => stage
  /\ pc = "touch" => Promised(Current) \subseteq staged
  /\ StageThere

\* clean takes the parts away when all stamps are gone.
SoFarCleaned ==
  /\ pc \in {"c_packages", "c_desktop", "c_rootfs", "c_staging"} => ~Stamped("userland")
  /\ pc \in {"c_desktop", "c_rootfs", "c_staging"} => ~Stamped("packages")
  /\ pc \in {"c_rootfs", "c_staging"} => ~Stamped("desktop")
  /\ pc = "c_staging" => ~Stamped("rootfs")

\* What make all has made by now.
Made(t) == CASE t = "kernel" -> kern # None
             [] t = "image"  -> image = kern
             [] t \in Stamps -> Stamped(t)
             [] OTHER -> TRUE

SoFarMade == cmd = "all" => \A i \in 1 .. at - 1 : Made(Recipe("all")[i])

Reported == said = "build complete" => pc = "idle" \/ (pc = "make" /\ cmd = "all" /\ at = 8)

\* A phase is stamped only with its parts staged, whoever made, killed or
\* cleaned what before, and make all has done what it got past.
BuildInv ==
  /\ TypeOK /\ Place /\ SoFarStaged /\ SoFarCleaned /\ SoFarMade /\ Reported
  /\ StampedPartsStaged /\ BuildComplete

-----------------------------------------------------------------------------
\* rc.local of the staged system runs the first-boot setup when the packages
\* phase is stamped: "Packages already installed." (Makefile, packages).
HookStaged == "packages" \in stamps => hooks > 0

\* Why make all keeps it: the userland phase, which copies over rc.local, is
\* stamped before the packages phase appends to it.
HookInv ==
  /\ cmd \in {"all", "none"}
  /\ Stamped("packages") => hooks > 0 /\ Stamped("userland")
  /\ pc = "p_configs" => hooks > 0
  /\ pc = "touch" /\ Current = "packages" => hooks > 0

\* What make all cannot repair: a source tree extracted in part; a tool chain
\* that broke off, which the kernel phase takes for built and only a userland
\* phase completes; a tool chain lost in an interrupted clean-all after which
\* the kernel is still there and the userland phase, failing unseen, was
\* stamped; and a desktop phase under a /bin/sh that does not expand braces.
Wedged == \/ src = "partial"
          \/ tools = "partial" /\ (Stamped("userland") \/ (kern = None /\ objk = None))
          \/ tools = "none" /\ kern # None /\ Stamped("userland")
          \/ ~braces

\* Once the tools work, make all comes to "Star-Talk build complete!" from
\* whatever targets made in any order, failures and kills have left behind,
\* except from the four situations above (Makefile, all).
MakeAllCompletes ==
  (~flaky /\ pc = "make" /\ cmd = "all" /\ at = 1 /\ ~Wedged)
    ~> (said = "build complete")

=============================================================================
