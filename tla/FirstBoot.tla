------------------------------ MODULE FirstBoot ------------------------------
(***************************************************************************)
(* The first-boot setup that 03-packages.sh puts into the system: the      *)
(* script star-talk-firstboot and the lines it appends to rc.local.        *)
(*                                                                         *)
(* Every boot runs rc.local, which has the lines Hooks times (the build    *)
(* may append them more than once).  The script runs under `set -e', takes *)
(* hours, and may fail or lose power at any command; what it has done by   *)
(* then stays on the disk, and it starts from the top as long as it has    *)
(* not renamed itself.  One failure `set -e' does not see: in              *)
(* `cd DIR && bmake install' that of cd, which is not the last command of  *)
(* its list, so that the package is passed over.  The tree may lack        *)
(* directories: the test is for its Makefile only, which a clone that      *)
(* broke off has, too.                                                     *)
(***************************************************************************)
EXTENDS Integers

CONSTANTS
  Packages,    \* how many packages it installs, one after the other
  Hooks,       \* how often rc.local runs it
  MaxBoots     \* bound: boots while things still fail

ASSUME FirstBootAssumption ==
  Packages \in Nat \ {0} /\ Hooks \in Nat /\ MaxBoots \in Nat

VARIABLES
  pc,      \* "off", "up", "rc" in rc.local, or the command of the script
  hook,    \* which of the lines in rc.local is next
  next,    \* the package to install next
  boots,   \* boots while flaky
  flaky,   \* commands may fail and power may go; for good once FALSE
  runs,    \* how often the script was started, counted up to 2
  skipped, \* history: packages passed over because of their cd
  dirs,    \* directories of the tree, there or to be cloned; 0 is bootstrap/
  refuses, \* TRUE: bmake install of an installed package fails
  tree,    \* /usr/pkgsrc/Makefile is there
  bmake,   \* bootstrap: "none", "partial" (bmake is there), or "full"
  pkgs,    \* packages installed
  sddm,    \* lines sddm=YES in /etc/rc.conf
  done     \* the script is renamed to star-talk-firstboot.done

runVars  == <<pc, hook, next, boots, flaky, runs>>
given    == <<dirs, refuses>>
diskVars == <<tree, bmake, pkgs, sddm, done>>
vars == <<runVars, given, diskVars, skipped>>

All    == 1 .. Packages
Labels == {"off", "up", "rc", "check", "bootstrap", "install", "enable", "mark", "start"}

-----------------------------------------------------------------------------
At(label)   == pc = label
Goto(label) == pc' = label /\ UNCHANGED <<hook, next, boots, flaky, runs>>

\* The script ends, well or not: rc.local goes on to its next lines.
Return == pc' = "rc" /\ hook' = hook + 1 /\ UNCHANGED <<next, boots, flaky, runs>>
Fail   == flaky /\ Return

Init ==
  /\ pc = "off" /\ hook = 1 /\ next = 1 /\ boots = 0 /\ flaky \in BOOLEAN /\ runs = 0
  /\ dirs \in SUBSET (0 .. Packages) /\ refuses \in BOOLEAN /\ skipped = {}
  /\ tree \in BOOLEAN /\ bmake = "none" /\ pkgs = {} /\ sddm = 0 /\ done = FALSE

\* rc starts rc.local.
boot ==
  /\ At("off") /\ (flaky => boots < MaxBoots)
  /\ pc' = "rc" /\ hook' = 1
  /\ boots' = IF flaky THEN boots + 1 ELSE boots
  /\ UNCHANGED <<next, flaky, runs, given, diskVars, skipped>>

\* Mutant: rc.local runs the script without the test.
rc_local_untested ==
  /\ At("rc")
  /\ \/ /\ hook <= Hooks
        /\ pc' = "check" /\ runs' = IF runs < 2 THEN runs + 1 ELSE runs
        /\ UNCHANGED <<hook, next, boots, flaky>>
     \/ hook > Hooks /\ Goto("up")
  /\ UNCHANGED <<given, diskVars, skipped>>

\* if [ -x /usr/local/sbin/star-talk-firstboot ]; then ...; fi
rc_local ==
  /\ At("rc")
  /\ \/ /\ hook <= Hooks /\ ~done
        /\ pc' = "check" /\ runs' = IF runs < 2 THEN runs + 1 ELSE runs
        /\ UNCHANGED <<hook, next, boots, flaky>>
     \/ hook <= Hooks /\ done /\ Return
     \/ hook > Hooks /\ Goto("up")
  /\ UNCHANGED <<given, diskVars, skipped>>

check_pkgsrc ==
  /\ At("check")
  /\ IF tree THEN Goto("bootstrap") ELSE Return
  /\ UNCHANGED <<given, diskVars, skipped>>

\* On to a package, or past the last of them.
Install(i) ==
  /\ next' = i /\ pc' = IF i <= Packages THEN "install" ELSE "enable"
  /\ UNCHANGED <<hook, boots, flaky, runs>>

\* Mutant: without the test, and pkgsrc does not bootstrap a prefix twice.
bootstrap_untested ==
  /\ At("bootstrap")
  /\ \/ (bmake # "none" \/ 0 \notin dirs) /\ UNCHANGED bmake /\ Return
     \/ bmake = "none" /\ 0 \in dirs /\ bmake' = "full" /\ Install(1)
     \/ bmake = "none" /\ 0 \in dirs /\ bmake' \in {"none", "partial"} /\ Fail
  /\ UNCHANGED <<given, tree, pkgs, sddm, done, skipped>>

\* Not done when there is a bmake, which a bootstrap that broke off leaves, too.
\* This cd is a command of its own: without the directory the script ends.
bootstrap ==
  /\ At("bootstrap")
  /\ \/ bmake # "none" /\ UNCHANGED bmake /\ Install(1)
     \/ bmake = "none" /\ 0 \notin dirs /\ UNCHANGED bmake /\ Return
     \/ bmake = "none" /\ 0 \in dirs /\ bmake' = "full" /\ Install(1)
     \/ bmake = "none" /\ 0 \in dirs /\ bmake' \in {"none", "partial"} /\ Fail
  /\ UNCHANGED <<given, tree, pkgs, sddm, done, skipped>>

\* Mutant: without `set -e' a package that fails is passed over, too.
install_ignored ==
  /\ At("install") /\ Install(next + 1)
  /\ \/ bmake = "full" /\ next \in dirs /\ pkgs' = pkgs \cup {next} /\ skipped' = skipped \ {next}
     \/ (next \notin dirs \/ flaky) /\ UNCHANGED pkgs /\ skipped' = skipped \cup {next}
     \/ (flaky \/ bmake # "full") /\ UNCHANGED <<pkgs, skipped>>
  /\ UNCHANGED <<given, tree, bmake, sddm, done>>

\* cd and bmake install clean clean-depends.  A cd that fails only skips the
\* package; clean and clean-depends may fail with the package installed.
install ==
  /\ At("install")
  /\ \/ /\ next \in dirs /\ bmake = "full" /\ (next \in pkgs => ~refuses)
        /\ pkgs' = pkgs \cup {next} /\ skipped' = skipped \ {next} /\ Install(next + 1)
     \/ /\ next \notin dirs \/ flaky
        /\ skipped' = skipped \cup {next} /\ UNCHANGED pkgs /\ Install(next + 1)
     \/ /\ next \in dirs /\ bmake = "full" /\ pkgs' \in {pkgs, pkgs \cup {next}}
        /\ Fail /\ UNCHANGED skipped
     \/ /\ next \in dirs /\ (bmake # "full" \/ (next \in pkgs /\ refuses))
        /\ Return /\ UNCHANGED <<pkgs, skipped>>
  /\ UNCHANGED <<given, tree, bmake, sddm, done>>

\* echo 'sddm=YES' >> /etc/rc.conf
enable_sddm ==
  /\ At("enable")
  /\ \/ sddm' = sddm + 1 /\ Goto("mark")
     \/ Fail /\ UNCHANGED sddm
  /\ UNCHANGED <<given, tree, bmake, pkgs, done, skipped>>

\* mv star-talk-firstboot star-talk-firstboot.done
mark_done ==
  /\ At("mark")
  /\ \/ done' = TRUE /\ Goto("start")
     \/ Fail /\ UNCHANGED done
  /\ UNCHANGED <<given, tree, bmake, pkgs, sddm, skipped>>

\* service sddm start; the status does not matter any more.
start_sddm ==
  /\ At("start")
  /\ Return
  /\ UNCHANGED <<given, diskVars, skipped>>

-----------------------------------------------------------------------------
\* The operator follows the message of check_pkgsrc.
clone_pkgsrc ==
  /\ At("up") /\ ~tree
  /\ tree' = TRUE
  /\ UNCHANGED <<runVars, given, bmake, pkgs, sddm, done, skipped>>

shutdown ==
  /\ At("up")
  /\ Goto("off")
  /\ UNCHANGED <<given, diskVars, skipped>>

\* Power goes, or the operator interrupts the hours of setup.
crash ==
  /\ flaky /\ pc \notin {"off", "up"}
  /\ Goto("off")
  /\ UNCHANGED <<given, diskVars, skipped>>

\* From here on every command works.
settle ==
  /\ flaky /\ flaky' = FALSE
  /\ UNCHANGED <<pc, hook, next, boots, runs, given, diskVars, skipped>>

Step == \/ rc_local \/ check_pkgsrc \/ bootstrap \/ install
        \/ enable_sddm \/ mark_done \/ start_sddm

Next == boot \/ Step \/ clone_pkgsrc \/ shutdown \/ crash \/ settle

Spec == Init /\ [][Next]_vars

\* The machine runs on, and the operator boots it again and heeds the message.
FairSpec == /\ Spec /\ WF_vars(Step)
            /\ WF_vars(boot) /\ WF_vars(shutdown) /\ SF_vars(clone_pkgsrc)

-----------------------------------------------------------------------------
(* Properties                                                              *)

\* The types; nothing is installed that is not on the list.
TypeOK ==
  /\ pc \in Labels /\ hook \in 1 .. Hooks + 1 /\ next \in 1 .. Packages + 1 /\ boots \in Nat
  /\ flaky \in BOOLEAN /\ runs \in 0 .. 2
  /\ tree \in BOOLEAN /\ bmake \in {"none", "partial", "full"}
  /\ dirs \subseteq 0 .. Packages /\ refuses \in BOOLEAN /\ skipped \subseteq All
  /\ pkgs \subseteq All /\ sddm \in Nat /\ done \in BOOLEAN

\* The script is out of the way only when sddm is enabled and every package is
\* installed but those a cd was not able to enter, over any number of boots that
\* failed half way (firstboot, mv; `cd ... &&' under set -e).
DoneIsComplete ==
  done => All \subseteq pkgs \cup skipped /\ (pkgs # {} => bmake = "full") /\ sddm >= 1

\* sddm is enabled only on a system that has all of the desktop but what a cd
\* passed over (firstboot, sddm=YES).
SddmHasDesktop == sddm > 0 => All \subseteq pkgs \cup skipped

\* Packages are there in the order of the list: one that is installed has all
\* those before it, which it may depend on, but for the ones passed over by a
\* cd; no package that failed is passed over (firstboot, set -e).
InstalledInOrder == \A i \in pkgs : 1 .. i - 1 \subseteq pkgs \cup skipped

\* A setup that is done stays as it is, also when rc.local has its lines twice
\* (rc.local, test -x).
DoneIsFinal == [][done => UNCHANGED diskVars /\ runs' = runs]_vars

\* A boot that works does not help any more: the bootstrap broke off with a
\* bmake left, its directory is missing, or a package installed by a run that
\* was cut off refuses to be installed again.
Wedged ==
  \/ bmake = "partial" \/ (bmake = "none" /\ 0 \notin dirs)
  \/ (refuses /\ pkgs # {})

\* The script gets to its end, once things work: each boot takes the setup up
\* again, but for the three states it never gets out of (firstboot).
SetupCompletes == (~flaky /\ ~Wedged) ~> done

-----------------------------------------------------------------------------
\* What the running script has done by now.
Progress ==
  /\ pc = "install" => /\ bmake # "none" /\ next <= Packages
                       /\ 1 .. next - 1 \subseteq pkgs \cup skipped
  /\ pc \in {"enable", "mark", "start"} => All \subseteq pkgs \cup skipped
  /\ pkgs # {} => bmake = "full"
  /\ pc \in {"mark", "start"} => sddm >= 1
  /\ pc \in {"check", "bootstrap", "install", "enable", "mark"} => ~done
  /\ pc \notin {"off", "rc", "up"} => hook <= Hooks
  /\ pc \in {"bootstrap", "install", "enable", "mark", "start"} \/ done => tree

\* However many boots it takes, the script works its list off in order, passes
\* over a package only at its cd, and enables sddm and retires only at the end
\* of the list (firstboot, set -e).
FirstBootInv ==
  TypeOK /\ Progress /\ InstalledInOrder /\ SddmHasDesktop /\ DoneIsComplete

=============================================================================
