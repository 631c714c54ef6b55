---------------------------- MODULE BuildProofs ----------------------------
(***************************************************************************)
(* Proofs about Build, for any set of targets the operator uses, any       *)
(* number of makes and any number of failures and kills.                   *)
(***************************************************************************)
EXTENDS Build, TLAPS

-----------------------------------------------------------------------------
(* Recipes.                                                                *)

\* The seven targets of make all, in order.
LEMMA RecipeOfAll ==
  LET a == Recipe("all")
  IN  /\ Len(a) = 7 /\ a[1] = "kernel" /\ a[2] = "userland" /\ a[3] = "packages"
      /\ a[4] = "desktop" /\ a[5] = "rootfs" /\ a[6] = "image" /\ a[7] = "report"
BY DEF Recipe

\* Every other recipe is short and reports nothing.
LEMMA RecipeOfOther ==
  ASSUME NEW c \in (MakeArgs \cup {"none"}) \ {"all"}
  PROVE  /\ Len(Recipe(c)) \in {1, 2}
         /\ \A i \in 1 .. Len(Recipe(c)) : Recipe(c)[i] \in (Targets \ {"report"}) \cup {"none"}
<1>1. CASE c = "clean-all"
  BY <1>1 DEF Recipe, Targets, Stamps
<1>2. CASE c # "clean-all"
  BY <1>2 DEF Recipe, Targets, Stamps, MakeArgs
<1> QED BY <1>1, <1>2

\* Where make all is, told by the target it makes.
LEMMA PlaceInAll ==
  ASSUME MakeTypes, cmd = "all", at >= 1, ToMake
  PROVE  /\ Current \in {"kernel", "userland", "packages", "desktop", "rootfs", "image", "report"}
         /\ Current = "kernel" => at = 1
         /\ Current = "userland" => at = 2
         /\ Current = "packages" => at = 3
         /\ Current = "desktop" => at = 4
         /\ Current = "rootfs" => at = 5
         /\ Current = "image" => at = 6
         /\ Current = "report" => at = 7
<1> DEFINE n == Len(Recipe(cmd))
<1>1. n = 7 /\ at \in Nat /\ at <= n /\ at >= 1
  BY RecipeOfAll DEF MakeTypes, ToMake
<1> HIDE DEF n
<1>2. at \in 1 .. 7
  BY <1>1
<1> QED BY <1>2, RecipeOfAll DEF Current

\* Only make all reports.
LEMMA OnlyAllReports ==
  ASSUME MakeTypes, at >= 1, ToMake, Current = "report"
  PROVE  cmd = "all"
<1>1. CASE cmd # "all"
  <2>1. cmd \in (MakeArgs \cup {"none"}) \ {"all"}
    BY <1>1 DEF MakeTypes
  <2>2. at \in 1 .. Len(Recipe(cmd))
    BY <2>1, RecipeOfOther DEF MakeTypes, ToMake
  <2> QED BY <2>1, <2>2, RecipeOfOther DEF Current
<1> QED BY <1>1

\* The length of a recipe is a number.
LEMMA RecipeLength ==
  ASSUME NEW c \in MakeArgs \cup {"none"}
  PROVE  Len(Recipe(c)) \in Nat \ {0}
<1>1. CASE c = "all"
  BY <1>1, RecipeOfAll
<1>2. CASE c # "all"
  BY <1>2, RecipeOfOther
<1> QED BY <1>1, <1>2

\* The end of make all.
LEMMA AllIsSeven ==
  ASSUME cmd = "all", at = 8
  PROVE  ~ToMake
<1> DEFINE n == Len(Recipe(cmd))
<1>1. n = 7
  BY RecipeOfAll
<1> HIDE DEF n
<1>2. ~(at <= n)
  BY <1>1
<1> QED BY <1>2 DEF ToMake, n

\* The next target is in the recipe or just past it.
LEMMA NextTarget ==
  ASSUME MakeTypes, at >= 1, ToMake, at' = at + 1, cmd' = cmd
  PROVE  /\ at' \in Nat /\ at' >= 1 /\ at' <= Len(Recipe(cmd')) + 1
         /\ at = 7 => at' = 8
<1> DEFINE n == Len(Recipe(cmd))
<1>1. at \in Nat /\ n \in Nat /\ at <= n
  BY RecipeLength DEF MakeTypes, ToMake
<1> HIDE DEF n
<1>2. at' \in Nat /\ at' >= 1 /\ at' <= n + 1 /\ (at = 7 => at' = 8)
  BY <1>1
<1>3. n = Len(Recipe(cmd'))
  BY DEF n
<1> QED BY <1>2, <1>3

-----------------------------------------------------------------------------
(* The control of one make.                                                *)

\* Place, spelled out by label.
LEMMA PlaceByLabel ==
  Place <=>
    /\ pc = "idle" <=> cmd = "none"
    /\ pc # "idle" => at >= 1
    /\ pc \notin {"idle", "make"} => ToMake
    /\ pc \in {"k_fetch", "k_conf", "k_tools", "k_build", "k_copy"} => Current = "kernel"
    /\ pc \in {"u_fetch", "u_build", "u_copy"} => Current = "userland" /\ "userland" \notin stamps
    /\ pc \in {"p_scripts", "p_rclocal", "p_configs"} => Current = "packages" /\ "packages" \notin stamps
    /\ pc \in {"d_rcconf", "d_install"} => Current = "desktop" /\ "desktop" \notin stamps
    /\ pc = "r_assemble" => Current = "rootfs" /\ "rootfs" \notin stamps
    /\ pc \in {"c_packages", "c_desktop", "c_rootfs", "c_staging", "c_images"} => Current = "clean"
    /\ pc = "ca_kernel" => Current = "clean-all"
    /\ pc = "touch" => Current \in Stamps
BY DEF Place, LabelsOf, Targets, Stamps, Stamped

\* make stops: whatever the files are, as long as the stamps keep their
\* promise, the invariant holds.
LEMMA Stops ==
  ASSUME BuildInv, Stop, FileTypes', StampedPartsStaged', StageThere'
  PROVE  BuildInv'
<1>1. pc' = "idle" /\ cmd' = "none" /\ said' = "failed" /\ makes' = makes /\ flaky' = flaky
  BY DEF Stop, Idle
<1>0. at' = 0
  BY DEF Stop, Idle
<1>2. MakeTypes'
  <2>1. at' \in Nat /\ at' <= Len(Recipe(cmd')) + 1
    BY <1>0, <1>1, RecipeLength
  <2>2. makes' \in Nat /\ flaky' \in BOOLEAN
    BY <1>1 DEF BuildInv, TypeOK, MakeTypes
  <2>3. pc' \in Labels /\ said' \in Lines
    BY <1>1 DEF Labels, Lines
  <2>4. cmd' \in MakeArgs \cup {"none"}
    BY <1>1
  <2> QED BY <2>1, <2>2, <2>3, <2>4 DEF MakeTypes
<1>3. Place'
  BY <1>1, PlaceByLabel DEF Place, LabelsOf, Targets, Stamps
<1>4. SoFarStaged' /\ SoFarCleaned' /\ SoFarMade' /\ Reported' /\ BuildComplete'
  BY <1>1 DEF SoFarStaged, SoFarCleaned, SoFarMade, Reported, BuildComplete
<1> QED BY <1>2, <1>3, <1>4 DEF BuildInv, TypeOK

\* A target is made: make goes on to the next one.
LEMMA Makes ==
  ASSUME BuildInv, NEW what \in Lines, Built(what), pc # "idle", ToMake,
         FileTypes', StampedPartsStaged', StageThere', SoFarMade', BuildComplete',
         what = "build complete" => cmd = "all" /\ at = 7
  PROVE  BuildInv'
<1>1. /\ pc' = "make" /\ cmd' = cmd /\ at' = at + 1 /\ said' = what
      /\ makes' = makes /\ flaky' = flaky
  BY DEF Built
<1>2. MakeTypes /\ at >= 1
  BY DEF BuildInv, TypeOK, Place
<1>3. /\ at' \in Nat /\ at' >= 1 /\ at' <= Len(Recipe(cmd')) + 1
      /\ at = 7 => at' = 8
  BY <1>1, <1>2, NextTarget
<1>4. MakeTypes'
  <2>1. makes' \in Nat /\ flaky' \in BOOLEAN /\ cmd' \in MakeArgs \cup {"none"}
    BY <1>1 DEF BuildInv, TypeOK, MakeTypes
  <2>2. pc' \in Labels /\ said' \in Lines
    BY <1>1 DEF Labels, Lines
  <2> QED BY <1>3, <2>1, <2>2 DEF MakeTypes
<1>5. Place'
  BY <1>1, <1>3 DEF BuildInv, Place, LabelsOf, Targets, Stamps
<1>6. SoFarStaged' /\ SoFarCleaned'
  BY <1>1 DEF SoFarStaged, SoFarCleaned
<1>7. Reported'
  BY <1>1, <1>3 DEF Reported
<1> QED BY <1>4, <1>5, <1>6, <1>7 DEF BuildInv, TypeOK

\* A script goes on: the label it goes to has to be in place.
LEMMA Goes ==
  ASSUME BuildInv, NEW l \in Labels \ {"idle", "make"}, pc # "idle", ToMake,
         NEW w \in {said, "source extracted"}, Say(l, w),
         FileTypes', StampedPartsStaged', Place', SoFarStaged', SoFarCleaned', SoFarMade'
  PROVE  BuildInv'
<1>1. /\ pc' = l /\ cmd' = cmd /\ at' = at /\ said' = w
      /\ makes' = makes /\ flaky' = flaky
  BY DEF Say
<1>2. MakeTypes'
  BY <1>1 DEF BuildInv, TypeOK, MakeTypes, Lines
<1>4. said # "build complete"
  <2>1. CASE pc = "make" /\ cmd = "all" /\ at = 8
    BY <2>1, AllIsSeven
  <2> QED BY <2>1 DEF BuildInv, Reported
<1>5. Reported' /\ BuildComplete'
  BY <1>1, <1>4 DEF Reported, BuildComplete
<1> QED BY <1>2, <1>5 DEF BuildInv, TypeOK

\* make all goes on from a target that is made.
LEMMA MadeOn ==
  ASSUME BuildInv, NEW what, Built(what), pc # "idle", ToMake,
         NEW t, t = Current, cmd = "all" => Made(t)',
         \A i \in 1 .. at - 1 : Made(Recipe("all")[i]) => Made(Recipe("all")[i])'
  PROVE  SoFarMade'
<1>1. at \in Nat /\ at >= 1 /\ at' = at + 1 /\ cmd' = cmd
  BY DEF BuildInv, TypeOK, MakeTypes, Place, Built
<1>2. SUFFICES ASSUME cmd = "all", NEW i \in 1 .. at' - 1
               PROVE  Made(Recipe("all")[i])'
  BY <1>1 DEF SoFarMade
<1>3. i \in 1 .. at - 1 \/ i = at
  BY <1>1
<1>4. CASE i \in 1 .. at - 1
  BY <1>2, <1>4 DEF BuildInv, SoFarMade
<1>5. CASE i = at
  BY <1>2, <1>5 DEF Current
<1> QED BY <1>3, <1>4, <1>5

\* A step of a script that leaves kernel, image and stamps alone.
LEMMA GoesOn ==
  ASSUME BuildInv, NEW l \in Labels \ {"idle", "make"}, pc # "idle", ToMake,
         NEW w \in {said, "source extracted"}, Say(l, w),
         UNCHANGED <<kern, image, stamps>>,
         FileTypes', StampedPartsStaged', SoFarStaged', Place', SoFarCleaned'
  PROVE  BuildInv'
<1>1. SoFarMade'
  BY DEF BuildInv, SoFarMade, Made, Say, Stamped
<1> QED BY <1>1, Goes

-----------------------------------------------------------------------------
(* One make and its targets.                                               *)

USE DEF At, AllButProc, procVars, srcVars, objVars, stageVars

\* The start of a make keeps BuildInv.
LEMMA make_Inv == ASSUME BuildInv, make PROVE BuildInv'
<1>1. /\ pc' = "make" /\ cmd' \in MakeArgs /\ said' = "nothing" /\ makes' = makes + 1
      /\ flaky' = flaky /\ UNCHANGED <<staged, stage, stamps>>
  BY BuildAssumption DEF make, MakeArgs, Targets, Stamps
<1>2. FileTypes'
  BY DEF make, BuildInv, TypeOK, FileTypes
<1>3. MakeTypes'
  <2>1. at' = 1 /\ at' \in Nat /\ at' <= Len(Recipe(cmd')) + 1
    BY <1>1, RecipeLength DEF make
  <2>2. makes' \in Nat
    BY <1>1 DEF BuildInv, TypeOK, MakeTypes
  <2>3. flaky' \in BOOLEAN /\ pc' \in Labels /\ said' \in Lines
    BY <1>1 DEF BuildInv, TypeOK, MakeTypes, Labels, Lines
  <2> QED BY <1>1, <2>1, <2>2, <2>3 DEF MakeTypes
<1>4. Place'
  <2>1. at' >= 1
    BY DEF make
  <2> QED BY <1>1, <2>1 DEF Place, LabelsOf, Targets, Stamps, MakeArgs
<1>5. SoFarMade'
  BY DEF make, SoFarMade
<1>6. SoFarStaged' /\ SoFarCleaned' /\ Reported' /\ BuildComplete' /\ StampedPartsStaged'
  BY <1>1 DEF SoFarStaged, StageThere, SoFarCleaned, Reported, BuildComplete,
              BuildInv, StampedPartsStaged
<1> QED BY <1>2, <1>3, <1>4, <1>5, <1>6 DEF BuildInv, TypeOK

\* The end of a make keeps BuildInv.
LEMMA make_ends_Inv == ASSUME BuildInv, make_ends PROVE BuildInv'
<1>1. /\ pc' = "idle" /\ cmd' = "none" /\ said' = said /\ makes' = makes
      /\ flaky' = flaky /\ UNCHANGED <<staged, stage, stamps, kern, image>>
  BY DEF make_ends, Idle
<1>2. FileTypes'
  BY DEF make_ends, BuildInv, TypeOK, FileTypes
<1>3. MakeTypes'
  <2>1. at' = 0 /\ at' \in Nat /\ at' <= Len(Recipe(cmd')) + 1
    BY <1>1, RecipeLength DEF make_ends, Idle
  <2>2. makes' \in Nat
    BY <1>1 DEF BuildInv, TypeOK, MakeTypes
  <2>3. flaky' \in BOOLEAN /\ pc' \in Labels /\ said' \in Lines
    BY <1>1 DEF BuildInv, TypeOK, MakeTypes, Labels, Lines
  <2> QED BY <1>1, <2>1, <2>2, <2>3 DEF MakeTypes
<1>4. Place' /\ SoFarStaged' /\ SoFarCleaned' /\ SoFarMade' /\ Reported'
  BY <1>1 DEF Place, LabelsOf, Targets, Stamps, SoFarStaged, StageThere, SoFarCleaned,
              SoFarMade, Reported, BuildInv
<1>5. BuildComplete' /\ StampedPartsStaged'
  BY <1>1 DEF BuildInv, BuildComplete, StampedPartsStaged
<1> QED BY <1>2, <1>3, <1>4, <1>5 DEF BuildInv, TypeOK

\* Steps that only touch variables the control does not look at.
LEMMA Aside ==
  ASSUME BuildInv, UNCHANGED <<pc, cmd, at, said, kern, image, stage, staged, stamps>>,
         MakeTypes', FileTypes'
  PROVE  BuildInv'
<1>1. Place' /\ SoFarCleaned' /\ SoFarStaged'
  BY DEF BuildInv, Place, SoFarStaged, StageThere, SoFarCleaned, ToMake, Current, Stamped
<1>2. SoFarMade'
  BY DEF BuildInv, SoFarMade, Made, Stamped
<1>3. Reported' /\ BuildComplete' /\ StampedPartsStaged'
  BY DEF BuildInv, Reported, BuildComplete, StampedPartsStaged
<1> QED BY <1>1, <1>2, <1>3 DEF BuildInv, TypeOK

\* An edit of the kernel configuration keeps BuildInv.
LEMMA edit_conf_Inv == ASSUME BuildInv, edit_conf PROVE BuildInv'
<1>1. MakeTypes' /\ FileTypes'
  BY DEF edit_conf, BuildInv, TypeOK, MakeTypes, FileTypes
<1> QED BY <1>1, Aside DEF edit_conf

\* The end of failures keeps BuildInv.
LEMMA settle_Inv == ASSUME BuildInv, settle PROVE BuildInv'
<1>1. MakeTypes' /\ FileTypes'
  BY DEF settle, BuildInv, TypeOK, MakeTypes, FileTypes
<1> QED BY <1>1, Aside DEF settle

\* A target is skipped or reported: no file changes.
LEMMA Skips ==
  ASSUME BuildInv, NEW what \in Lines \ {"build complete"}, NEW t, Target(t), Built(what),
         UNCHANGED AllButProc, Made(t)
  PROVE  BuildInv'
<1>1. FileTypes' /\ StampedPartsStaged' /\ StageThere' /\ Made(t)'
  BY DEF BuildInv, TypeOK, FileTypes, StampedPartsStaged, SoFarStaged, StageThere, Made, Stamped
<1>2. \A i \in 1 .. at - 1 : Made(Recipe("all")[i]) => Made(Recipe("all")[i])'
  BY DEF Made, Stamped
<1>3. pc # "idle" /\ ToMake /\ t = Current
  BY DEF Target
<1>4. SoFarMade'
  BY <1>1, <1>2, <1>3, MadeOn
<1>5. BuildComplete'
  BY DEF BuildComplete, Built
<1> QED BY <1>1, <1>3, <1>4, <1>5, Makes

\* The end of make all keeps BuildInv.
LEMMA report_Inv == ASSUME BuildInv, report PROVE BuildInv'
<1>1. /\ MakeTypes /\ at >= 1 /\ pc # "idle" /\ ToMake /\ Current = "report"
      /\ Built("build complete") /\ UNCHANGED <<stamps, staged, stage, kern, image>>
  BY DEF report, Target, BuildInv, TypeOK, Place
<1>2. cmd = "all" /\ at = 7
  BY <1>1, OnlyAllReports, PlaceInAll
<1>3. \A i \in 1 .. 6 : Made(Recipe("all")[i])
  BY <1>2 DEF BuildInv, SoFarMade
<1>4. /\ Made("kernel") /\ Made("userland") /\ Made("packages") /\ Made("desktop")
      /\ Made("rootfs") /\ Made("image")
  BY <1>3, RecipeOfAll
<1>5. kern # None /\ image = kern /\ Stamps \subseteq stamps
  BY <1>4 DEF Made, Stamps, Stamped
<1>6. stamps = Stamps
  BY <1>5 DEF BuildInv, TypeOK, FileTypes
<1>7. {"etc", "firstboot", "installer", "fstab"} \subseteq staged /\ stage
  BY <1>6 DEF BuildInv, StampedPartsStaged, Promised, Stamps, SoFarStaged, StageThere
<1>8. BuildComplete'
  BY <1>1, <1>5, <1>6, <1>7 DEF BuildComplete
<1>9. FileTypes' /\ StampedPartsStaged' /\ StageThere'
  BY DEF report, BuildInv, TypeOK, FileTypes, StampedPartsStaged, SoFarStaged, StageThere
<1>10. SoFarMade'
  <2>1. \A i \in 1 .. at - 1 : Made(Recipe("all")[i]) => Made(Recipe("all")[i])'
    BY DEF report, Made, Stamped
  <2>2. Made("report")'
    BY DEF Made, Stamps
  <2> QED BY <1>1, <2>1, <2>2, MadeOn
<1> QED BY <1>1, <1>2, <1>8, <1>9, <1>10, Makes DEF Lines

\* An interrupt keeps BuildInv.
LEMMA Kill_Inv == ASSUME BuildInv, Kill PROVE BuildInv'
<1>1. Stop /\ FileTypes' /\ StampedPartsStaged' /\ StageThere'
  BY DEF Kill, Fail, BuildInv, TypeOK, FileTypes, StampedPartsStaged, SoFarStaged, StageThere
<1> QED BY <1>1, Stops

\* The rest of a script is not disturbed by a step that changes neither pc's
\* place nor the stamps, parts and staging directory.
LEMMA SameFiles ==
  ASSUME BuildInv, UNCHANGED <<stage, staged, stamps>>
  PROVE  StampedPartsStaged' /\ StageThere'
BY DEF BuildInv, StampedPartsStaged, SoFarStaged, StageThere

\* The kernel target keeps BuildInv.
LEMMA kernel_Inv == ASSUME BuildInv, kernel PROVE BuildInv'
<1>1. CASE kern # None
  <2>1. Built("kernel already built") /\ UNCHANGED AllButProc /\ Target("kernel")
    BY <1>1 DEF kernel
  <2>2. Made("kernel")
    BY <1>1 DEF Made, Stamps
  <2> QED BY <2>1, <2>2, Skips DEF Lines
<1>2. CASE kern = None
  <2>1. Goto("k_fetch") /\ UNCHANGED AllButProc /\ pc # "idle" /\ ToMake /\ Current = "kernel"
    BY <1>2 DEF kernel, Target
  <2>2. FileTypes' /\ StampedPartsStaged' /\ StageThere'
    BY <2>1, SameFiles DEF BuildInv, TypeOK, FileTypes
  <2>3. Place'
    BY <2>1, PlaceByLabel DEF BuildInv, Place, Goto, Say, ToMake, Current, LabelsOf, Targets, Stamps
  <2>4. SoFarStaged' /\ SoFarCleaned'
    BY <2>1, <2>2 DEF SoFarStaged, SoFarCleaned, Goto, Say
  <2> QED BY <2>1, <2>2, <2>3, <2>4, GoesOn DEF Labels, Goto
<1> QED BY <1>1, <1>2

\* kernel_fetch keeps BuildInv.
LEMMA kernel_fetch_Inv == ASSUME BuildInv, kernel_fetch PROVE BuildInv'
<1>1. pc = "k_fetch" /\ pc # "idle" /\ ToMake /\ Current = "kernel"
  BY PlaceByLabel DEF BuildInv, kernel_fetch
<1>2. FileTypes'
  BY DEF kernel_fetch, BuildInv, TypeOK, FileTypes, fetch_netbsd_src
<1>3. StampedPartsStaged' /\ StageThere'
  BY SameFiles DEF kernel_fetch, fetch_netbsd_src
<1>4. CASE Stop
  BY <1>2, <1>3, <1>4, Stops
<1>5. ASSUME NEW w \in {said, "source extracted"}, Say("k_conf", w) PROVE BuildInv'
  <2>1. UNCHANGED <<kern, image, stamps>>
    BY <1>5 DEF kernel_fetch, Fail, Stop, Idle, Say, fetch_netbsd_src, Goto
  <2>2. Place'
    BY <1>1, <1>5, <2>1 DEF BuildInv, Place, Say, ToMake, Current, LabelsOf, Targets, Stamps, Stamped
  <2>3. SoFarStaged' /\ SoFarCleaned'
    BY <1>1, <1>3, <1>5 DEF SoFarStaged, SoFarCleaned, Say
  <2> QED BY <1>1, <1>2, <1>3, <1>5, <2>1, <2>2, <2>3, GoesOn DEF Labels
<1> QED BY <1>4, <1>5 DEF kernel_fetch, Fail, fetch_netbsd_src, Goto

\* kernel_conf keeps BuildInv.
LEMMA kernel_conf_Inv == ASSUME BuildInv, kernel_conf PROVE BuildInv'
<1>1. pc = "k_conf" /\ pc # "idle" /\ ToMake /\ Current = "kernel"
  BY PlaceByLabel DEF BuildInv, kernel_conf
<1>2. FileTypes'
  BY DEF kernel_conf, BuildInv, TypeOK, FileTypes
<1>3. StampedPartsStaged' /\ StageThere'
  BY SameFiles DEF kernel_conf
<1>4. CASE Stop
  BY <1>2, <1>3, <1>4, Stops
<1>5. CASE Goto("k_tools")
  <2>1. UNCHANGED <<kern, image, stamps>>
    BY <1>5 DEF kernel_conf, Fail, Stop, Idle, Say, Goto
  <2>2. Place'
    BY <1>1, <1>5, <2>1 DEF BuildInv, Place, Say, ToMake, Current, LabelsOf, Targets, Stamps, Stamped, Goto
  <2>3. SoFarStaged' /\ SoFarCleaned'
    BY <1>1, <1>3, <1>5 DEF SoFarStaged, SoFarCleaned, Say, Goto
  <2> QED BY <1>1, <1>2, <1>3, <1>5, <2>1, <2>2, <2>3, GoesOn DEF Labels, Goto
<1> QED BY <1>4, <1>5 DEF kernel_conf, Fail

\* kernel_tools keeps BuildInv.
LEMMA kernel_tools_Inv == ASSUME BuildInv, kernel_tools PROVE BuildInv'
<1>1. pc = "k_tools" /\ pc # "idle" /\ ToMake /\ Current = "kernel"
  BY PlaceByLabel DEF BuildInv, kernel_tools
<1>2. FileTypes'
  BY DEF kernel_tools, BuildInv, TypeOK, FileTypes
<1>3. StampedPartsStaged' /\ StageThere'
  BY SameFiles DEF kernel_tools
<1>4. CASE Stop
  BY <1>2, <1>3, <1>4, Stops
<1>5. CASE Goto("k_build")
  <2>1. UNCHANGED <<kern, image, stamps>>
    BY <1>5 DEF kernel_tools, Fail, Stop, Idle, Say, Goto
  <2>2. Place'
    BY <1>1, <1>5, <2>1 DEF BuildInv, Place, Say, ToMake, Current, LabelsOf, Targets, Stamps, Stamped, Goto
  <2>3. SoFarStaged' /\ SoFarCleaned'
    BY <1>1, <1>3, <1>5 DEF SoFarStaged, SoFarCleaned, Say, Goto
  <2> QED BY <1>1, <1>2, <1>3, <1>5, <2>1, <2>2, <2>3, GoesOn DEF Labels, Goto
<1> QED BY <1>4, <1>5 DEF kernel_tools, Fail

\* kernel_build keeps BuildInv.
LEMMA kernel_build_Inv == ASSUME BuildInv, kernel_build PROVE BuildInv'
<1>1. pc = "k_build" /\ pc # "idle" /\ ToMake /\ Current = "kernel"
  BY PlaceByLabel DEF BuildInv, kernel_build
<1>2. FileTypes'
  BY DEF kernel_build, BuildInv, TypeOK, FileTypes
<1>3. StampedPartsStaged' /\ StageThere'
  BY SameFiles DEF kernel_build
<1>4. CASE Stop
  BY <1>2, <1>3, <1>4, Stops
<1>5. CASE Goto("k_copy")
  <2>1. UNCHANGED <<kern, image, stamps>>
    BY <1>5 DEF kernel_build, Fail, Stop, Idle, Say, Goto
  <2>2. Place'
    BY <1>1, <1>5, <2>1 DEF BuildInv, Place, Say, ToMake, Current, LabelsOf, Targets, Stamps, Stamped, Goto
  <2>3. SoFarStaged' /\ SoFarCleaned'
    BY <1>1, <1>3, <1>5 DEF SoFarStaged, SoFarCleaned, Say, Goto
  <2> QED BY <1>1, <1>2, <1>3, <1>5, <2>1, <2>2, <2>3, GoesOn DEF Labels, Goto
<1> QED BY <1>4, <1>5 DEF kernel_build, Fail

\* kernel_copy keeps BuildInv.
LEMMA kernel_copy_Inv == ASSUME BuildInv, kernel_copy PROVE BuildInv'
<1>1. pc # "idle" /\ ToMake /\ Current = "kernel" /\ at >= 1 /\ MakeTypes
  BY PlaceByLabel DEF BuildInv, TypeOK, kernel_copy
<1>2. FileTypes'
  BY DEF kernel_copy, BuildInv, TypeOK, FileTypes
<1>3. StampedPartsStaged' /\ StageThere'
  BY SameFiles DEF kernel_copy
<1>4. CASE Stop
  BY <1>2, <1>3, <1>4, Stops
<1>5. CASE objk # None /\ kern' = objk /\ Built("kernel built")
  <2>1. Made("kernel")'
    BY <1>5 DEF Made, Stamps
  <2>2. cmd = "all" => at = 1
    BY <1>1, PlaceInAll
  <2>3. SoFarMade'
    <3>1. CASE cmd # "all"
      BY <1>5, <3>1 DEF SoFarMade, Built
    <3>2. CASE cmd = "all"
      <4>1. \A i \in 1 .. at - 1 : FALSE
        BY <2>2, <3>2
      <4> QED BY <1>1, <1>5, <2>1, <4>1, MadeOn
    <3> QED BY <3>1, <3>2
  <2>4. BuildComplete'
    BY <1>5 DEF BuildComplete, Built
  <2> QED BY <1>1, <1>2, <1>3, <1>5, <2>3, <2>4, Makes DEF Lines
<1> QED BY <1>4, <1>5 DEF kernel_copy, Fail

-----------------------------------------------------------------------------
(* The stamped phases.                                                     *)

\* A phase is skipped when it is stamped, and starts when it is not.
LEMMA phase_Inv ==
  ASSUME BuildInv, NEW t \in Stamps, NEW l, <<t, l>> \in {<<"userland", "u_fetch">>,
           <<"packages", "p_scripts">>, <<"desktop", "d_rcconf">>, <<"rootfs", "r_assemble">>},
         phase(t, l)
  PROVE  BuildInv'
<1>1. pc # "idle" /\ ToMake /\ Current = t /\ Target(t) /\ UNCHANGED AllButProc
  BY DEF phase, Target
<1>2. CASE Stamped(t)
  <2>1. Built("already done") /\ Made(t)
    BY <1>2 DEF phase, Made, Stamps
  <2> QED BY <1>1, <2>1, Skips DEF Lines
<1>3. CASE ~Stamped(t)
  <2>1. Goto(l)
    BY <1>3 DEF phase
  <2>2. FileTypes' /\ StampedPartsStaged' /\ StageThere'
    BY <1>1, SameFiles DEF BuildInv, TypeOK, FileTypes
  <2>3. Place'
    BY <1>1, <1>3, <2>1 DEF BuildInv, Place, Goto, Say, ToMake, Current, LabelsOf, Targets,
                            Stamps, Stamped
  <2>4. SoFarStaged' /\ SoFarCleaned'
    BY <1>1, <2>1, <2>2 DEF SoFarStaged, SoFarCleaned, Goto, Say
  <2> QED BY <1>1, <2>1, <2>2, <2>3, <2>4, GoesOn DEF Labels, Goto
<1> QED BY <1>2, <1>3

\* The stamp of a phase keeps BuildInv.
LEMMA touch_stamp_Inv == ASSUME BuildInv, touch_stamp PROVE BuildInv'
<1>1. /\ pc # "idle" /\ ToMake /\ Current \in Stamps /\ at >= 1
      /\ Promised(Current) \subseteq staged
  BY PlaceByLabel DEF BuildInv, touch_stamp, SoFarStaged
<1>2. FileTypes'
  BY <1>1 DEF touch_stamp, BuildInv, TypeOK, FileTypes
<1>3. StampedPartsStaged' /\ StageThere'
  BY <1>1 DEF touch_stamp, BuildInv, StampedPartsStaged, SoFarStaged, StageThere
<1>4. CASE Fail
  BY <1>2, <1>3, <1>4, Stops DEF Fail
<1>5. CASE /\ stamps' = stamps \cup {Current} /\ Built("phase done")
           /\ UNCHANGED <<kern, image>>
  <2>1. PICK t : t = Current
    OBVIOUS
  <2>2. Made(t)'
    BY <1>1, <1>5, <2>1 DEF Made, Stamps, Stamped
  <2>3. \A i \in 1 .. at - 1 : Made(Recipe("all")[i]) => Made(Recipe("all")[i])'
    <3>1. stamps \subseteq stamps' /\ kern' = kern /\ image' = image
      BY <1>5
    <3>2. \A u : Made(u) => Made(u)'
      BY <3>1 DEF Made, Stamped
    <3> QED BY <3>2
  <2>4. SoFarMade'
    BY <1>1, <1>5, <2>1, <2>2, <2>3, MadeOn
  <2>5. BuildComplete'
    BY <1>5 DEF BuildComplete, Built
  <2> QED BY <1>1, <1>2, <1>3, <1>5, <2>4, <2>5, Makes DEF Lines
<1> QED BY <1>4, <1>5 DEF touch_stamp

\* userland_fetch keeps BuildInv.
LEMMA userland_fetch_Inv == ASSUME BuildInv, userland_fetch PROVE BuildInv'
<1>1. pc = "u_fetch" /\ pc # "idle" /\ ToMake /\ Current = "userland" /\ "userland" \notin stamps
  BY PlaceByLabel DEF BuildInv, userland_fetch
<1>2. FileTypes'
  BY DEF userland_fetch, BuildInv, TypeOK, FileTypes, fetch_netbsd_src
<1>3. StampedPartsStaged' /\ StageThere'
  BY SameFiles DEF userland_fetch, fetch_netbsd_src
<1>4. CASE Stop
  BY <1>2, <1>3, <1>4, Stops
<1>5. ASSUME NEW w \in {said, "source extracted"}, Say("u_build", w) PROVE BuildInv'
  <2>1. UNCHANGED <<kern, image, stamps>>
    BY <1>5 DEF userland_fetch, Fail, Stop, Idle, Say, fetch_netbsd_src, Goto
  <2>2. Place'
    BY <1>1, <1>5, <2>1 DEF BuildInv, Place, Say, ToMake, Current, LabelsOf, Targets, Stamps, Stamped
  <2>3. SoFarStaged' /\ SoFarCleaned'
    BY <1>1, <1>3, <1>5 DEF SoFarStaged, SoFarCleaned, Say
  <2> QED BY <1>1, <1>2, <1>3, <1>5, <2>1, <2>2, <2>3, GoesOn DEF Labels
<1> QED BY <1>4, <1>5 DEF userland_fetch, Fail, fetch_netbsd_src, Goto

\* userland_build keeps BuildInv.
LEMMA userland_build_Inv == ASSUME BuildInv, userland_build PROVE BuildInv'
<1>1. pc = "u_build" /\ pc # "idle" /\ ToMake /\ Current = "userland" /\ "userland" \notin stamps
  BY PlaceByLabel DEF BuildInv, userland_build
<1>2. FileTypes'
  BY DEF userland_build, BuildInv, TypeOK, FileTypes
<1>3. StampedPartsStaged' /\ StageThere'
  BY SameFiles DEF userland_build
<1>4. CASE Stop
  BY <1>2, <1>3, <1>4, Stops
<1>5. CASE Goto("u_copy")
  <2>1. UNCHANGED <<kern, image, stamps>>
    BY <1>5 DEF userland_build, Fail, Stop, Idle, Say, Goto
  <2>2. Place'
    BY <1>1, <1>5, <2>1 DEF BuildInv, Place, Say, ToMake, Current, LabelsOf, Targets, Stamps, Stamped, Goto
  <2>3. SoFarStaged' /\ SoFarCleaned'
    BY <1>1, <1>3, <1>5 DEF SoFarStaged, SoFarCleaned, Say, Goto
  <2> QED BY <1>1, <1>2, <1>3, <1>5, <2>1, <2>2, <2>3, GoesOn DEF Labels, Goto
<1> QED BY <1>4, <1>5 DEF userland_build, Fail

\* userland_copy keeps BuildInv.
LEMMA userland_copy_Inv == ASSUME BuildInv, userland_copy PROVE BuildInv'
<1>1. pc = "u_copy" /\ pc # "idle" /\ ToMake /\ Current = "userland" /\ "userland" \notin stamps
  BY PlaceByLabel DEF BuildInv, userland_copy
<1>2. FileTypes'
  <2>1. staged' \subseteq Parts
    BY DEF userland_copy, BuildInv, TypeOK, FileTypes, Parts
  <2>2. hooks' \in Nat
    BY DEF userland_copy, BuildInv, TypeOK, FileTypes
  <2> QED BY <2>1, <2>2 DEF userland_copy, BuildInv, TypeOK, FileTypes
<1>3. StampedPartsStaged' /\ StageThere'
  BY <1>1 DEF userland_copy, BuildInv, StampedPartsStaged, Promised, SoFarStaged, StageThere, DistFiles
<1>4. CASE Stop
  BY <1>2, <1>3, <1>4, Stops
<1>5. CASE Goto("touch")
  <2>1. UNCHANGED <<kern, image, stamps>>
    BY <1>5 DEF userland_copy, Fail, Stop, Idle, Say, Goto
  <2>2. Place'
    BY <1>1, <1>5, <2>1 DEF BuildInv, Place, Say, ToMake, Current, LabelsOf, Targets, Stamps, Stamped, Goto
  <2>3. SoFarStaged' /\ SoFarCleaned'
    BY <1>1, <1>3, <1>5 DEF SoFarStaged, SoFarCleaned, Say, Goto, Promised, Current
  <2> QED BY <1>1, <1>2, <1>3, <1>5, <2>1, <2>2, <2>3, GoesOn DEF Labels, Goto
<1> QED BY <1>4, <1>5 DEF userland_copy, Fail

\* packages_scripts keeps BuildInv.
LEMMA packages_scripts_Inv == ASSUME BuildInv, packages_scripts PROVE BuildInv'
<1>1. pc = "p_scripts" /\ pc # "idle" /\ ToMake /\ Current = "packages" /\ "packages" \notin stamps
  BY PlaceByLabel DEF BuildInv, packages_scripts
<1>2. FileTypes'
  BY DEF packages_scripts, BuildInv, TypeOK, FileTypes, Parts, BreaksOff
<1>3. StampedPartsStaged' /\ StageThere'
  BY <1>1 DEF packages_scripts, BuildInv, StampedPartsStaged, Promised, SoFarStaged, StageThere, BreaksOff, Stop, Idle, Fail
<1>4. CASE Stop
  BY <1>2, <1>3, <1>4, Stops
<1>5. CASE Goto("p_rclocal")
  <2>1. UNCHANGED <<kern, image, stamps>>
    BY <1>5 DEF packages_scripts, Fail, Stop, Idle, Say, Goto, BreaksOff
  <2>2. Place'
    BY <1>1, <1>5, <2>1 DEF BuildInv, Place, Say, ToMake, Current, LabelsOf, Targets, Stamps, Stamped, Goto
  <2>3. SoFarStaged' /\ SoFarCleaned'
    BY <1>1, <1>3, <1>5 DEF SoFarStaged, SoFarCleaned, Say, Goto, packages_scripts, BreaksOff, Fail, Stop, Idle
  <2> QED BY <1>1, <1>2, <1>3, <1>5, <2>1, <2>2, <2>3, GoesOn DEF Labels, Goto
<1> QED BY <1>4, <1>5 DEF packages_scripts, Fail, BreaksOff

\* packages_rclocal keeps BuildInv.
LEMMA packages_rclocal_Inv == ASSUME BuildInv, packages_rclocal PROVE BuildInv'
<1>1. pc = "p_rclocal" /\ pc # "idle" /\ ToMake /\ Current = "packages" /\ "packages" \notin stamps
  BY PlaceByLabel DEF BuildInv, packages_rclocal
<1>2. FileTypes'
  <2>1. staged' \subseteq Parts
    BY DEF packages_rclocal, BuildInv, TypeOK, FileTypes, Parts
  <2>2. hooks' \in Nat
    <3>1. hooks \in Nat /\ hooks' \in {hooks, hooks + 1}
      BY DEF packages_rclocal, BuildInv, TypeOK, FileTypes
    <3> QED BY <3>1
  <2> QED BY <2>1, <2>2 DEF packages_rclocal, BuildInv, TypeOK, FileTypes
<1>3. StampedPartsStaged' /\ StageThere'
  BY <1>1 DEF packages_rclocal, BuildInv, StampedPartsStaged, Promised, SoFarStaged, StageThere
<1>4. CASE Stop
  BY <1>2, <1>3, <1>4, Stops
<1>5. CASE Goto("p_configs")
  <2>1. UNCHANGED <<kern, image, stamps>>
    BY <1>5 DEF packages_rclocal, Fail, Stop, Idle, Say, Goto
  <2>2. Place'
    BY <1>1, <1>5, <2>1 DEF BuildInv, Place, Say, ToMake, Current, LabelsOf, Targets, Stamps, Stamped, Goto
  <2>3. SoFarStaged' /\ SoFarCleaned'
    BY <1>1, <1>3, <1>5 DEF SoFarStaged, SoFarCleaned, Say, Goto, packages_rclocal, Fail, Stop, Idle, BuildInv, StageThere
  <2> QED BY <1>1, <1>2, <1>3, <1>5, <2>1, <2>2, <2>3, GoesOn DEF Labels, Goto
<1> QED BY <1>4, <1>5 DEF packages_rclocal, Fail

\* packages_configs keeps BuildInv.
LEMMA packages_configs_Inv == ASSUME BuildInv, packages_configs PROVE BuildInv'
<1>1. /\ pc # "idle" /\ ToMake /\ Current = "packages"
      /\ Promised("packages") \subseteq staged
  BY PlaceByLabel DEF BuildInv, packages_configs, SoFarStaged, Promised
<1>2. FileTypes'
  BY DEF packages_configs, BuildInv, TypeOK, FileTypes, Stamps
<1>3. StampedPartsStaged' /\ StageThere'
  BY <1>1 DEF packages_configs, BuildInv, StampedPartsStaged, SoFarStaged, StageThere
<1>4. CASE Fail
  BY <1>2, <1>3, <1>4, Stops DEF Fail
<1>5. CASE stamps' = stamps \cup {"packages"} /\ Goto("touch")
  <2>1. Place'
    BY <1>1, <1>5 DEF BuildInv, Place, Goto, Say, ToMake, Current, LabelsOf, Targets, Stamps
  <2>2. SoFarStaged' /\ SoFarCleaned'
    BY <1>1, <1>3, <1>5 DEF packages_configs, SoFarStaged, SoFarCleaned, Goto, Say, Current
  <2>3. \A t : Made(t) => Made(t)'
    BY <1>5 DEF packages_configs, Made, Stamped
  <2>4. SoFarMade'
    BY <1>5, <2>3 DEF BuildInv, SoFarMade, Goto, Say
  <2> QED BY <1>1, <1>2, <1>3, <1>5, <2>1, <2>2, <2>4, Goes DEF Labels, Goto
<1> QED BY <1>4, <1>5 DEF packages_configs

\* desktop_rcconf keeps BuildInv.
LEMMA desktop_rcconf_Inv == ASSUME BuildInv, desktop_rcconf PROVE BuildInv'
<1>1. pc = "d_rcconf" /\ pc # "idle" /\ ToMake /\ Current = "desktop" /\ "desktop" \notin stamps
  BY PlaceByLabel DEF BuildInv, desktop_rcconf
<1>2. FileTypes'
  BY DEF desktop_rcconf, BuildInv, TypeOK, FileTypes, Parts, BreaksOff
<1>3. StampedPartsStaged' /\ StageThere'
  BY <1>1 DEF desktop_rcconf, BuildInv, StampedPartsStaged, Promised, SoFarStaged, StageThere, BreaksOff
<1>4. CASE Stop
  BY <1>2, <1>3, <1>4, Stops
<1>5. CASE Goto("d_install")
  <2>1. UNCHANGED <<kern, image, stamps>>
    BY <1>5 DEF desktop_rcconf, Fail, Stop, Idle, Say, Goto, BreaksOff
  <2>2. Place'
    BY <1>1, <1>5, <2>1 DEF BuildInv, Place, Say, ToMake, Current, LabelsOf, Targets, Stamps, Stamped, Goto
  <2>3. SoFarStaged' /\ SoFarCleaned'
    BY <1>1, <1>3, <1>5 DEF SoFarStaged, SoFarCleaned, Say, Goto, desktop_rcconf, BreaksOff, Fail, Stop, Idle
  <2> QED BY <1>1, <1>2, <1>3, <1>5, <2>1, <2>2, <2>3, GoesOn DEF Labels, Goto
<1> QED BY <1>4, <1>5 DEF desktop_rcconf, Fail, BreaksOff

\* desktop_install keeps BuildInv.
LEMMA desktop_install_Inv == ASSUME BuildInv, desktop_install PROVE BuildInv'
<1>1. pc = "d_install" /\ pc # "idle" /\ ToMake /\ Current = "desktop" /\ "desktop" \notin stamps
  BY PlaceByLabel DEF BuildInv, desktop_install
<1>2. FileTypes'
  BY DEF desktop_install, BuildInv, TypeOK, FileTypes, Parts, BreaksOff
<1>3. StampedPartsStaged' /\ StageThere'
  BY <1>1 DEF desktop_install, BuildInv, StampedPartsStaged, Promised, SoFarStaged, StageThere, BreaksOff
<1>4. CASE Stop
  BY <1>2, <1>3, <1>4, Stops
<1>5. CASE Goto("touch")
  <2>1. UNCHANGED <<kern, image, stamps>>
    BY <1>5 DEF desktop_install, Fail, Stop, Idle, Say, Goto, BreaksOff
  <2>2. Place'
    BY <1>1, <1>5, <2>1 DEF BuildInv, Place, Say, ToMake, Current, LabelsOf, Targets, Stamps, Stamped, Goto
  <2>3. SoFarStaged' /\ SoFarCleaned'
    BY <1>1, <1>3, <1>5 DEF SoFarStaged, SoFarCleaned, Say, Goto, desktop_install, BreaksOff, Fail, Stop, Idle, Promised, Current
  <2> QED BY <1>1, <1>2, <1>3, <1>5, <2>1, <2>2, <2>3, GoesOn DEF Labels, Goto
<1> QED BY <1>4, <1>5 DEF desktop_install, Fail, BreaksOff

\* rootfs_assemble keeps BuildInv.
LEMMA rootfs_assemble_Inv == ASSUME BuildInv, rootfs_assemble PROVE BuildInv'
<1>1. pc = "r_assemble" /\ pc # "idle" /\ ToMake /\ Current = "rootfs" /\ "rootfs" \notin stamps
  BY PlaceByLabel DEF BuildInv, rootfs_assemble
<1>2. FileTypes'
  BY DEF rootfs_assemble, BuildInv, TypeOK, FileTypes, Parts, BreaksOff
<1>3. StampedPartsStaged' /\ StageThere'
  BY <1>1 DEF rootfs_assemble, BuildInv, StampedPartsStaged, Promised, SoFarStaged, StageThere, BreaksOff
<1>4. CASE Stop
  BY <1>2, <1>3, <1>4, Stops
<1>5. CASE Goto("touch")
  <2>1. UNCHANGED <<kern, image, stamps>>
    BY <1>5 DEF rootfs_assemble, Fail, Stop, Idle, Say, Goto, BreaksOff
  <2>2. Place'
    BY <1>1, <1>5, <2>1 DEF BuildInv, Place, Say, ToMake, Current, LabelsOf, Targets, Stamps, Stamped, Goto
  <2>3. SoFarStaged' /\ SoFarCleaned'
    BY <1>1, <1>3, <1>5 DEF SoFarStaged, SoFarCleaned, Say, Goto, rootfs_assemble, BreaksOff, Fail, Stop, Idle, Promised, Current
  <2> QED BY <1>1, <1>2, <1>3, <1>5, <2>1, <2>2, <2>3, GoesOn DEF Labels, Goto
<1> QED BY <1>4, <1>5 DEF rootfs_assemble, Fail, BreaksOff

-----------------------------------------------------------------------------
(* The image and the clean targets.                                        *)

\* No version is a number, too.
LEMMA NoneIsNat == None \in Nat
BY DEF None

\* 06-make-image.sh keeps BuildInv.
LEMMA make_image_Inv == ASSUME BuildInv, make_image PROVE BuildInv'
<1>1. pc # "idle" /\ ToMake /\ Current = "image" /\ at >= 1 /\ MakeTypes
  BY DEF BuildInv, TypeOK, Place, make_image, Target
<1>2. FileTypes'
  <2>1. image' \in {kern, image, None, Broken}
    BY DEF make_image
  <2>2. image' \in Nat \cup {Partial, Broken}
    BY <2>1, NoneIsNat DEF BuildInv, TypeOK, FileTypes
  <2> QED BY <2>2 DEF make_image, BuildInv, TypeOK, FileTypes
<1>3. StampedPartsStaged' /\ StageThere'
  BY SameFiles DEF make_image
<1>4. CASE Stop
  BY <1>2, <1>3, <1>4, Stops
<1>5. CASE image' = kern /\ Built("image made")
  <2>1. Made("image")'
    BY <1>5 DEF make_image, Made, Stamps
  <2>2. cmd = "all" => at = 6
    BY <1>1, PlaceInAll
  <2>3. SoFarMade'
    <3>1. CASE cmd # "all"
      BY <1>5, <3>1 DEF SoFarMade, Built
    <3>2. CASE cmd = "all"
      <4>1. \A i \in 1 .. at - 1 : Recipe("all")[i] # "image"
        <5>1. at - 1 = 5
          BY <2>2, <3>2
        <5> QED BY <5>1, RecipeOfAll
      <4>2. \A t : t # "image" /\ Made(t) => Made(t)'
        <5>1. kern' = kern /\ stamps' = stamps
          BY DEF make_image
        <5> QED BY <5>1 DEF Made, Stamped
      <4>3. \A i \in 1 .. at - 1 : Made(Recipe("all")[i]) => Made(Recipe("all")[i])'
        BY <4>1, <4>2
      <4> QED BY <1>1, <1>5, <2>1, <4>3, MadeOn
    <3> QED BY <3>1, <3>2
  <2>4. BuildComplete'
    BY <1>5 DEF BuildComplete, Built
  <2> QED BY <1>1, <1>2, <1>3, <1>5, <2>3, <2>4, Makes DEF Lines
<1> QED BY <1>4, <1>5 DEF make_image

\* While clean or clean-all is made, make all is not.
LEMMA NotAll ==
  ASSUME BuildInv, pc # "idle", ToMake, Current \in {"clean", "clean-all"}
  PROVE  cmd # "all"
BY PlaceInAll DEF BuildInv, TypeOK, Place

\* clean_stamps keeps BuildInv.
LEMMA clean_stamps_Inv == ASSUME BuildInv, clean_stamps PROVE BuildInv'
<1>1. pc # "idle" /\ ToMake /\ Current = "clean"
  BY PlaceByLabel DEF BuildInv, clean_stamps, Target
<1>2. cmd # "all"
  BY <1>1, NotAll
<1>3. FileTypes'
  BY DEF clean_stamps, rm_stamp, BuildInv, TypeOK, FileTypes
<1>4. StampedPartsStaged' /\ StageThere'
  BY DEF clean_stamps, rm_stamp, BuildInv, StampedPartsStaged, SoFarStaged, StageThere
<1>5. PICK l \in {"c_packages", "c_desktop", "c_rootfs", "c_staging"} : Goto(l)
  BY DEF clean_stamps
<1>6. Place'
  BY <1>1, <1>5 DEF BuildInv, Place, Goto, Say, ToMake, Current, LabelsOf, Targets, Stamps
<1>7. SoFarStaged'
  BY <1>4, <1>5 DEF SoFarStaged, Goto, Say
<1>8. SoFarCleaned'
  BY DEF clean_stamps, rm_stamp, BuildInv, SoFarCleaned, Stamped, Goto, Say
<1>9. SoFarMade'
  BY <1>2, <1>5 DEF SoFarMade, Goto, Say
<1> QED BY <1>1, <1>3, <1>4, <1>5, <1>6, <1>7, <1>8, <1>9, Goes DEF Goto, Labels

\* clean_staging keeps BuildInv.
LEMMA clean_staging_Inv == ASSUME BuildInv, clean_staging PROVE BuildInv'
<1>1. pc # "idle" /\ ToMake /\ Current = "clean" /\ pc = "c_staging"
  BY PlaceByLabel DEF BuildInv, clean_staging
<1>2. FileTypes'
  BY DEF clean_staging, BuildInv, TypeOK, FileTypes
<1>3. stamps = {} /\ stamps' = {}
  BY <1>1 DEF clean_staging, BuildInv, SoFarCleaned, Stamped, TypeOK, FileTypes, Stamps
<1>4. StampedPartsStaged' /\ StageThere'
  BY <1>3 DEF clean_staging, BuildInv, StampedPartsStaged, SoFarStaged, StageThere
<1>5. CASE Fail
  BY <1>2, <1>4, <1>5, Stops DEF Fail
<1>6. CASE Goto("c_images")
  <2>1. UNCHANGED <<kern, image, stamps>>
    BY DEF clean_staging
  <2>2. Place'
    BY <1>1, <1>6 DEF BuildInv, Place, Goto, Say, ToMake, Current, LabelsOf, Targets, Stamps
  <2>3. SoFarStaged' /\ SoFarCleaned'
    BY <1>4, <1>6 DEF SoFarStaged, SoFarCleaned, Goto, Say
  <2> QED BY <1>1, <1>2, <1>4, <1>6, <2>1, <2>2, <2>3, GoesOn DEF Goto, Labels
<1> QED BY <1>5, <1>6 DEF clean_staging

\* clean_images keeps BuildInv.
LEMMA clean_images_Inv == ASSUME BuildInv, clean_images PROVE BuildInv'
<1>1. pc # "idle" /\ ToMake /\ Current = "clean"
  BY PlaceByLabel DEF BuildInv, clean_images
<1>2. cmd # "all"
  BY <1>1, NotAll
<1>3. FileTypes'
  BY DEF clean_images, BuildInv, TypeOK, FileTypes, None
<1>4. StampedPartsStaged' /\ StageThere'
  BY SameFiles DEF clean_images
<1>5. Built("clean done") /\ SoFarMade' /\ BuildComplete'
  BY <1>2 DEF clean_images, Built, SoFarMade, BuildComplete
<1> QED BY <1>1, <1>3, <1>4, <1>5, Makes DEF Lines

\* clean_all_work keeps BuildInv.
LEMMA clean_all_work_Inv == ASSUME BuildInv, clean_all_work PROVE BuildInv'
<1>1. pc # "idle" /\ ToMake /\ Current = "clean-all"
  BY DEF clean_all_work, Target
<1>2. FileTypes'
  <2>1. objk' \in Nat
    BY NoneIsNat DEF clean_all_work, BuildInv, TypeOK, FileTypes
  <2>2. tools' \in {"none", "partial", "full"} /\ dest' \in {"none", "partial", "full"}
    BY DEF clean_all_work, BuildInv, TypeOK, FileTypes
  <2> QED BY <2>1, <2>2 DEF clean_all_work, BuildInv, TypeOK, FileTypes
<1>3. StampedPartsStaged' /\ StageThere'
  BY SameFiles DEF clean_all_work
<1>4. CASE Fail
  BY <1>2, <1>3, <1>4, Stops DEF Fail
<1>5. CASE Goto("ca_kernel")
  <2>1. UNCHANGED <<kern, image, stamps>>
    BY DEF clean_all_work
  <2>2. Place'
    BY <1>1, <1>5 DEF BuildInv, Place, Goto, Say, ToMake, Current, LabelsOf, Targets, Stamps
  <2>3. SoFarStaged' /\ SoFarCleaned'
    BY <1>3, <1>5 DEF SoFarStaged, SoFarCleaned, Goto, Say
  <2> QED BY <1>1, <1>2, <1>3, <1>5, <2>1, <2>2, <2>3, GoesOn DEF Goto, Labels
<1> QED BY <1>4, <1>5 DEF clean_all_work

\* clean_all_kernel keeps BuildInv.
LEMMA clean_all_kernel_Inv == ASSUME BuildInv, clean_all_kernel PROVE BuildInv'
<1>1. pc # "idle" /\ ToMake /\ Current = "clean-all"
  BY PlaceByLabel DEF BuildInv, clean_all_kernel
<1>2. cmd # "all"
  BY <1>1, NotAll
<1>3. FileTypes'
  BY DEF clean_all_kernel, BuildInv, TypeOK, FileTypes, None
<1>4. StampedPartsStaged' /\ StageThere'
  BY SameFiles DEF clean_all_kernel
<1>5. Built("deep clean done") /\ SoFarMade' /\ BuildComplete'
  BY <1>2 DEF clean_all_kernel, Built, SoFarMade, BuildComplete
<1> QED BY <1>1, <1>3, <1>4, <1>5, Makes DEF Lines

-----------------------------------------------------------------------------
(* The theorems.                                                           *)

\* BuildInv holds initially.
LEMMA Init_Inv == ASSUME Init PROVE BuildInv
<1>1. FileTypes
  BY DEF Init, FileTypes, None
<1>2. MakeTypes
  <2>1. at \in Nat /\ at <= Len(Recipe(cmd)) + 1
    BY RecipeLength DEF Init
  <2>2. flaky \in BOOLEAN /\ makes \in Nat
    BY BuildAssumption DEF Init
  <2> QED BY <2>1, <2>2 DEF Init, MakeTypes, Labels, Lines
<1>3. Place /\ SoFarStaged /\ SoFarCleaned /\ SoFarMade /\ Reported
  BY DEF Init, Place, LabelsOf, Targets, Stamps, SoFarStaged, StageThere, SoFarCleaned,
         SoFarMade, Reported
<1>4. StampedPartsStaged /\ BuildComplete
  BY DEF Init, StampedPartsStaged, BuildComplete
<1> QED BY <1>1, <1>2, <1>3, <1>4 DEF BuildInv, TypeOK

\* Every step keeps BuildInv.
LEMMA Next_Inv == ASSUME BuildInv, [Next]_vars PROVE BuildInv'
<1>1. CASE UNCHANGED vars
  <2>1. MakeTypes' /\ FileTypes'
    BY <1>1 DEF vars, BuildInv, TypeOK, MakeTypes, FileTypes
  <2> QED BY <1>1, <2>1, Aside DEF vars
<1>2. CASE kernel_phase
  BY <1>2, kernel_Inv, kernel_fetch_Inv, kernel_conf_Inv, kernel_tools_Inv, kernel_build_Inv,
     kernel_copy_Inv DEF kernel_phase
<1>3. CASE userland \/ packages \/ desktop \/ rootfs
  BY <1>3, phase_Inv DEF userland, packages, desktop, rootfs, Stamps
<1>4. CASE userland_phase
  BY <1>3, <1>4, userland_fetch_Inv, userland_build_Inv, userland_copy_Inv DEF userland_phase
<1>5. CASE packages_phase
  BY <1>3, <1>5, packages_scripts_Inv, packages_rclocal_Inv, packages_configs_Inv
     DEF packages_phase
<1>6. CASE desktop_phase
  BY <1>3, <1>6, desktop_rcconf_Inv, desktop_install_Inv DEF desktop_phase
<1>7. CASE rootfs_phase
  BY <1>3, <1>7, rootfs_assemble_Inv DEF rootfs_phase
<1>8. CASE clean
  BY <1>8, clean_stamps_Inv, clean_staging_Inv, clean_images_Inv, clean_all_work_Inv,
     clean_all_kernel_Inv DEF clean
<1>9. CASE make_ends \/ report \/ touch_stamp \/ make_image
  BY <1>9, make_ends_Inv, report_Inv, touch_stamp_Inv, make_image_Inv
<1>10. CASE make \/ edit_conf \/ Kill \/ settle
  BY <1>10, make_Inv, edit_conf_Inv, Kill_Inv, settle_Inv
<1> QED BY <1>1, <1>2, <1>4, <1>5, <1>6, <1>7, <1>8, <1>9, <1>10 DEF Next, Step

\* BuildInv holds whatever targets the operator makes, in any order and any
\* number of times, and however they fail or are killed (Makefile and 01-05).
THEOREM BuildInvariant == Spec => []BuildInv
BY Init_Inv, Next_Inv, PTL DEF Spec

\* The types.
THEOREM BuildTyping == Spec => []TypeOK
<1>1. BuildInv => TypeOK
  BY DEF BuildInv
<1> QED BY <1>1, BuildInvariant, PTL

\* A stamped phase has its parts in the staging directory.
THEOREM StampsKeepTheirPromise == Spec => []StampedPartsStaged
<1>1. BuildInv => StampedPartsStaged
  BY DEF BuildInv
<1> QED BY <1>1, BuildInvariant, PTL

\* "Star-Talk build complete!" is said of a complete build.
THEOREM CompleteIsComplete == Spec => []BuildComplete
<1>1. BuildInv => BuildComplete
  BY DEF BuildInv
<1> QED BY <1>1, BuildInvariant, PTL

-----------------------------------------------------------------------------
(* The first-boot hook, when only make all is used.                        *)

\* make all is past the userland phase when it makes the packages.
LEMMA UserlandFirst ==
  ASSUME BuildInv, cmd = "all", pc # "idle", ToMake, Current = "packages"
  PROVE  Stamped("userland")
<1>1. at = 3
  BY PlaceInAll DEF BuildInv, TypeOK, Place
<1>2. Made(Recipe("all")[2])
  BY <1>1 DEF BuildInv, SoFarMade
<1> QED BY <1>2, RecipeOfAll DEF Made, Stamps

\* With make all only, every step keeps the hook's invariant.
LEMMA Hook_Next ==
  ASSUME Commands = {"all"}, BuildInv, HookInv, [Next]_vars
  PROVE  HookInv'
<1>0. pc # "idle" => cmd = "all"
  BY DEF BuildInv, Place, HookInv
<1>a. hooks \in Nat
  BY DEF BuildInv, TypeOK, FileTypes
\* Steps that change neither the hook nor a stamp.
<1>b. ASSUME UNCHANGED <<hooks, stamps>>, cmd' \in {"all", "none"},
             pc' \notin {"p_configs", "touch"} \/ (pc' = "touch" /\ Current' # "packages")
      PROVE  HookInv'
  BY <1>b DEF HookInv, Stamped
<1>1. CASE UNCHANGED vars
  BY <1>1 DEF vars, HookInv, Stamped, Current
<1>2. CASE make
  <2>1. UNCHANGED <<hooks, stamps>> /\ cmd' = "all" /\ pc' = "make"
    BY <1>2 DEF make
  <2> QED BY <2>1, <1>b
<1>3. CASE edit_conf \/ settle
  BY <1>3 DEF edit_conf, settle, HookInv, Stamped, Current
<1>4. CASE make_ends \/ report \/ Kill \/ make_image \/ kernel_phase \/ userland_fetch
           \/ userland_build \/ packages_scripts \/ desktop_rcconf
  <2>1. /\ UNCHANGED <<hooks, stamps>> /\ cmd' \in {cmd, "none"}
        /\ pc' \notin {"p_configs", "touch"}
    BY <1>4 DEF make_ends, report, Kill, make_image, kernel_phase, kernel, kernel_fetch,
         kernel_conf, kernel_tools, kernel_build, kernel_copy, fetch_netbsd_src, userland_fetch,
         userland_build, packages_scripts, desktop_rcconf, BreaksOff, Fail, Stop, Idle, Built,
         Goto, Say
  <2> QED BY <2>1, <1>b DEF HookInv
<1>5. CASE userland \/ packages \/ desktop \/ rootfs
  <2>1. /\ UNCHANGED <<hooks, stamps>> /\ cmd' \in {cmd, "none"}
        /\ pc' \notin {"p_configs", "touch"}
    BY <1>5 DEF userland, packages, desktop, rootfs, phase, Built, Goto, Say
  <2> QED BY <2>1, <1>b DEF HookInv
<1>6. CASE userland_copy
  <2>1. "userland" \notin stamps /\ "packages" \notin stamps /\ Current = "userland"
    BY <1>6, PlaceByLabel DEF BuildInv, userland_copy, HookInv, Stamped
  <2>2. stamps' = stamps /\ pc' = "touch" /\ cmd' = cmd /\ Current' = Current
    BY <1>6 DEF userland_copy, Goto, Say, Current
  <2> QED BY <2>1, <2>2 DEF HookInv, Stamped
<1>7. CASE packages_rclocal
  <2>1. "packages" \notin stamps /\ stamps' = stamps /\ pc' # "touch" /\ cmd' \in {cmd, "none"}
    BY <1>7, PlaceByLabel DEF BuildInv, packages_rclocal, Goto, Say, Fail, Stop, Idle
  <2>2. pc' = "p_configs" => hooks' = hooks + 1
    BY <1>7 DEF packages_rclocal, Fail, Stop, Idle
  <2>3. pc' = "p_configs" => hooks' > 0
    BY <1>a, <2>2
  <2> QED BY <2>1, <2>3 DEF HookInv, Stamped
<1>8. CASE packages_configs
  <2>1. pc = "p_configs" /\ ToMake /\ Current = "packages" /\ hooks > 0 /\ hooks' = hooks
    BY <1>8, PlaceByLabel DEF BuildInv, HookInv, packages_configs
  <2>2. Stamped("userland")
    BY <1>0, <2>1, UserlandFirst
  <2>3. "userland" \in stamps' /\ pc' # "p_configs" /\ cmd' \in {cmd, "none"}
    BY <1>8, <2>2 DEF packages_configs, Goto, Say, Fail, Stop, Idle, Stamped
  <2> QED BY <2>1, <2>3 DEF HookInv, Stamped
<1>9. CASE desktop_install \/ rootfs_assemble
  <2>1. /\ UNCHANGED <<hooks, stamps>> /\ cmd' \in {cmd, "none"}
        /\ pc' \in {"idle", "touch"}
    BY <1>9 DEF desktop_install, rootfs_assemble, BreaksOff, Fail, Stop, Idle, Goto, Say
  <2>2. Current \in {"desktop", "rootfs"}
    BY <1>9, PlaceByLabel DEF BuildInv, desktop_install, rootfs_assemble
  <2>3. pc' = "touch" => Current' = Current
    BY <1>9 DEF desktop_install, rootfs_assemble, BreaksOff, Fail, Stop, Idle, Goto, Say, Current
  <2> QED BY <2>1, <2>2, <2>3, <1>b DEF HookInv
<1>10. CASE touch_stamp
  <2>1. pc = "touch" /\ ToMake /\ Current \in Stamps /\ hooks' = hooks /\ cmd' \in {cmd, "none"}
        /\ pc' \in {"idle", "make"} /\ stamps \subseteq stamps'
        /\ stamps' \subseteq stamps \cup {Current}
    BY <1>10, PlaceByLabel DEF BuildInv, touch_stamp, Built, Fail, Stop, Idle
  <2>2. "packages" \in stamps' => hooks > 0 /\ "userland" \in stamps
    <3>1. CASE Current = "packages"
      BY <1>0, <2>1, <3>1, UserlandFirst DEF HookInv, Stamped
    <3>2. CASE Current # "packages"
      BY <2>1, <3>2 DEF HookInv, Stamped
    <3> QED BY <3>1, <3>2
  <2> QED BY <2>1, <2>2 DEF HookInv, Stamped
<1>11. CASE clean
  <2>1. pc # "idle" /\ ToMake /\ Current \in {"clean", "clean-all"}
    BY <1>11, PlaceByLabel DEF BuildInv, clean, clean_stamps, clean_staging, clean_images,
                               clean_all_work, clean_all_kernel, Target
  <2> QED BY <1>0, <2>1, NotAll
<1> QED BY <1>1, <1>2, <1>3, <1>4, <1>5, <1>6, <1>7, <1>8, <1>9, <1>10, <1>11
        DEF Next, Step, userland_phase, packages_phase, desktop_phase, rootfs_phase

\* An operator who only runs make all, however often it fails or is killed,
\* has the first-boot hook in the staged rc.local once the packages phase is
\* stamped (Makefile, all; 02-userland.sh, cp -r; 03-packages.sh, rc.local).
THEOREM MakeAllKeepsHook ==
  ASSUME Commands = {"all"}
  PROVE  Spec => []HookStaged
<1>1. Init => HookInv
  BY DEF Init, HookInv, Stamped
<1>2. BuildInv /\ HookInv /\ [Next]_vars => HookInv'
  BY Hook_Next
<1>3. HookInv => HookStaged
  BY DEF HookInv, HookStaged, Stamped
<1> QED BY <1>1, <1>2, <1>3, BuildInvariant, PTL DEF Spec

=============================================================================
