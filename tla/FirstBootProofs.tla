--------------------------- MODULE FirstBootProofs ---------------------------
(***************************************************************************)
(* Proofs about FirstBoot, for any number of packages, lines in rc.local,  *)
(* boots, failures and power cuts.                                         *)
(***************************************************************************)
EXTENDS FirstBoot, TLAPS

USE FirstBootAssumption DEF At, Goto, Return, Fail, runVars, given, diskVars, vars, All

\* FirstBootInv holds initially.
LEMMA Init_Inv == ASSUME Init PROVE FirstBootInv
<1>1. TypeOK
  <2>1. hook \in 1 .. Hooks + 1 /\ next \in 1 .. Packages + 1 /\ boots \in Nat /\ runs \in 0 .. 2
    BY DEF Init
  <2>2. /\ flaky \in BOOLEAN /\ tree \in BOOLEAN /\ done \in BOOLEAN
        /\ dirs \subseteq 0 .. Packages /\ refuses \in BOOLEAN /\ skipped \subseteq All
    BY DEF Init
  <2>3. pc \in Labels /\ bmake \in {"none", "partial", "full"} /\ pkgs \subseteq All /\ sddm \in Nat
    BY DEF Init, Labels
  <2> QED BY <2>1, <2>2, <2>3 DEF TypeOK
<1>2. Progress /\ InstalledInOrder /\ SddmHasDesktop /\ DoneIsComplete
  BY DEF Init, Progress, InstalledInOrder, SddmHasDesktop, DoneIsComplete
<1> QED BY <1>1, <1>2 DEF FirstBootInv

\* boot keeps FirstBootInv.
LEMMA boot_Inv == ASSUME FirstBootInv, boot PROVE FirstBootInv'
<1>1. TypeOK'
  <2>1. hook' \in 1 .. Hooks + 1 /\ next' \in 1 .. Packages + 1 /\ boots' \in Nat /\ runs' \in 0 .. 2
    BY DEF boot, FirstBootInv, TypeOK, Progress
  <2> QED BY <2>1 DEF boot, FirstBootInv, TypeOK, Labels
<1>2. Progress'
  BY DEF boot, FirstBootInv, TypeOK, Progress
<1>3. InstalledInOrder' /\ SddmHasDesktop' /\ DoneIsComplete'
  BY DEF boot, FirstBootInv, TypeOK, Progress, InstalledInOrder, SddmHasDesktop, DoneIsComplete
<1> QED BY <1>1, <1>2, <1>3 DEF FirstBootInv

\* rc_local keeps FirstBootInv.
LEMMA rc_local_Inv == ASSUME FirstBootInv, rc_local PROVE FirstBootInv'
<1>1. TypeOK'
  <2>1. hook' \in 1 .. Hooks + 1 /\ next' \in 1 .. Packages + 1 /\ boots' \in Nat /\ runs' \in 0 .. 2
    BY DEF rc_local, FirstBootInv, TypeOK, Progress
  <2> QED BY <2>1 DEF rc_local, FirstBootInv, TypeOK, Labels
<1>2. Progress'
  BY DEF rc_local, FirstBootInv, TypeOK, Progress
<1>3. InstalledInOrder' /\ SddmHasDesktop' /\ DoneIsComplete'
  BY DEF rc_local, FirstBootInv, TypeOK, Progress, InstalledInOrder, SddmHasDesktop, DoneIsComplete
<1> QED BY <1>1, <1>2, <1>3 DEF FirstBootInv

\* check_pkgsrc keeps FirstBootInv.
LEMMA check_pkgsrc_Inv == ASSUME FirstBootInv, check_pkgsrc PROVE FirstBootInv'
<1>1. TypeOK'
  <2>1. hook' \in 1 .. Hooks + 1 /\ next' \in 1 .. Packages + 1 /\ boots' \in Nat /\ runs' \in 0 .. 2
    BY DEF check_pkgsrc, FirstBootInv, TypeOK, Progress
  <2> QED BY <2>1 DEF check_pkgsrc, FirstBootInv, TypeOK, Labels
<1>2. Progress'
  BY DEF check_pkgsrc, FirstBootInv, TypeOK, Progress
<1>3. InstalledInOrder' /\ SddmHasDesktop' /\ DoneIsComplete'
  BY DEF check_pkgsrc, FirstBootInv, TypeOK, Progress, InstalledInOrder, SddmHasDesktop, DoneIsComplete
<1> QED BY <1>1, <1>2, <1>3 DEF FirstBootInv

\* bootstrap keeps FirstBootInv.
LEMMA bootstrap_Inv == ASSUME FirstBootInv, bootstrap PROVE FirstBootInv'
<1>1. TypeOK'
  <2>1. hook' \in 1 .. Hooks + 1 /\ next' \in 1 .. Packages + 1 /\ boots' \in Nat /\ runs' \in 0 .. 2
    BY DEF bootstrap, Install, FirstBootInv, TypeOK, Progress
  <2> QED BY <2>1 DEF bootstrap, Install, FirstBootInv, TypeOK, Labels
<1>2. Progress'
  BY DEF bootstrap, Install, FirstBootInv, TypeOK, Progress
<1>3. InstalledInOrder' /\ SddmHasDesktop' /\ DoneIsComplete'
  BY DEF bootstrap, Install, FirstBootInv, TypeOK, Progress, InstalledInOrder, SddmHasDesktop, DoneIsComplete
<1> QED BY <1>1, <1>2, <1>3 DEF FirstBootInv

\* enable_sddm keeps FirstBootInv.
LEMMA enable_sddm_Inv == ASSUME FirstBootInv, enable_sddm PROVE FirstBootInv'
<1>1. TypeOK'
  <2>1. hook' \in 1 .. Hooks + 1 /\ next' \in 1 .. Packages + 1 /\ boots' \in Nat /\ runs' \in 0 .. 2
    BY DEF enable_sddm, FirstBootInv, TypeOK, Progress
  <2> QED BY <2>1 DEF enable_sddm, FirstBootInv, TypeOK, Labels
<1>2. Progress'
  BY DEF enable_sddm, FirstBootInv, TypeOK, Progress
<1>3. InstalledInOrder' /\ SddmHasDesktop' /\ DoneIsComplete'
  BY DEF enable_sddm, FirstBootInv, TypeOK, Progress, InstalledInOrder, SddmHasDesktop, DoneIsComplete
<1> QED BY <1>1, <1>2, <1>3 DEF FirstBootInv

\* mark_done keeps FirstBootInv.
LEMMA mark_done_Inv == ASSUME FirstBootInv, mark_done PROVE FirstBootInv'
<1>1. TypeOK'
  <2>1. hook' \in 1 .. Hooks + 1 /\ next' \in 1 .. Packages + 1 /\ boots' \in Nat /\ runs' \in 0 .. 2
    BY DEF mark_done, FirstBootInv, TypeOK, Progress
  <2> QED BY <2>1 DEF mark_done, FirstBootInv, TypeOK, Labels
<1>2. Progress'
  BY DEF mark_done, FirstBootInv, TypeOK, Progress
<1>3. InstalledInOrder' /\ SddmHasDesktop' /\ DoneIsComplete'
  BY DEF mark_done, FirstBootInv, TypeOK, Progress, InstalledInOrder, SddmHasDesktop, DoneIsComplete
<1> QED BY <1>1, <1>2, <1>3 DEF FirstBootInv

\* start_sddm keeps FirstBootInv.
LEMMA start_sddm_Inv == ASSUME FirstBootInv, start_sddm PROVE FirstBootInv'
<1>1. TypeOK'
  <2>1. hook' \in 1 .. Hooks + 1 /\ next' \in 1 .. Packages + 1 /\ boots' \in Nat /\ runs' \in 0 .. 2
    BY DEF start_sddm, FirstBootInv, TypeOK, Progress
  <2> QED BY <2>1 DEF start_sddm, FirstBootInv, TypeOK, Labels
<1>2. Progress'
  BY DEF start_sddm, FirstBootInv, TypeOK, Progress
<1>3. InstalledInOrder' /\ SddmHasDesktop' /\ DoneIsComplete'
  BY DEF start_sddm, FirstBootInv, TypeOK, Progress, InstalledInOrder, SddmHasDesktop, DoneIsComplete
<1> QED BY <1>1, <1>2, <1>3 DEF FirstBootInv

\* clone_pkgsrc keeps FirstBootInv.
LEMMA clone_pkgsrc_Inv == ASSUME FirstBootInv, clone_pkgsrc PROVE FirstBootInv'
<1>1. TypeOK'
  BY DEF clone_pkgsrc, FirstBootInv, TypeOK, Labels
<1>2. Progress'
  BY DEF clone_pkgsrc, FirstBootInv, TypeOK, Progress
<1>3. InstalledInOrder' /\ SddmHasDesktop' /\ DoneIsComplete'
  BY DEF clone_pkgsrc, FirstBootInv, TypeOK, Progress, InstalledInOrder, SddmHasDesktop, DoneIsComplete
<1> QED BY <1>1, <1>2, <1>3 DEF FirstBootInv

\* shutdown keeps FirstBootInv.
LEMMA shutdown_Inv == ASSUME FirstBootInv, shutdown PROVE FirstBootInv'
<1>1. TypeOK'
  BY DEF shutdown, FirstBootInv, TypeOK, Labels
<1>2. Progress'
  BY DEF shutdown, FirstBootInv, TypeOK, Progress
<1>3. InstalledInOrder' /\ SddmHasDesktop' /\ DoneIsComplete'
  BY DEF shutdown, FirstBootInv, TypeOK, Progress, InstalledInOrder, SddmHasDesktop, DoneIsComplete
<1> QED BY <1>1, <1>2, <1>3 DEF FirstBootInv

\* crash keeps FirstBootInv.
LEMMA crash_Inv == ASSUME FirstBootInv, crash PROVE FirstBootInv'
<1>1. TypeOK'
  BY DEF crash, FirstBootInv, TypeOK, Labels
<1>2. Progress'
  BY DEF crash, FirstBootInv, TypeOK, Progress
<1>3. InstalledInOrder' /\ SddmHasDesktop' /\ DoneIsComplete'
  BY DEF crash, FirstBootInv, TypeOK, Progress, InstalledInOrder, SddmHasDesktop, DoneIsComplete
<1> QED BY <1>1, <1>2, <1>3 DEF FirstBootInv

\* settle keeps FirstBootInv.
LEMMA settle_Inv == ASSUME FirstBootInv, settle PROVE FirstBootInv'
<1>1. TypeOK'
  BY DEF settle, FirstBootInv, TypeOK, Labels
<1>2. Progress'
  BY DEF settle, FirstBootInv, TypeOK, Progress
<1>3. InstalledInOrder' /\ SddmHasDesktop' /\ DoneIsComplete'
  BY DEF settle, FirstBootInv, TypeOK, Progress, InstalledInOrder, SddmHasDesktop, DoneIsComplete
<1> QED BY <1>1, <1>2, <1>3 DEF FirstBootInv

\* install keeps FirstBootInv: the packages installed or passed over stay a
\* beginning of the list, and the script gets past it only with all of it seen to.
LEMMA install_Inv == ASSUME FirstBootInv, install PROVE FirstBootInv'
<1> DEFINE Seen == pkgs \cup skipped
<1>1. /\ next \in Nat /\ next >= 1 /\ next <= Packages /\ hook \in Nat /\ hook >= 1 /\ hook <= Hooks
      /\ pkgs \subseteq 1 .. Packages /\ skipped \subseteq 1 .. Packages /\ 1 .. next - 1 \subseteq Seen
  BY DEF install, FirstBootInv, TypeOK, Progress
<1>2. /\ pkgs' \in {pkgs, pkgs \cup {next}} /\ skipped' \subseteq skipped \cup {next}
      /\ Seen \subseteq Seen'
  BY DEF install
<1>3. pkgs' \subseteq 1 .. Packages /\ skipped' \subseteq 1 .. Packages
  BY <1>1, <1>2
<1>4. ~done /\ ~done' /\ tree /\ UNCHANGED <<given, tree, bmake, sddm, boots, flaky, runs>>
  BY DEF install, Install, FirstBootInv, Progress
<1>5. \A i \in pkgs : 1 .. i - 1 \subseteq Seen
  BY DEF FirstBootInv, InstalledInOrder
<1>6. InstalledInOrder'
  BY <1>1, <1>2, <1>5 DEF InstalledInOrder
<1>7. SddmHasDesktop' /\ DoneIsComplete'
  BY <1>2, <1>3, <1>4 DEF FirstBootInv, SddmHasDesktop, DoneIsComplete
<1>8. /\ boots' \in Nat /\ runs' \in 0 .. 2 /\ sddm' \in Nat /\ pkgs' \subseteq All
      /\ dirs' \subseteq 0 .. Packages /\ skipped' \subseteq All
  BY <1>3, <1>4 DEF FirstBootInv, TypeOK
<1>9. /\ flaky' \in BOOLEAN /\ tree' \in BOOLEAN /\ done' \in BOOLEAN /\ refuses' \in BOOLEAN
      /\ bmake' \in {"none", "partial", "full"}
  BY DEF install, Install, FirstBootInv, TypeOK
<1>10. pkgs' # {} => bmake' = "full"
  BY DEF install, FirstBootInv, Progress
<1>11. CASE next \in Seen' /\ Install(next + 1)
  <2>1. next' = next + 1 /\ hook' = hook
    BY <1>11 DEF Install
  <2>2. next' \in 1 .. Packages + 1 /\ hook' \in 1 .. Hooks + 1 /\ hook' <= Hooks
    BY <1>1, <2>1
  <2>3. TypeOK'
    <3>1. pc' \in Labels
      BY <1>11 DEF Install, Labels
    <3> QED BY <1>8, <1>9, <2>2, <3>1 DEF TypeOK
  <2>4. 1 .. next' - 1 \subseteq Seen'
    BY <1>1, <1>2, <1>11, <2>1
  <2>5. CASE next + 1 <= Packages
    <3>1. pc' = "install" /\ next' <= Packages /\ bmake' # "none"
      BY <1>4, <1>11, <2>1, <2>5 DEF Install, install, FirstBootInv, Progress
    <3> QED BY <1>4, <1>6, <1>7, <1>10, <2>2, <2>3, <2>4, <3>1 DEF FirstBootInv, Progress
  <2>6. CASE ~(next + 1 <= Packages)
    <3>1. 1 .. Packages \subseteq Seen'
      <4>1. next' - 1 = Packages
        BY <1>1, <2>1, <2>6
      <4> QED BY <2>4, <4>1
    <3>2. pc' = "enable"
      BY <1>11, <2>6 DEF Install
    <3> QED BY <1>4, <1>6, <1>7, <1>10, <2>2, <2>3, <3>1, <3>2 DEF FirstBootInv, Progress
  <2> QED BY <2>5, <2>6
<1>12. CASE pc' = "rc" /\ hook' = hook + 1 /\ next' = next
  <2>1. next' \in 1 .. Packages + 1 /\ hook' \in 1 .. Hooks + 1
    BY <1>1, <1>12
  <2>2. TypeOK'
    <3>1. pc' \in Labels
      BY <1>12 DEF Labels
    <3> QED BY <1>8, <1>9, <2>1, <3>1 DEF TypeOK
  <2>3. Progress'
    BY <1>4, <1>10, <1>12 DEF Progress
  <2> QED BY <1>6, <1>7, <2>2, <2>3 DEF FirstBootInv
<1> QED BY <1>11, <1>12 DEF install

\* Every step keeps FirstBootInv.
LEMMA Next_Inv == ASSUME FirstBootInv, [Next]_vars PROVE FirstBootInv'
<1>1. CASE UNCHANGED vars
  BY <1>1 DEF FirstBootInv, TypeOK, Progress, InstalledInOrder, SddmHasDesktop, DoneIsComplete
<1>2. CASE Step
  BY <1>2, rc_local_Inv, check_pkgsrc_Inv, bootstrap_Inv, install_Inv, enable_sddm_Inv,
     mark_done_Inv, start_sddm_Inv DEF Step
<1>3. CASE boot \/ clone_pkgsrc \/ shutdown \/ crash \/ settle
  BY <1>3, boot_Inv, clone_pkgsrc_Inv, shutdown_Inv, crash_Inv, settle_Inv
<1> QED BY <1>1, <1>2, <1>3 DEF Next

-----------------------------------------------------------------------------
\* FirstBootInv holds over any number of boots, failures and power cuts.
THEOREM FirstBootInvariant == Spec => []FirstBootInv
BY Init_Inv, Next_Inv, PTL DEF Spec

\* The types.
THEOREM FirstBootTyping == Spec => []TypeOK
<1>1. FirstBootInv => TypeOK
  BY DEF FirstBootInv
<1> QED BY <1>1, FirstBootInvariant, PTL

\* The script retires only from a system complete but for what a cd passed over.
THEOREM DoneComplete == Spec => []DoneIsComplete
<1>1. FirstBootInv => DoneIsComplete
  BY DEF FirstBootInv
<1> QED BY <1>1, FirstBootInvariant, PTL

\* sddm is enabled only with the whole desktop there, but for the same packages.
THEOREM SddmComplete == Spec => []SddmHasDesktop
<1>1. FirstBootInv => SddmHasDesktop
  BY DEF FirstBootInv
<1> QED BY <1>1, FirstBootInvariant, PTL

\* No package is passed over because it failed: only by its cd.
THEOREM InOrder == Spec => []InstalledInOrder
<1>1. FirstBootInv => InstalledInOrder
  BY DEF FirstBootInv
<1> QED BY <1>1, FirstBootInvariant, PTL

\* A setup that is done stays as it is: rc.local does not start it again, and
\* the script itself has nothing left to change.
THEOREM DoneFinal == Spec => DoneIsFinal
<1>1. FirstBootInv /\ [Next]_vars => [done => UNCHANGED diskVars /\ runs' = runs]_vars
  <2>1. SUFFICES ASSUME FirstBootInv, Next, done
                 PROVE  UNCHANGED diskVars /\ runs' = runs
    OBVIOUS
  <2>2. pc \notin {"check", "bootstrap", "install", "enable", "mark"}
    BY <2>1 DEF FirstBootInv, Progress
  <2>3. CASE clone_pkgsrc
    BY <2>1, <2>3 DEF clone_pkgsrc, FirstBootInv, Progress
  <2> QED BY <2>1, <2>2, <2>3 DEF Next, Step, boot, rc_local, check_pkgsrc, bootstrap, install,
          enable_sddm, mark_done, start_sddm, shutdown, crash, settle
<1> QED BY <1>1, FirstBootInvariant, PTL DEF Spec, DoneIsFinal

=============================================================================
