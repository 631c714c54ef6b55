# Star-Talk: a verification project in TLA+

Star-Talk is a NetBSD based desktop system: scripts that build a kernel, a
userland and a disk image, configuration that goes onto the image, a setup
that runs when the image first boots, and an installer that puts the running
system onto a hard disk. That code is shell, under `set -e`, and nearly all of
it is about side effects that outlive a run: files, mounts, loop devices,
partition tables. What is hard about it is not computation but what is left
behind when a command fails, a script is killed or the machine loses power,
and what the next run makes of it.

The repository also holds BusyBox 1.37.0, from the time when Star-Talk was a
Linux system. Most of it is sequential text processing. The parts modelled
here are the ones in which processes meet: the supervisors `runsv` and
`runsvdir`, the shared log buffer of `syslogd` and `logread`, and the DHCP
server and client `udhcpd` and `udhcpc`.

## Inventory

| Component | State | Operations | Modelled by |
|---|---|---|---|
| Hard disk installer, `configs/netbsd/install/install.sh` | disks, partition tables, mounts, terminal echo | select, partition, format, copy, boot loader, finalize | `Installer` |
| Build driver, `Makefile` | stamps `work/.*-done`, `out/netbsd` | all, one target per phase, clean, clean-all | `Build` |
| `burn`, `test-qemu` of the Makefile, `07-test-qemu.sh` | the target device | write the newest image, start QEMU | `MakeImage` |
| Build library, `utils-netbsd.sh` | the source tree | `fetch_netbsd_src`; `fetch_pkgsrc` has no caller | `Build` |
| Phases `01` to `05` | object, tool and destination directories, `work/rootfs-staging` | build, copy, stage, append to `rc.local` | `Build` |
| Disk image, `06-make-image.sh` | image files, loop devices, mounts, three names in `/tmp` | partition, ESP, root, cleanup trap | `MakeImage`, one step of `Build` |
| First-boot setup, written by `03-packages.sh` | pkgsrc, packages, `rc.conf`, the script itself | bootstrap, install, enable sddm, retire | `FirstBoot` |
| VSCode and I2PD install scripts (same script) | files in `/opt`, `/usr/pkg` | download, build, copy | not yet |
| Services `rc.d/tor`, `rc.d/i2pd` | run directories | variables for `rc.subr` | not yet |
| Boot splash, branding, OpenCode placeholder | none | console output | no |
| `rc.conf`, `boot.cfg`, `ttys`, `wscons.conf`, `SWIMSTAR`, SDDM and Plasma settings | none | read by NetBSD and KDE programs | no |
| `out/qemu.sh`, `out/net.sh`, `initramfs/init`, `src/tarballs/merge-kernel.sh` | none | single command lines, a notice | no |
| BusyBox `runit/runsv.c` | two slots (service, log), status files, log pipe, pending signals | start, stop, reap, nine commands, exit | `Runsv`, abstractly `Service` |
| BusyBox `runit/runsvdir.c` | table of services, last mtime, pending signal | collect, rescan, spawn, signal, script | `Runsvdir` |
| BusyBox `sysklogd/syslogd.c` (circular log), `logread.c` | ring buffer and tail in shared memory, two semaphores | lock, store, search, copy, follow | `Syslog` |
| BusyBox `networking/udhcp/dhcpd.c` | lease table and lease file | six message types, save, restart | `Leases`, `Dhcp` |
| BusyBox `networking/udhcp/dhcpc.c` | state, timeout, xid, address, socket | timeouts, three signals, three answers | `Dhcp` |
| the rest of `src/busybox-1.37.0`, `src/tarballs` | | applets without processes that meet; archives | no |

How they interact. The Makefile runs the phase scripts one after the other;
they share the directories under `work/` and `out/` and decide by stamp files
what to skip. Phases 02 to 05 write to one staging directory, in which 02
overwrites files of 03 and 04. 06 copies staging and userland to the image.
The image runs the first-boot script through the lines 03 appended to
`rc.local`, and holds `install.sh`, which copies the running system to a disk.

What is hard in them, and what makes each correct:

* **Installer.** It destroys a disk, writes through fixed mount points, has no
  trap and ignores the failure of some commands and not of others. It must
  write only to the disk that was confirmed, never onto the live system, and
  say "Installation Complete!" only of a disk that has what its fstab names.
* **Build.** Interrupted and partly cleaned trees, pipelines into `tail` that
  hide a failure, appends that are repeated, targets without prerequisites. A
  stamp must stand for what it says, "build complete" for a complete build,
  and a tree must not get stuck.
* **Image.** An EXIT trap that a killed shell does not run, a cleanup that
  ignores its failures and then removes recursively, fixed names in `/tmp`, a
  file name with the date in it. An announced image must be whole, runs must
  not touch each other's images, and `burn` must write an announced one.
* **First boot.** Hours of installation, started again from the top at every
  boot until it is through. It must retire only when all is there, stay
  retired, and get through in the end.

* **runsv** and **runsvdir.** Process numbers that are reused, deaths that
  share one SIGCHLD, commands in an order nobody meant, a directory that
  changes in the second of its last change. No signal may go to a process that
  is not a child, no process may be forgotten while it runs, and what is wanted
  must run again.
* **The log buffer.** A reader that looks at the tail before it has the lock,
  messages that go around the end, processes killed inside the lock. What is
  printed must be whole messages, and nobody may wait for ever.
* **DHCP.** Two sides that each keep half of a promise, over a network that
  loses packets, with a server that forgets what a crash kept out of its file.
  An address must have one user.

`PROJECT.json` lists the hazards line by line, with the property for each.

## Modules

`Installer`, `Build`, `FirstBoot` and `MakeImage` specify the scripts,
`Runsv`, `Runsvdir`, `Syslog` and `Dhcp` (which extends `Leases`) the daemons;
`Service` is the abstract supervisor that `Runsv` implements; `MC*` are the
instances for TLC and `*Proofs` the theorems. In the scripts `pc` names
the command that runs next, one action is one command or a group of commands
of which no proper part matters, and `Goto`, `Fail`, `Die`, `Exit`, `Stop` are
the ways a shell goes on from it. Definitions have the names of the functions,
targets and variables they model where TLA+ allows it. A definition `x_y`
under a comment "Mutant" is not part of a specification: it is `x` with a
plausible mistake, and there to show that a property would notice it.

**Installer.** One action per command of `install.sh` that changes something.
Disks are model values with a table, a sequence of partitions and free space;
a file system is the set of things copied into it; each of the two mount
points is a stack, since a second mount covers the first. A write below a
mount point goes to the top of its stack, or to the live system when the stack
is empty. `Kill` ends a run anywhere, `Reboot` clears the mounts, `main` starts
another run. `gpt(8)` is external: `CanAdd`, `AddPartition`, `AddRest`.

**Build.** `cmd` and `at` say which target of which command is being made.
Everything else is the tree: `src`, `tools`, `objk`, `kern`, `dest`, `stage`,
`staged` (the parts Star-Talk itself puts there), `hooks` (how often `rc.local`
runs the setup), `stamps`, `image`. Kernels are the version of the
configuration they were built from. `tools` is `"partial"` when `nbmake`, the
only thing `01-kernel.sh:31` tests for, is there and the rest is not; `braces`
says whether the host's `/bin/sh` expands braces. `flaky` says that tools may fail and make
may be killed; `settle` ends that for good. `fetch_netbsd_src` is an operator
with its caller's next label; inside it errexit is off, as it is in
`fetch_netbsd_src || die`.

**FirstBoot.** `rc_local` runs the script while it has not renamed itself,
`Hooks` times per boot. `install` covers the ten `cd ... && bmake install`
lines, by number. A failing `cd` is not the last command of its list, so
`set -e` does not see it and the package is passed over (`skipped`); a failing
`bmake` ends the script. `crash` is a loss of power. Two things are outside the
repository and chosen once for all by `Init`: which directories the tree has
(`dirs`; the script tests for its Makefile only) and whether pkgsrc refuses to
install a package that is installed (`refuses`).

**MakeImage.** Image files are numbered by the run that made them and `img`
says which has a day's name: a file that is deleted while it is on a loop
device is still written to. `mounts` is the stack on `/tmp/st-esp`. `Die` is
errexit, which runs `cleanup` once the trap is set, `Killed` is a shell that
runs nothing more. The contents of a root are pairs of what was copied and the
run that copied it. `Newest`, the file that `ls -t` names first, is the present
run's or any that is still on a loop device: what is written through a leftover
mount reaches the file, and changes its time, later than anything else.

**Runsv.** `pc` is the place in the loop of `runsv_main`; signals are blocked
except in `poll`, so the loop takes them at `PollSignal` only, while `Die` and
`SendTerm` make them pending at any time. `svd` is the array of the same name,
`proc` the kernel's process table with the signals each process was sent, and
`status` what `sv` reads. Each command of `ctrl` is an operator, `StartService`
and `Stopped` are `startservice` and `stopservice`, with the case "should never
happen" as it is. `wstat` says whose exit status `svd[0].wstat` is. A command
appears when it is read: nothing else depends on when it was written.

**Service.** What a supervisor promises of one service: `want`, the processes
that run it and were not told to stop, and whether the supervisor is gone.
`Runsv` implements it under the mapping `want <- svd[0].want`, `inst <-` the
processes of kind `run` that are alive and have neither SIGTERM nor SIGKILL
pending, `gone <- pc = "gone"`. It says what no single handler does: one
undisturbed process at most, none after `down` and `exit`, and none left by a
supervisor that exits. It holds when no control script swallows `t` or `k`
(`Handled = {}`); a script that does is free to leave the service running.

**Runsvdir.** Time is kept as what the code can tell of it: `current` (the
mtime is the one last seen), `changedNow` and `lastNow` (the one or the other is
the current second). A scan visits the entries one by one while they change,
and may break off; of an entry in `mode.shaky` `stat` or, for a new one,
`realloc` may fail, and the scan passes it over (`unread`). `taken` is the local variable `sig`, `sig` is
`bb_got_signal`. The `runsv` processes are reduced to their lock: they get it
at most one at a time, die without, and end some time after SIGTERM. The mark
`Unstarted` is a pid 0 that comes from a failed start.

**Syslog.** What was logged is one stream of bytes, and the buffer is how much
of it was stored: byte `k` is at place `(k - 1) % Size`. `strlen` and `strnlen`
are searches for the next NUL in that buffer. Semaphores are the two counters,
and each `semop` is one atomic step, as it is. The ghost fields `next`, `got`
and `bad` of a reader are read by properties only.

**Leases** has the lease table as a set of records and every function of
`dhcpd.c` on it as an operator; where the code's choice depends on times the
model does not keep apart, the operator returns the set of its results. A
lease is kept with the time that is left, floored at -1, instead of the time
at which it expires. **Dhcp** adds the server's handlers, the client's state
machine and the segment. The server handles a packet as a whole; `CrashInAck`
and `Terminate` are the crashes inside. `Writes` is what `write_leases` can make
of the file: the old one when the open fails, and any part of the table, as no
write is checked; it is so in every write. `RestartUnread` is the restart whose
`read_leases` gives up on a file that is too old, too short or cannot be
opened. Hosts in `Others` send the server any packet at any time and are only
expected not to use an address they declined or released. `granted` records
what they were given, `forgot` whose lease is not in the file as it was given,
or was not read back. The client's scripts are what they do to the interface:
`cfg`. With `-a` a client waits in `arpping` (`PROBING`, which is no state of
the code) for `ProbeTime`, in which its own count of the lease stands still.

## What the runs show

| Run | Instance | Result |
|---|---|---|
| `installer` | two disks, one answer that is no disk, two runs, all faults | `LiveSystemUntouched`, `CompletedRun`, `InstallerInv`, `OtherDisksKept`, `UnmountedInstallKept` hold |
| `installer_loader` | a live system with kernel and loader | `BootloaderInstalled` holds |
| `build` | every target, four makes, two configurations, all faults, fair | `BuildComplete`, `BuildInv`, `MakeAllCompletes` hold |
| `build_all` | only `make all` | `HookStaged` holds |
| `firstboot` | three packages, two hooks, three boots, any directories missing, packages that refuse or not, fair | `FirstBootInv`, `DoneIsFinal`, `SetupCompletes` hold |
| `image` | two runs, two days, two sources, a loader | `MakeImageInv`, `ImageWhole`, `RootOfOneRun`, `BurnedComplete`, `OthersKept` hold |
| `runsv` | service with log and finish, three pids, three commands or SIGTERMs, fair | `RunsvInv`, `LogPipeOutlivesService`, `ImplementsService`, `WantedIsRunning`, `ExitCompletes` hold |
| `runsv_finish_status` | the same, one command | `FinishGetsRunStatus` is violated: the log dies together with `./run`, and `./finish` gets its exit status |
| `runsvdir` | two services, one of which comes and goes, two pids, as process 1 with failing `stat` and `realloc`, and with a script, fair | `RunsvdirInv`, `NothingMissed`, `SupervisedAgain`, `RemovedEnds` hold |
| `syslog` | buffer of 5, messages of 2 and 3 bytes, two readers, three messages, fair | `SyslogInv`, `FirstPassWhole`, `FollowerExact`, `LogWritten`, `LogreadEnds` hold |
| `dhcp` | a client that probes its address and another host, one address, two signals, failing writes, fair | `DhcpInv`, `HeldIsReserved`, `Exclusive`, `LeasesEnd` hold |
| `dhcp_pool` | three hosts that send anything, two addresses, one of them a static lease, a table of two, failing writes | `OneLeaseEach`, `Exclusive`, `NeverTaken`, `ConflictKept` hold |

Each component has one invariant, `...Inv`, that is the conjunction of its
named parts, the type invariant among them; the runs check it as a whole:

* `InstallerInv`: `TypeOK`, `OnlyConfirmedTouched` and what makes it inductive;
* `BuildInv`: `TypeOK`, `StampedPartsStaged` and what makes it inductive;
* `FirstBootInv`: `TypeOK`, `DoneIsComplete`, `SddmHasDesktop`,
  `InstalledInOrder` and what makes it inductive;
* `MakeImageInv`: `TypeOK`, `PartitionsFit`, `NoLeak`;
* `RunsvInv`: `TypeOK`, `SignalsOwnChild`, `ForgottenAreStopping`,
  `GoneLeavesNothing`, `StateFits`, `StatusTrue`;
* `RunsvdirInv`: `TypeOK`, `SignalsOwnRunsv`, `ForgottenAreEnding`, `HupEndsAll`;
* `SyslogInv`: `TypeOK`, `Exclusion`, `TailIsOldest`, `NothingUninitialised`;
* `DhcpInv`: `TypeOK`, `ConfiguredWhileHeld`, `Listens`.

Properties that say what a reader would expect and the code does not do are
stated with the exception under which they hold, so that the exception is the
finding; they are listed under "Defects the models show".

**Bounds.** `MaxRuns = 2` for the installer: the second run meets everything
the first can leave, on the same or on the other disk, and what it leaves in
turn is of the same kind. Disks are symmetric. `MaxMakes = 4`: a build, a
clean, a build that fails and one more; a stamp can be made, removed, and made
again on leftovers. `MaxConf = 2` tells an old kernel from a new one. Three
packages and three boots let the setup break off before, at and after a package
in the middle, pass one over, and start again. Two image runs are enough for one to meet what
another left mounted, attached and in `/tmp`; two days let the name change in
the middle of a run. The theorems have no bounds.
Three pids are a service, its log and one that is forgotten; three commands
are enough for kill, up and exit in any order. In `Runsvdir` nothing is bounded
but names, pids and, by `Modes`, which signals come and which entries `stat` and
`realloc` may fail for: as process 1 the permanent service and SIGHUP, with a
script both signals and no failing entry (`MCRunsvdir` says why the other modes
add nothing). Two pids let a service have an old and a new supervisor
while the other has none. The buffer of 5 makes messages of 2 and 3 bytes end
before, at and after its end, and three messages go around it once and into
the oldest. A lease of 7 units with `Low = 2` for the 30 seconds goes through
two renewals, a rebinding and the end; the address is one so that two hosts
always compete. An answer is awaited for two units, which is longer than what
may be left, and the probe takes one. `dhcp_pool` has the choices that one
address does not have; its two hosts without a static lease are symmetric.

**Deadlock** is checked for `FirstBoot`, which can always boot again. In the
other scripts the operator may stop calling once the bound is reached; `Runsv`,
`Runsvdir` and `Syslog` may end with all processes gone, and the packets of
`Dhcp` may all be used up while its server is down.

**Fairness.** `Build!FairSpec` is weak fairness of a make's own steps: a make
that is started runs on, as a process does. Nothing makes the operator start
one, and `flaky` need not end: `MakeAllCompletes` is about the makes that start
after it did. `FirstBoot!FairSpec` adds that a machine that is off is booted
again, that one that is up is shut down some time, and strong fairness of the
operator's clone of pkgsrc, which the script asks for in its message; without
that clone a system shipped without pkgsrc stays as it is.
`Runsv!FairSpec`: the loop goes on, and a process that was told to end, or is
`./finish`, or reads a log without writers, ends some time; the hour after
which `poll` returns by itself is not counted on. `Runsvdir!FairSpec`: the loop
and the clock go on, `readdir` and `vfork` do not fail for ever (strong
fairness, as they may fail any number of times), a `runsv` gets to its lock and
ends after SIGTERM. `Syslog!FairSpec`: both sides go on inside the lock, and a
`semop` that can get through again and again does (strong fairness: the kernel
tries the waiting ones in turn at every change). `Dhcp!FairSpec`: a client acts
when its timeout is over, and time goes on; nothing makes the server or the
network deliver anything.

**The segment of `Dhcp`** loses packets but neither duplicates nor reorders
them, and a packet is handled in the time unit in which it was sent or is lost.
There is one server, its longest lease is not shorter than the client's 30
seconds, and two random xids that a client draws in one unit differ (`NextXid`;
a unit later nothing of the old exchange is on its way, and the number starts at
0 again). Each of these is needed. `dhcpd.c:787`: a DISCOVER that comes after
the ACK shortens the lease to `offer_time`. `dhcpc.c:1736`: a lease shorter than
30 seconds is made 30.

What `HeldIsReserved`, `Exclusive` and `NeverTaken` say, they say with the
exceptions the code has:

* a host in `forgot`: since its ACK its lease was not, or not fully, written
  (a crash, `dhcpd.c:465` and `488`), or a restart did not read it
  (`dhcpd.c:515` to `527`);
* an address that is `Contested`: a static lease inside the pool, as in
  `examples/udhcp/udhcpd.conf`, or of two macs. `send_offer` (`dhcpd.c:765`)
  gives it to whoever asks for it, and the ACK to its owner clears the live
  lease. `dhcp_pool` has such an address, and shows that the others are not
  affected;
* a client whose lease is over for the server (`Uses`): `dhcpc.c:1533` looks at
  what is left only when a timeout is over, and `dhcpc.c:1750` does not subtract
  the time of the probe, so that the address stays configured for up to
  `DiscoverTimeout + ProbeTime` longer. `HeldIsReserved` allows for `ProbeTime`
  in the same way.

## What is proved

All theorems hold for every value of the constants that the `ASSUME` of the
module allows, with any number of runs, makes, boots, processes, messages and
hosts. The assumptions say that constants are of their kind (a pid is not 0, a
buffer is not empty, a mac is not the null pointer); the ones with content are
`Low <= MaxLease` in `Dhcp` and that a message fits the buffer in `Syslog`.
Hypotheses of single theorems are named below; those of `DhcpProofs` have none. Every inductive invariant was
checked by TLC on the instances of the runs before it was proved. All 22
invariants of the runs, the eight action properties and the refinement are
theorems.

* `InstallerProofs`: `InstallerInv` is inductive. The claims about disks need
  two facts they do not state: that every mounted disk was confirmed
  (`ConfirmedTargets`), and that from its mount to its unmount the target is on
  top of the stack (`TargetOnTop`), so that a write through a mount point goes
  to the target although other disks may be below it. `Progress` carries from
  label to label what the commands before have done. From it: `Typing`,
  `OnlyConfirmed`, `LiveSystem`, `Completion`, and the action properties
  `OtherDisks` and `InstallKept`. The lemmas on stacks say what `Append` and
  `Front` do to `Last` and to the set of elements; then one lemma per action.
  `BootloaderInPlace` is about a live system that has a kernel and a loader, as
  the run is; `LoaderInv` says what the target's ESP holds at each label, and is
  inductive relative to `InstallerInv`.
* `BuildProofs`: `BuildInv` is inductive. A stamp is made at label `touch`,
  so `SoFarStaged` has to say what the script has staged at each label before
  it, `Place` that a script only runs at its own target and unstamped, and
  `SoFarCleaned` that `clean` has all stamps when it starts on the parts.
  `SoFarMade` and `Reported` give `BuildComplete`. `MakeAllKeepsHook` assumes
  `Commands = {"all"}` and has an invariant of its own, `HookInv`: the packages
  phase is stamped only after the userland phase, which is therefore never
  repeated over it. The assumption is needed: `make packages` and then `make
  userland` lose the hook.
* `FirstBootProofs`: `FirstBootInv` is inductive; `Progress` says how far down
  the list each label is, every package above being installed or passed over by
  its `cd`. From it the four invariants, and `DoneFinal`, for
  any number of hooks.
* `MakeImageProofs`: the five properties of the run. That an announced image
  stays whole needs to know where images can still be written through: `Stack`
  says that what is mounted is of runs that announced nothing, that the run's
  own image is on top while it is populated, and that it is away once the run is
  sure to have unmounted it; `Detached` says the same of its loop device.
  `Named` ties the day's name to the run, `Progress` says how far the image is,
  `Collected` whose files `/tmp` holds when `nbmakefs` reads them. `BurnsAnnounced`
  says of `ls -t` what can be said: an image that is not announced is written to
  the device only if its run also left it on a loop device. One lemma per
  command; the stack is reasoned about position by position.
* `RunsvProofs`: `IInv` says that a slot's pid is an unreaped child of its kind
  and that slots do not share one (`Owned`), that the status files agree with
  the slots (`Told`), and, where TERM and KILL are really sent, that a state
  fits the process (`Fits`) and that a process outside the slots was told to end
  (`NoneLost`). `Fits` is what makes `NoneLost` inductive: a start overwrites the
  pid of a slot whose state is `down`, and only a process that was killed, or is
  `./finish`, may be behind it. `OwnChildren` holds whatever scripts there are.
  `RunsvCorrect`, `LogPipeKept` and the refinement `RunsvIsASupervisor` assume
  `NoStopScripts`: no `control/t` or `control/k` that claims to have handled the
  command. The assumption is needed, as `custom()` then keeps `runsv` from
  sending the signal. For the refinement one predicate, `Seen`, says what a step
  does to wish and instances; each command is shown to do that, and `Seen` is a
  step of `Service` or a stutter.
* `RunsvdirProofs`: `RunsvdirCorrect` and `NothingIsMissed`. The first needs that
  a process is in its slot or was told to end (`InSlotOrEnding`). The second is
  about time: `ScanSound` says that the wait for the next second comes before
  the scan, and `ScanCurrent` that while the mtime is the one read, what the scan
  has met so far is what is there, but for what it passed over; an edit during
  the scan makes `current` false.
* `SyslogProofs`, for every buffer size: `Locks` says that the semaphores count
  who is inside, `StreamWhole` that the stream ends with a NUL whenever the
  buffer is not locked, and `Cursor` that a reader's place is its next byte's
  number modulo the size. `SyslogCorrect` follows. `FirstPassPrintsMessages` and
  `FollowerPrintsOnce` then need arithmetic modulo the size, which the provers
  do not have: the first lemmas of the module give it (a stream position is
  laps and a place, and a buffer holds the last `Size` positions), from
  uniqueness of quotient and remainder.
* `DhcpProofs`: `IInv` is `Tables` (one lease for an address and for a mac, each
  at its static address or in the pool, within the slots, in table and file),
  `Network` (packets are well formed) and `Hosts` (a client's address and socket
  fit its state). From it `LeasesAreUnique`, `AddressesAreKept` and
  `ConflictIsKept`, for any static leases. For exclusiveness `GrantsKept` says
  that what a host was given, unless it is forgotten or the address contested,
  is its static address, or is in the file and, while the server runs, in the
  table, for at least as long (it is *backed*). Two leases of one table have two
  addresses, and a write that leaves a lease out puts its mac into `forgot`
  (`NotForgotten`).
  A `udhcpc` is harder, as what it holds was acknowledged in another step than
  it was taken, and its DISCOVER, DECLINE or RELEASE may reach the server in
  between. Three more parts of an invariant say why none of them matters.
  `Ordered`: answers and requests of one client are on their way in the order of
  their xids, and whatever withdraws or replaces a REQUEST has a later xid than
  it. `Matched`: while a client selects, nothing is to be acknowledged in its
  exchange; once it has chosen, every REQUEST and ACK of that exchange is of the
  chosen address; while it has a lease or probes one (`Lasting`), only such
  REQUESTs are on their way. `Timed`: a lease is never longer than the server's
  longest, and a probe not longer than `ProbeTime`. Together they are
  `Exchanges` (`ExchangesInOrder`); every step of a client is one of five kinds
  (`Turn`: it leaves, discovers, chooses, goes on or binds), which is what makes
  the case split short. Relative to it `ClientsKept` is inductive: what a client
  may rely on, and what an ACK that it would accept offers, is backed. What it
  may rely on is `Trust`: what it counts, less the time it has spent on the
  probe. That is what a step of time lowers by one in every state, while the
  client's own count stands still in `PROBING`; and it is above 0 as long as the
  address counts as used. `HeldAreReserved` and `AllExclusive` follow,
  `DhcpCorrect` from `IInv` and `Exchanges`.
  What `read_leases` and the search of the pool do for a file and a pool of any
  length is proved without an induction theorem: the fold exists, and an index
  at which it leaves the set that the invariant allows would have a least one.

Model-checked only:

* the liveness properties (`MakeAllCompletes`, `SetupCompletes`,
  `WantedIsRunning`, `ExitCompletes`, `SupervisedAgain`, `RemovedEnds`,
  `LogWritten`, `LogreadEnds`, `LeasesEnd`): fairness and `ENABLED` are out of
  the prover's reach.

## Defects the models show

* `runsv.c:677`: the log's exit status overwrites that of `./run` before
  `./finish` gets it (run `runsv_finish_status`).
* `install.sh:323`: when `umount` fails, `rm -rf` empties the system just
  installed, and the run reports completion; a file system that an interrupted
  run left mounted is emptied by a later run on another disk. `OtherDisksKept`
  and `UnmountedInstallKept` say when this does not happen.
* `install.sh:130`: the root partition takes all space, and adding swap ends
  every run on an empty disk, with tools that all work.
* `Makefile:24`, `02-userland.sh:37`: `make packages` and then `make userland`
  take the hook out of `rc.local`, and the packages stamp stays; `HookStaged`
  holds for `make all` only.
* `01-kernel.sh:45`: a failing kernel build behind `| tail` is announced, with
  the kernel of an earlier configuration.
* `03-packages.sh:66`: a package whose directory cannot be entered is passed over
  without a word, sddm enabled and the script renamed (`skipped` in
  `DoneIsComplete`, `SddmHasDesktop` and `InstalledInOrder`). Three states are
  left for good (`Wedged` in `SetupCompletes`): a bootstrap that broke off with a
  `bmake` in place, a tree without `bootstrap/`, and packages that refuse to be
  installed again (`refuses`).
* `01-kernel.sh:31`, `04-desktop.sh:96`, `utils-netbsd.sh:107`: `make all` never
  completes (`Wedged` in `MakeAllCompletes`) with a tool chain that broke off
  after `nbmake`, which the kernel phase takes for built; with one that was lost
  in an interrupted `clean-all` when the kernel is there and the userland
  stamped; with a source tree extracted in part; and at all where `/bin/sh` does
  not expand braces, as the `cp` of `04-desktop.sh:100` then has no directory.
* `Makefile:41`: `ls -t` may name the image of a killed run that is still on its
  loop device, when something was written through its mount after the present
  run's image was announced (`BurnedComplete` excepts it).
* `runsv.c:438`: `k` and then `u` run two processes for a moment (both
  `ForgottenAreStopping` and `Service` allow it, as the first was killed); `x`
  and then `u` leave a service whose log pipe is closed and that cannot start
  (`WantedIsRunning` excepts it).
* `runsvdir.c:130`: a start that fails is not repeated before something else
  changes, although `runsvdir.c:424` says "init continues to monitor services
  forever"; `runsvdir.c:176`: an entry whose `stat` fails for a moment is taken
  for removed and its `runsv` told to end, without a rescan (`SupervisedAgain`
  excepts both, `NothingMissed` the latter); `runsvdir.c:409`: after a `-s` script
  the table may have numbers of processes that are gone (`SignalsOwnRunsv`
  excepts it).
* `syslogd.c:310`: a syslogd killed inside its lock blocks every reader and its
  own successor (`LogreadEnds` excepts it). `logread.c:136`: the tail is read
  without the lock, and a `logread` may print nothing of a log that is not
  empty; what it prints is whole.
* `dhcpd.c:163`: zero macs are compared as macs, against the comment at
  line 155, and a restart keeps only the last conflict lease (`ConflictKept` is
  about a file with one). `dhcpd.c:838`, `465`, `488`, `526`: a crash
  after the ACK, a write that fails and a file that is not read let an address
  be leased twice (`forgot` in `Exclusive` and `HeldIsReserved`).
  `dhcpd.c:765`: a static address inside the pool is leased to another host
  (`Contested`). `dhcpc.c:1533` and `1750`: a client keeps its address past its
  lease (`Uses`).

## Seen while reading, without a run

* `06-make-image.sh:108`: the status of `nbmakefs` is lost in `| tail -1`, and
  those of the copies in `|| true` and in pipelines of two `tar`s; an image can
  be announced with a root that is cut off, or with the one a killed run left
  in `/tmp`. `MakeImage` has these steps; `ImageWhole` says only that a root
  was written.
* `02-userland.sh:22`: the same for `build.sh`; the phase is stamped after a
  build that failed, and `Makefile:21` then says "Userland already built.".
* `01-kernel.sh:48`: a copy to `out/netbsd` that breaks off is "already built"
  for every later make.
* `utils-netbsd.sh:107`: an extraction that breaks off is announced as a
  success and, as `build.sh` is there, never repeated.
* `03-packages.sh:162` appends to `rc.local` once per attempt, under a comment
  that says "(runs once)"; the script itself runs at each boot until it is
  through, although line 34 says it runs once.
* `07-test-qemu.sh:28`: `|| true \` ends the QEMU command before its `-drive`.
* `05-assemble-rootfs.sh:10` mounts `dk0` as ext2, as the layout in the
  repository's README has it, while `06-make-image.sh` makes the ESP the first
  and an FFS the second partition.
* `install.sh` reads a password and does not use it; an empty answer passes the
  existence test for a disk; "Bootloader installed." is printed without a
  kernel and a loader when the live system has none.
* `utils-netbsd.sh:101` uses bash syntax under `#!/bin/sh`.
* `runsv.c:303`: `custom()` waits for a control script without a limit, and a
  script that hangs stops the supervision. `runsv.c:213`: the test after `open`
  is `fd < -1` and never true. `runsv.c:575`: when `runsv` is killed its lock
  goes with it, and the next one starts a second `./run`.
* `runsvdir.c:392`: one variable holds the last signal, so that a SIGTERM may
  replace a SIGHUP that was not handled yet (`HupEndsAll` is about the one that
  is).
* `logread.c:180`: a follower that sleeps through a whole buffer loses it
  (`FollowerExact` excepts it). `syslogd.c:612`: followers that overlap for ever
  keep the writer out, which is why `MaxFollowers` is 1. `syslogd.c:590`: a new
  syslogd clears the buffer without the lock.
* `dhcpd.c:765`: an address that is asked for is offered without a probe and
  without the test for the server's own address.
* `rc.d/tor:20`: enabled in `rc.conf`, the daemon stays in the foreground, and
  `rc` waits for it.

## Not modelled, and why

Contents of files, configuration values, console output: no property is about
them. What build.sh, pkgsrc, QEMU, rc.subr and the boot loader do is outside
the repository; they succeed, fail or leave part of their work. Two makes at
the same time and `make -j` are not modelled; nothing in the repository starts
two.

BusyBox has about 285,000 lines of C in 750 files, and five programs of it are
modelled, some 2,000 lines. The reason is not only size. Its bulk is shells and
interpreters (`ash`, `hush`, `awk`, `bc`, `sed`), editors, archivers,
compressors, file utilities and partition editors: sequential programs on texts
and bit streams. A model of them would be a transliteration, their correctness
is what they compute for long inputs, which TLC cannot enumerate, and nothing
in them interleaves, crashes and recovers, or waits for another process. Of
the modelled programs the text is left out in the same way: options, messages,
packet layouts, status texts. `syslogd`'s log files and rotation, `udhcpc`'s
`-n`, `-b`, `-q`, and `runsvdir`'s log in the process title are not modelled.

## Plan

Done, in this order: `Installer`, `Build` and `FirstBoot` with proofs,
`MakeImage`, `Runsv` with `Service`, `Runsvdir`, `Syslog`, `Leases` and `Dhcp`;
then the proofs of `Runsv` with its refinement, `Runsvdir`, `Syslog`,
`MakeImage`, `Dhcp` and of `BootloaderInstalled`; last the exchanges of `Dhcp`,
with `HeldIsReserved` and `Exclusive`, for any timeouts, probes, static leases
and failing writes. Left:

1. An abstract specification of what a lease promises, of which `Dhcp` is a
   refinement, as `Service` is for `Runsv`; likewise a log stream for `Syslog`.
2. Later: BusyBox `init`, `svlogd` and `sv`; `make -j`; the boot (partition
   layout, `boot.cfg` and fstab against each other, services in the foreground).
