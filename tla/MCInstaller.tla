----------------------------- MODULE MCInstaller -----------------------------
(* Instances of Installer: two disks of 20 GB, of which one has to   *)
(* be left alone, and one answer that is not a disk.                        *)
EXTENDS Installer, TLC

MCDiskMb == [d \in Disks |-> 20480]
Sym == Permutations(Disks)
=============================================================================
