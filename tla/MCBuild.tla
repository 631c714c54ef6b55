------------------------------- MODULE MCBuild -------------------------------
(* Instances of Build.                                                      *)
EXTENDS Build

AllCommands == {"all", "kernel", "userland", "packages", "desktop", "rootfs",
                "image", "clean", "clean-all"}
=============================================================================
