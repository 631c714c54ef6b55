------------------------------- MODULE MCSyslog -------------------------------
(* Instances of Syslog.                                                     *)
EXTENDS Syslog
=============================================================================
