------------------------------ MODULE MCRunsvdir ------------------------------
(* Instances of Runsvdir.                                                   *)
EXTENDS Runsvdir

\* As process 1, with a service for which stat and realloc may fail, and without
\* SIGTERM, which there at most takes the place of a SIGHUP; and as another
\* process with a script.  Until its first signal any other runsvdir behaves as
\* the former, and then as the latter when no runsv ends while the script runs.
ModesUsed == {[init |-> TRUE, script |-> FALSE, shaky |-> {"b"}, sigs |-> {"hup"}],
              [init |-> FALSE, script |-> TRUE, shaky |-> {}, sigs |-> {"hup", "term"}]}
=============================================================================
