------------------------------- MODULE Service -------------------------------
(***************************************************************************)
(* What a supervisor promises about one service: what is wanted of it, and *)
(* which processes run it that nobody has told to stop.  One at most, only *)
(* when it is wanted, and the supervisor leaves none behind.               *)
(***************************************************************************)
CONSTANT Pids

VARIABLES
  want,    \* "up", "down" or "exit"
  inst,    \* the processes that run the service and were not told to stop
  gone     \* the supervisor has exited

vars == <<want, inst, gone>>

Init == want \in {"up", "down"} /\ inst = {} /\ gone = FALSE

NewInstance == inst = {} /\ \E p \in Pids : inst' = {p}

\* The supervisor starts a service that is wanted.
Start == ~gone /\ want = "up" /\ NewInstance /\ UNCHANGED <<want, gone>>

\* The service ends, or is told to.
End == inst # {} /\ inst' = {} /\ UNCHANGED <<want, gone>>

\* The commands up and once start it, down and exit leave nothing running.
Up   == ~gone /\ want' = "up"   /\ (NewInstance \/ UNCHANGED inst) /\ UNCHANGED gone
Once == ~gone /\ want' = "down" /\ (NewInstance \/ UNCHANGED inst) /\ UNCHANGED gone
Down == ~gone /\ want' = "down" /\ inst' = {} /\ UNCHANGED gone
Exit == ~gone /\ want' = "exit" /\ inst' = {} /\ UNCHANGED gone

\* The supervisor exits when that is wanted, with nothing running.
Quit == ~gone /\ want = "exit" /\ inst = {} /\ gone' = TRUE /\ UNCHANGED <<want, inst>>

Next == Start \/ End \/ Up \/ Once \/ Down \/ Exit \/ Quit

Spec == Init /\ [][Next]_vars
=============================================================================
