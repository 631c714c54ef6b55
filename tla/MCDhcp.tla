------------------------------- MODULE MCDhcp -------------------------------
(* The static leases of the instances: none, or one inside the pool.  The  *)
(* two hosts without one are interchangeable.                              *)
EXTENDS Dhcp

CONSTANTS o1, o2, o3

NoStatic == [m \in {} |-> NoIp]
OneStatic == [m \in {o3} |-> 2]
Interchangeable == Permutations({o1, o2})
=============================================================================
