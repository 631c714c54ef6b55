------------------------------- MODULE Leases -------------------------------
(***************************************************************************)
(* The lease table of udhcpd (networking/udhcp/dhcpd.c) and the rules by   *)
(* which addresses enter and leave it.  A table is a set of leases         *)
(* [mac, nip, left]; left is `expires' minus the current time, floored at  *)
(* -1, so that a lease is expired when left < 0.  Slots of g_leases that   *)
(* are empty are not represented.  An operator that has a choice the floor *)
(* hides (which of several expired leases is the oldest) returns the set   *)
(* of its possible results.                                                *)
(***************************************************************************)
EXTENDS Integers, FiniteSets, SequencesExt

CONSTANTS StartIp, EndIp,   \* start_ip and end_ip of udhcpd.conf
          ServerIp,         \* server_nip
          MaxLeases,        \* max_leases of udhcpd.conf
          Static,           \* static leases: a function from macs to addresses
          ZeroMac,          \* six zero bytes, the mac of a conflict lease
          OfferTime, ConflictTime, DeclineTime, \* of udhcpd.conf
          MinLease, MaxLease                    \* min_lease_sec, max_lease_sec

ASSUME LeasesAssumption ==
    /\ StartIp \in Nat \ {0} /\ EndIp \in Nat /\ StartIp <= EndIp
    /\ MaxLeases \in Nat \ {0}
    /\ ZeroMac \notin DOMAIN Static   \* no host has that mac
    /\ \A t \in {OfferTime, ConflictTime, DeclineTime, MinLease, MaxLease} : t \in Nat

NULL == "NULL"
NoIp == 0

Pool == StartIp .. EndIp

(***************************************************************************)
(* The slots of g_leases: never more than there are addresses.             *)
(***************************************************************************)
Slots == IF MaxLeases > Cardinality(Pool) THEN Cardinality(Pool) ELSE MaxLeases

(***************************************************************************)
(* get_static_nip_by_mac, is_nip_reserved_as_static, find_lease_by_mac and *)
(* find_lease_by_nip; the last two as the set of the leases that match.    *)
(***************************************************************************)
StaticIp(mac) == IF mac \in DOMAIN Static THEN Static[mac] ELSE NoIp

IsReservedAsStatic(ip) == \E mac \in DOMAIN Static : Static[mac] = ip

LeaseByMac(t, mac) == {l \in t : l.mac = mac}

LeaseByNip(t, ip) == {l \in t : l.nip = ip}

(* Mutant: a lease counts as expired in its last second.                   *)
IsExpired_early(l) == l.left <= 0

IsExpired(l) == l.left < 0

(***************************************************************************)
(* clear_leases and add_lease.  The comparison with chaddr is made for     *)
(* every chaddr that is not a null pointer, six zero bytes included.  A    *)
(* table with no empty and no expired slot stays as clear_leases left it.  *)
(***************************************************************************)
(* Mutant: an older lease of the address, to another mac, stays.           *)
Cleared_mac(t, chaddr, ip) == {l \in t : ~(chaddr # NULL /\ l.mac = chaddr)}

Cleared(t, chaddr, ip) ==
    {l \in t : ~(chaddr # NULL /\ l.mac = chaddr) /\ l.nip # ip}

OldestExpired(t) == {l \in t : IsExpired(l) /\ \A k \in t : l.left <= k.left}

AddLease(t, chaddr, ip, time) ==
    LET u == Cleared(t, chaddr, ip)
        new == [mac |-> IF chaddr = NULL THEN ZeroMac ELSE chaddr,
                nip |-> ip, left |-> time]
    IN  IF Cardinality(u) < Slots THEN {u \cup {new}}
        ELSE IF OldestExpired(u) = {} THEN {u}
        ELSE {(u \ {o}) \cup {new} : o \in OldestExpired(u)}

(***************************************************************************)
(* find_free_or_expired_nip: the addresses in turn, from the one the hash  *)
(* of the mac selects.  inUse[ip] says whether an ARP probe for ip is      *)
(* answered, in which case nobody_responds_to_arp makes it a conflict      *)
(* lease.  `oldest' holds the oldest lease met so far; it is a pointer     *)
(* into the table, and a conflict lease may meanwhile take its slot.       *)
(***************************************************************************)
Look(s, ip, inUse) ==
    LET found == LeaseByNip(s.t, ip)
        seen == s.oldest \cup found
    IN  IF s.nip # NoIp \/ ip = ServerIp \/ IsReservedAsStatic(ip) THEN {s}
        ELSE IF found # {}
        THEN {[s EXCEPT !.oldest = {l}] :
                l \in {m \in seen : \A k \in seen : m.left <= k.left}}
        ELSE IF inUse[ip]
        THEN {[s EXCEPT !.t = u] : u \in AddLease(s.t, NULL, ip, ConflictTime)}
        ELSE {[s EXCEPT !.nip = ip]}

Fallback(s, inUse) ==
    IF s.nip # NoIp \/ s.oldest = {} THEN {s}
    ELSE LET l == CHOOSE l \in s.oldest : TRUE
         IN  IF l \notin s.t \/ ~IsExpired(l) THEN {s}
             ELSE IF inUse[l.nip]
             THEN {[s EXCEPT !.t = u] : u \in AddLease(s.t, NULL, l.nip, ConflictTime)}
             ELSE {[s EXCEPT !.nip = l.nip]}

FindFree(t, first, inUse) ==
    LET order == [i \in 1 .. Cardinality(Pool) |->
                    StartIp + ((first - StartIp + i - 1) % Cardinality(Pool))]
        start == {[t |-> t, nip |-> NoIp, oldest |-> {}]}
        scan == FoldLeft(LAMBDA S, ip : UNION {Look(s, ip, inUse) : s \in S}, start, order)
    IN  UNION {Fallback(s, inUse) : s \in scan}

(***************************************************************************)
(* select_lease_time: the lease time asked for (0: none), within bounds.   *)
(***************************************************************************)
LeaseTime(ask) ==
    IF ask = 0 THEN MaxLease
    ELSE LET t == IF ask > MaxLease THEN MaxLease ELSE ask
         IN  IF t < MinLease THEN MinLease ELSE t

(***************************************************************************)
(* write_leases and read_leases.  The file holds what was left of each     *)
(* lease when it was written, and the time it was written at; here, what   *)
(* is left now.  The leases are read back one by one through add_lease,    *)
(* with their mac as chaddr, whatever it is.                               *)
(***************************************************************************)
Written(t) == {[l EXCEPT !.left = IF l.left < 0 THEN 0 ELSE l.left] : l \in t}

(* Mutant: leases without a mac are skipped.                               *)
ReadBack_macs(l) ==
    /\ l.nip \in Pool
    /\ l.mac # ZeroMac /\ StaticIp(l.mac) = NoIp
    /\ ~IsReservedAsStatic(l.nip)

ReadBack(l) ==
    /\ l.nip \in Pool
    /\ StaticIp(l.mac) = NoIp
    /\ ~IsReservedAsStatic(l.nip)

ReadLeases(order) ==
    FoldLeft(LAMBDA T, l : IF ReadBack(l)
                           THEN UNION {AddLease(t, l.mac, l.nip, l.left) : t \in T}
                           ELSE T,
             {{}}, order)

Aged(t, floor) == {[l EXCEPT !.left = IF l.left > floor THEN l.left - 1 ELSE floor] : l \in t}
=============================================================================
