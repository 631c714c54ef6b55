------------------------------ MODULE DhcpProofs ------------------------------
(***************************************************************************)
(* Proofs about Leases and Dhcp, for any pool, any configured times, any   *)
(* hosts and any static leases.                                            *)
(***************************************************************************)
EXTENDS Dhcp, FiniteSetTheorems, SequenceTheorems, WellFoundedInduction, TLAPS

-----------------------------------------------------------------------------
(* Numbers                                                                 *)

\* Every set of naturals that is not empty has a least element.
LEMMA LeastNat ==
  ASSUME NEW T \in SUBSET Nat, T # {}
  PROVE  \E x \in T : \A y \in T : x <= y
<1> DEFINE R == {ss \in Nat \X Nat : ss[1] < ss[2]}
<1>1. IsWellFoundedOn(R, Nat)
  BY NatLessThanWellFounded DEF OpToRel
<1> HIDE DEF R
<1>2. PICK x \in T : \A y \in T : ~(<<y, x>> \in R)
  BY <1>1, WFMin
<1>3. \A y \in T : ~(y < x)
  BY <1>2 DEF R
<1> QED BY <1>3

\* The pool is finite and has an address, and the table has a slot.
LEMMA SlotsType ==
  Slots \in Nat /\ Slots > 0 /\ Cardinality(Pool) \in Nat /\ Cardinality(Pool) > 0 /\ IsFiniteSet(Pool)
<1>1. StartIp \in Int /\ EndIp \in Int /\ StartIp <= EndIp /\ MaxLeases \in Nat \ {0}
  BY LeasesAssumption
<1>2. IsFiniteSet(Pool) /\ Cardinality(Pool) = EndIp - StartIp + 1
  BY <1>1, FS_Interval DEF Pool
<1> QED BY <1>1, <1>2 DEF Slots

\* No time is longer than Longest.
LEMMA LongestIs ==
  /\ Longest \in Nat
  /\ \A t \in {OfferTime, ConflictTime, DeclineTime, MinLease, MaxLease, Low} : t \in Nat /\ t <= Longest
<1> DEFINE T == {OfferTime, ConflictTime, DeclineTime, MinLease, MaxLease, Low}
<1>1. T \in SUBSET Nat
  BY LeasesAssumption, DhcpAssumption
<1>2. \E t \in T : \A u \in T : t >= u
  <2>1. PICK a \in {OfferTime, ConflictTime} : \A u \in {OfferTime, ConflictTime} : a >= u
    BY <1>1
  <2>2. PICK b \in {DeclineTime, MinLease} : \A u \in {DeclineTime, MinLease} : b >= u
    BY <1>1
  <2>3. PICK c \in {MaxLease, Low} : \A u \in {MaxLease, Low} : c >= u
    BY <1>1
  <2>4. a \in T /\ b \in T /\ c \in T /\ a \in Nat /\ b \in Nat /\ c \in Nat
    BY <1>1
  <2>5. PICK d \in {a, b} : d >= a /\ d >= b
    BY <2>4
  <2>6. PICK e \in {d, c} : e >= d /\ e >= c
    BY <2>4
  <2>7. e \in T /\ e \in Nat /\ d \in Nat
    BY <2>4
  <2>8. \A u \in T : u = OfferTime \/ u = ConflictTime \/ u = DeclineTime \/ u = MinLease
                     \/ u = MaxLease \/ u = Low
    OBVIOUS
  <2>9. \A u \in T : a >= u \/ b >= u \/ c >= u
    BY <2>1, <2>2, <2>3, <2>8
  <2>10. \A u \in T : e >= u
    BY <1>1, <2>4, <2>5, <2>6, <2>7, <2>9
  <2> QED BY <2>7, <2>10
<1>3. Longest \in T /\ \A u \in T : Longest >= u
  BY <1>2 DEF Longest
<1> QED BY <1>1, <1>3

\* select_lease_time stays within its bounds.
LEMMA LeaseTimeType ==
  ASSUME NEW ask \in Nat
  PROVE  LeaseTime(ask) \in 0 .. Longest
<1>1. MinLease \in Nat /\ MaxLease \in Nat /\ Longest \in Nat /\ MinLease <= Longest /\ MaxLease <= Longest
  BY LongestIs
<1> QED BY <1>1 DEF LeaseTime

-----------------------------------------------------------------------------
(* The lease table                                                         *)

LeaseMacs == Macs \cup {ZeroMac}
Lease     == [mac : LeaseMacs, nip : Ips, left : -1 .. Longest]

Each(t) == \A l, k \in t : l # k => l.nip # k.nip /\ (l.mac = k.mac => l.mac = ZeroMac)

\* The address of a lease is the static one of its mac, or one of the pool.
Home(l) == IF l.mac # ZeroMac /\ StaticIp(l.mac) # NoIp THEN l.nip = StaticIp(l.mac) ELSE l.nip \in Pool

\* A table as udhcpd keeps it.
TableOK(t) == /\ t \subseteq Lease /\ IsFiniteSet(t) /\ Cardinality(t) <= Slots
              /\ Each(t) /\ \A l \in t : Home(l)

\* add_lease, in its three outcomes.
LEMMA AddLeaseIs ==
  ASSUME NEW t, NEW chaddr, NEW ip, NEW time, NEW u \in AddLease(t, chaddr, ip, time),
         NEW cl, cl = Cleared(t, chaddr, ip),
         NEW new, new = [mac |-> IF chaddr = NULL THEN ZeroMac ELSE chaddr, nip |-> ip, left |-> time]
  PROVE  \/ Cardinality(cl) < Slots /\ u = cl \cup {new}
         \/ ~(Cardinality(cl) < Slots) /\ u = cl
         \/ /\ ~(Cardinality(cl) < Slots)
            /\ \E o \in cl : IsExpired(o) /\ u = (cl \ {o}) \cup {new}
BY DEF AddLease, OldestExpired

\* add_lease of an address of the pool, or of the static one, keeps the table
\* in order.
LEMMA AddLeaseKeeps ==
  ASSUME NEW t, TableOK(t), NEW chaddr \in LeaseMacs \cup {NULL}, NEW ip \in Ips,
         NEW time \in 0 .. Longest, NEW u \in AddLease(t, chaddr, ip, time),
         IF chaddr \in Macs /\ StaticIp(chaddr) # NoIp THEN ip = StaticIp(chaddr) ELSE ip \in Pool
  PROVE  TableOK(u)
<1>a. PICK cl : cl = Cleared(t, chaddr, ip)  OBVIOUS
<1>b. PICK new : new = [mac |-> IF chaddr = NULL THEN ZeroMac ELSE chaddr, nip |-> ip, left |-> time]
  OBVIOUS
<1>0. /\ t \subseteq Lease /\ IsFiniteSet(t) /\ Cardinality(t) <= Slots /\ Each(t) /\ Slots \in Nat
      /\ \A l \in t : Home(l)
  BY SlotsType DEF TableOK
<1>1. \/ Cardinality(cl) < Slots /\ u = cl \cup {new}
      \/ ~(Cardinality(cl) < Slots) /\ u = cl
      \/ /\ ~(Cardinality(cl) < Slots)
         /\ \E o \in cl : IsExpired(o) /\ u = (cl \ {o}) \cup {new}
  BY <1>a, <1>b, AddLeaseIs
<1>2. cl \subseteq t /\ \A l \in cl : l.nip # ip /\ (chaddr # NULL => l.mac # chaddr)
  BY <1>a DEF Cleared
<1>3. new \in Lease /\ new.nip = ip /\ new.mac = IF chaddr = NULL THEN ZeroMac ELSE chaddr
  <2>1. Longest \in Nat
    BY LongestIs
  <2>2. time \in -1 .. Longest /\ (IF chaddr = NULL THEN ZeroMac ELSE chaddr) \in LeaseMacs
    BY <2>1 DEF LeaseMacs
  <2> QED BY <1>b, <2>2 DEF Lease
<1>4. IsFiniteSet(cl) /\ Cardinality(cl) \in Nat /\ Cardinality(cl) <= Slots
  <2>1. IsFiniteSet(cl) /\ Cardinality(cl) <= Cardinality(t)
    BY <1>0, <1>2, FS_Subset
  <2>2. Cardinality(cl) \in Nat /\ Cardinality(t) \in Nat
    BY <1>0, <2>1, FS_CardinalityType
  <2> QED BY <1>0, <2>1, <2>2
<1>5. \A d \in SUBSET cl : Each(d) /\ Each(d \cup {new})
  <2> SUFFICES ASSUME NEW d \in SUBSET cl PROVE Each(d) /\ Each(d \cup {new})  OBVIOUS
  <2>1. Each(d)
    BY <1>0, <1>2 DEF Each
  <2>2. \A l \in d : l.nip # new.nip /\ (l.mac = new.mac => l.mac = ZeroMac)
    BY <1>2, <1>3
  <2> QED BY <2>1, <2>2 DEF Each
<1>5a. \A d \in SUBSET cl : \A l \in d \cup {new} : Home(l)
  <2>1. NULL \notin Macs /\ ZeroMac \notin Macs
    BY DhcpAssumption DEF Macs
  <2>2. new.mac = ZeroMac => ip \in Pool
    BY <1>3, <2>1
  <2>3. new.mac # ZeroMac => new.mac = chaddr /\ chaddr \in Macs
    BY <1>3 DEF LeaseMacs
  <2>4. Home(new)
    BY <1>3, <2>2, <2>3 DEF Home
  <2> QED BY <1>0, <1>2, <2>4
<1>6. CASE Cardinality(cl) < Slots /\ u = cl \cup {new}
  <2>0. IsFiniteSet(u) /\ Cardinality(u) = IF new \in cl THEN Cardinality(cl) ELSE Cardinality(cl) + 1
    BY <1>4, <1>6, FS_AddElement
  <2>1. IsFiniteSet(u) /\ Cardinality(u) <= Cardinality(cl) + 1
    BY <1>4, <2>0
  <2>2. Cardinality(u) \in Nat
    BY <2>1, FS_CardinalityType
  <2>3. Cardinality(u) <= Slots
    BY <1>0, <1>4, <1>6, <2>1, <2>2
  <2> QED BY <1>0, <1>2, <1>3, <1>5, <1>5a, <1>6, <2>1, <2>3 DEF TableOK
<1>7. CASE u = cl
  BY <1>0, <1>2, <1>4, <1>5, <1>7 DEF TableOK
<1>8. CASE \E o \in cl : u = (cl \ {o}) \cup {new}
  <2>1. PICK o \in cl : u = (cl \ {o}) \cup {new}
    BY <1>8
  <2>2. IsFiniteSet(cl \ {o}) /\ Cardinality(cl \ {o}) = Cardinality(cl) - 1
    BY <1>4, FS_RemoveElement
  <2>3. IsFiniteSet(u) /\ Cardinality(u) <= Cardinality(cl)
    <3>1. PICK d : d = cl \ {o}  OBVIOUS
    <3>2. IsFiniteSet(d \cup {new}) /\ Cardinality(d \cup {new})
            = IF new \in d THEN Cardinality(d) ELSE Cardinality(d) + 1
      BY <2>2, <3>1, FS_AddElement
    <3> QED BY <1>4, <2>1, <2>2, <3>1, <3>2
  <2>4. Cardinality(u) \in Nat
    BY <2>3, FS_CardinalityType
  <2>5. Cardinality(u) <= Slots
    BY <1>0, <1>4, <2>3, <2>4
  <2>6. u \subseteq Lease /\ Each(u) /\ \A l \in u : Home(l)
    BY <1>0, <1>2, <1>3, <1>5, <1>5a, <2>1
  <2> QED BY <2>3, <2>5, <2>6 DEF TableOK
<1> QED BY <1>1, <1>6, <1>7, <1>8

\* A lease that add_lease neither clears nor finds expired stays.
LEMMA AddLeaseHolds ==
  ASSUME NEW t, NEW chaddr, NEW ip, NEW time, NEW u \in AddLease(t, chaddr, ip, time),
         NEW l \in t, ~IsExpired(l), l.nip # ip, chaddr # NULL => l.mac # chaddr
  PROVE  l \in u
<1>1. PICK cl : cl = Cleared(t, chaddr, ip)  OBVIOUS
<1>2. PICK new : new = [mac |-> IF chaddr = NULL THEN ZeroMac ELSE chaddr, nip |-> ip, left |-> time]
  OBVIOUS
<1>3. \/ Cardinality(cl) < Slots /\ u = cl \cup {new}
      \/ ~(Cardinality(cl) < Slots) /\ u = cl
      \/ /\ ~(Cardinality(cl) < Slots)
         /\ \E o \in cl : IsExpired(o) /\ u = (cl \ {o}) \cup {new}
  BY <1>1, <1>2, AddLeaseIs
<1>4. l \in cl
  BY <1>1 DEF Cleared
<1> QED BY <1>3, <1>4

\* What is in the table after add_lease was there, or is the new lease.
LEMMA AddLeaseFrom ==
  ASSUME NEW t, NEW chaddr, NEW ip, NEW time, NEW u \in AddLease(t, chaddr, ip, time), NEW l \in u
  PROVE  \/ l \in t /\ l.nip # ip /\ (chaddr # NULL => l.mac # chaddr)
         \/ l = [mac |-> IF chaddr = NULL THEN ZeroMac ELSE chaddr, nip |-> ip, left |-> time]
<1>1. PICK cl : cl = Cleared(t, chaddr, ip)  OBVIOUS
<1>2. PICK new : new = [mac |-> IF chaddr = NULL THEN ZeroMac ELSE chaddr, nip |-> ip, left |-> time]
  OBVIOUS
<1>3. \/ Cardinality(cl) < Slots /\ u = cl \cup {new}
      \/ ~(Cardinality(cl) < Slots) /\ u = cl
      \/ /\ ~(Cardinality(cl) < Slots)
         /\ \E o \in cl : IsExpired(o) /\ u = (cl \ {o}) \cup {new}
  BY <1>1, <1>2, AddLeaseIs
<1>4. \A k \in cl : k \in t /\ k.nip # ip /\ (chaddr # NULL => k.mac # chaddr)
  BY <1>1 DEF Cleared
<1> QED BY <1>2, <1>3, <1>4

\* add_lease finds a slot when it clears one.
LEMMA AddLeaseAdds ==
  ASSUME NEW t, TableOK(t), NEW chaddr, NEW ip, NEW time, NEW u \in AddLease(t, chaddr, ip, time),
         Cardinality(t) < Slots \/ \E l \in t : l.nip = ip \/ (chaddr # NULL /\ l.mac = chaddr)
  PROVE  [mac |-> IF chaddr = NULL THEN ZeroMac ELSE chaddr, nip |-> ip, left |-> time] \in u
<1>1. PICK cl : cl = Cleared(t, chaddr, ip)  OBVIOUS
<1>2. PICK new : new = [mac |-> IF chaddr = NULL THEN ZeroMac ELSE chaddr, nip |-> ip, left |-> time]
  OBVIOUS
<1>3. \/ Cardinality(cl) < Slots /\ u = cl \cup {new}
      \/ ~(Cardinality(cl) < Slots) /\ u = cl
      \/ /\ ~(Cardinality(cl) < Slots)
         /\ \E o \in cl : IsExpired(o) /\ u = (cl \ {o}) \cup {new}
  BY <1>1, <1>2, AddLeaseIs
<1>4. cl \subseteq t /\ IsFiniteSet(t) /\ Slots \in Nat /\ Cardinality(t) <= Slots
  BY <1>1, SlotsType DEF Cleared, TableOK
<1>5. Cardinality(cl) \in Nat /\ Cardinality(t) \in Nat /\ Cardinality(cl) <= Cardinality(t)
      /\ (Cardinality(cl) = Cardinality(t) => cl = t)
  BY <1>4, FS_Subset, FS_CardinalityType
<1>6. Cardinality(t) < Slots \/ cl # t
  BY <1>1 DEF Cleared
<1>7. Cardinality(cl) < Slots
  BY <1>4, <1>5, <1>6
<1> QED BY <1>2, <1>3, <1>7

-----------------------------------------------------------------------------
(* find_free_or_expired_nip                                                *)

Scan == [t : SUBSET Lease, nip : Pool \cup {NoIp}, oldest : SUBSET Lease]

\* How far the search that began with table t0 may have come: what was not
\* expired is still there, what is new is a conflict lease, and an address that
\* was found is free.
ScanOK(s, t0) ==
  /\ s \in Scan /\ TableOK(s.t)
  /\ \A l \in t0 : ~IsExpired(l) => l \in s.t
  /\ \A l \in s.t : l \in t0 \/ l.mac = ZeroMac
  /\ s.nip # NoIp => \A l \in s.t : l.nip = s.nip => IsExpired(l)
  /\ \A l \in s.oldest : l.nip \in Pool

\* The address 0 is not one to give out.
LEMMA ZeroNotInPool == NoIp \notin Pool /\ Pool \subseteq Ips
BY LeasesAssumption DEF NoIp, Pool, Ips

\* A conflict lease of an address that has no lease that is not expired.
LEMMA ConflictKeeps ==
  ASSUME NEW s, NEW t0, ScanOK(s, t0), s.nip = NoIp, NEW ip \in Pool,
         \A l \in s.t : l.nip = ip => IsExpired(l),
         NEW u \in AddLease(s.t, NULL, ip, ConflictTime), NEW v, v = [s EXCEPT !.t = u]
  PROVE  ScanOK(v, t0)
<1>1. s \in Scan /\ TableOK(s.t) /\ \A l \in s.oldest : l.nip \in Pool
  BY DEF ScanOK
<1>2. TableOK(u)
  <2>1. ConflictTime \in 0 .. Longest
    BY LongestIs
  <2>2. NULL \notin Macs
    BY DhcpAssumption DEF Macs
  <2> QED BY <1>1, <2>1, <2>2, ZeroNotInPool, AddLeaseKeeps
<1>3. v \in Scan /\ v.t = u /\ v.nip = NoIp /\ v.oldest = s.oldest
  <2>1. u \subseteq Lease
    BY <1>2 DEF TableOK
  <2> QED BY <1>1, <2>1 DEF Scan
<1>4. \A l \in t0 : ~IsExpired(l) => l \in u
  <2> SUFFICES ASSUME NEW l \in t0, ~IsExpired(l) PROVE l \in u  OBVIOUS
  <2>1. l \in s.t /\ l.nip # ip
    BY DEF ScanOK
  <2> QED BY <2>1, AddLeaseHolds
<1>5. \A l \in u : l \in t0 \/ l.mac = ZeroMac
  <2> SUFFICES ASSUME NEW l \in u PROVE l \in t0 \/ l.mac = ZeroMac  OBVIOUS
  <2>1. l \in s.t \/ l.mac = ZeroMac
    BY AddLeaseFrom
  <2> QED BY <2>1 DEF ScanOK
<1> QED BY <1>1, <1>2, <1>3, <1>4, <1>5 DEF ScanOK

\* One address of the search: skipped, probed, or found.
LEMMA LookKeeps ==
  ASSUME NEW s, NEW t0, ScanOK(s, t0), NEW ip \in Pool, NEW inUse, NEW v \in Look(s, ip, inUse)
  PROVE  ScanOK(v, t0)
<1> DEFINE found == LeaseByNip(s.t, ip)
<1> DEFINE seen == s.oldest \cup found
<1>0. s \in Scan /\ s.t \subseteq Lease
  BY DEF ScanOK, TableOK
<1>1. CASE v = s
  BY <1>1
<1>2. CASE s.nip = NoIp /\ found # {} /\ \E l \in seen : v = [s EXCEPT !.oldest = {l}]
  <2>1. PICK l \in seen : v = [s EXCEPT !.oldest = {l}]
    BY <1>2
  <2>2. l \in Lease /\ l.nip \in Pool
    BY <1>0 DEF ScanOK, Scan, LeaseByNip
  <2>3. v \in Scan /\ v.t = s.t /\ v.nip = s.nip /\ v.oldest = {l}
    BY <1>0, <2>1, <2>2 DEF Scan
  <2> QED BY <2>2, <2>3 DEF ScanOK
<1>3. CASE s.nip = NoIp /\ found = {} /\ \E u \in AddLease(s.t, NULL, ip, ConflictTime) : v = [s EXCEPT !.t = u]
  <2>1. \A l \in s.t : l.nip # ip
    BY <1>3 DEF LeaseByNip
  <2> QED BY <1>3, <2>1, ConflictKeeps
<1>4. CASE s.nip = NoIp /\ found = {} /\ v = [s EXCEPT !.nip = ip]
  <2>1. \A l \in s.t : l.nip # ip
    BY <1>4 DEF LeaseByNip
  <2>2. v \in Scan /\ v.t = s.t /\ v.nip = ip /\ v.oldest = s.oldest
    BY <1>0, <1>4 DEF Scan
  <2> QED BY <2>1, <2>2 DEF ScanOK
<1> QED BY <1>1, <1>2, <1>3, <1>4 DEF Look

\* The oldest expired lease, when no address is free.
LEMMA FallbackKeeps ==
  ASSUME NEW s, NEW t0, ScanOK(s, t0), NEW inUse, NEW v \in Fallback(s, inUse)
  PROVE  ScanOK(v, t0)
<1>0. s \in Scan /\ TableOK(s.t)
  BY DEF ScanOK
<1>1. CASE v = s
  BY <1>1
<1>2. CASE v # s
  <2>1. s.nip = NoIp /\ s.oldest # {}
    BY <1>2 DEF Fallback
  <2>2. PICK l : l = CHOOSE k \in s.oldest : TRUE
    OBVIOUS
  <2>3. l \in s.oldest
    BY <2>1, <2>2
  <2>4. l.nip \in Pool
    BY <2>3 DEF ScanOK
  <2>5. /\ l \in s.t /\ IsExpired(l)
        /\ \/ \E u \in AddLease(s.t, NULL, l.nip, ConflictTime) : v = [s EXCEPT !.t = u]
           \/ v = [s EXCEPT !.nip = l.nip]
    BY <1>2, <2>1, <2>2 DEF Fallback
  <2>6. \A k \in s.t : k.nip = l.nip => IsExpired(k)
    BY <1>0, <2>5 DEF TableOK, Each
  <2>7. CASE \E u \in AddLease(s.t, NULL, l.nip, ConflictTime) : v = [s EXCEPT !.t = u]
    BY <2>1, <2>4, <2>6, <2>7, ConflictKeeps
  <2>8. CASE v = [s EXCEPT !.nip = l.nip]
    <3>1. v \in Scan /\ v.t = s.t /\ v.nip = l.nip /\ v.oldest = s.oldest
      BY <1>0, <2>4, <2>8 DEF Scan
    <3> QED BY <2>6, <3>1 DEF ScanOK
  <2> QED BY <2>5, <2>7, <2>8
<1> QED BY <1>1, <1>2

-----------------------------------------------------------------------------
(* The two folds: read_leases goes over the leases of the file, and        *)
(* find_free_or_expired_nip over the addresses of the pool.                *)

\* What the next lease of the file, or the next address, makes of the results S.
Step(fold, inUse, x, S) ==
  IF fold = "read"
  THEN IF ReadBack(x) THEN UNION {AddLease(t, x.mac, x.nip, x.left) : t \in S} ELSE S
  ELSE UNION {Look(s, x, inUse) : s \in S}

\* f holds the result for every set of positions.
IsFold(f, n, fold, inUse, base, order) ==
  f = [s \in SUBSET (1 .. n) |->
         IF s = {} THEN base ELSE Step(fold, inUse, order[Max(s)], f[s \ {Max(s)}])]

\* The last index of a prefix.
LEMMA MaxIs ==
  ASSUME NEW n \in Nat, NEW s \in SUBSET (1 .. n), n \in s
  PROVE  Max(s) = n
<1>1. \A y \in s : n >= y
  OBVIOUS
<1>2. \A x \in s : (\A y \in s : x >= y) => x = n
  OBVIOUS
<1> QED BY <1>1, <1>2 DEF Max

\* One more position.
LEMMA FoldGrows ==
  ASSUME NEW n \in Nat \ {0}, NEW fold, NEW inUse, NEW base, NEW order,
         NEW f, IsFold(f, n - 1, fold, inUse, base, order)
  PROVE  \E h : IsFold(h, n, fold, inUse, base, order)
<1> DEFINE h == [s \in SUBSET (1 .. n) |-> IF n \in s THEN Step(fold, inUse, order[n], f[s \ {n}]) ELSE f[s]]
<1>1. ASSUME NEW s \in SUBSET (1 .. n)
      PROVE  h[s] = IF s = {} THEN base ELSE Step(fold, inUse, order[Max(s)], h[s \ {Max(s)}])
  <2>1. CASE n \in s
    <3>1. Max(s) = n
      BY <2>1, MaxIs
    <3>2. h[s \ {n}] = f[s \ {n}]
      OBVIOUS
    <3> QED BY <2>1, <3>1, <3>2
  <2>2. CASE n \notin s
    <3>1. s \in SUBSET (1 .. n - 1)
      BY <2>2
    <3>2. f[s] = IF s = {} THEN base ELSE Step(fold, inUse, order[Max(s)], f[s \ {Max(s)}])
      BY <3>1 DEF IsFold
    <3>3. h[s] = f[s] /\ h[s \ {Max(s)}] = f[s \ {Max(s)}]
      BY <2>2
    <3> QED BY <3>2, <3>3
  <2> QED BY <2>1, <2>2
<1>2. h = [s \in SUBSET (1 .. n) |-> h[s]]
  OBVIOUS
<1> HIDE DEF h
<1>3. h = [s \in SUBSET (1 .. n) |-> IF s = {} THEN base ELSE Step(fold, inUse, order[Max(s)], h[s \ {Max(s)}])]
  BY <1>1, <1>2
<1> QED BY <1>3 DEF IsFold

\* There is such a fold over any sequence.
LEMMA FoldExists ==
  ASSUME NEW n \in Nat, NEW fold, NEW inUse, NEW base, NEW order
  PROVE  \E f : IsFold(f, n, fold, inUse, base, order)
<1> DEFINE Bad == {i \in Nat : ~\E f : IsFold(f, i, fold, inUse, base, order)}
<1>0. SUFFICES ASSUME Bad # {} PROVE FALSE
  OBVIOUS
<1>1. PICK i \in Bad : \A j \in Bad : i <= j
  BY <1>0, LeastNat
<1>2. i \in Nat /\ ~\E f : IsFold(f, i, fold, inUse, base, order)
  OBVIOUS
<1>3. CASE i = 0
  <2>1. PICK f : f = [s \in SUBSET (1 .. 0) |-> base]
    OBVIOUS
  <2>2. \A s \in SUBSET (1 .. 0) : s = {}
    OBVIOUS
  <2>3. f = [s \in SUBSET (1 .. 0) |->
               IF s = {} THEN base ELSE Step(fold, inUse, order[Max(s)], f[s \ {Max(s)}])]
    BY <2>1, <2>2
  <2> QED BY <1>2, <1>3, <2>3 DEF IsFold
<1>4. CASE i # 0
  <2>1. i - 1 \in Nat /\ i - 1 \notin Bad /\ i \in Nat \ {0}
    BY <1>1, <1>2, <1>4
  <2>2. PICK f : IsFold(f, i - 1, fold, inUse, base, order)
    BY <2>1
  <2> QED BY <1>2, <2>1, <2>2, FoldGrows
<1> QED BY <1>3, <1>4

\* What each position leads to is what the last one may lead to.
LEMMA FoldInduction ==
  ASSUME NEW n \in Nat, NEW fold, NEW inUse, NEW base, NEW order, NEW f, IsFold(f, n, fold, inUse, base, order),
         NEW G, base \subseteq G[0],
         \A i \in 1 .. n : \A S \in SUBSET G[i - 1] : Step(fold, inUse, order[i], S) \subseteq G[i]
  PROVE  f[1 .. n] \subseteq G[n]
<1> DEFINE Bad == {i \in Nat : i <= n /\ ~(f[1 .. i] \subseteq G[i])}
<1>0. SUFFICES ASSUME Bad # {} PROVE FALSE
  OBVIOUS
<1>1. PICK i \in Bad : \A j \in Bad : i <= j
  BY <1>0, LeastNat
<1>2. i \in Nat /\ i <= n /\ ~(f[1 .. i] \subseteq G[i])
  OBVIOUS
<1>3. 1 .. i \in SUBSET (1 .. n)
  BY <1>2
<1>4. f[1 .. i] = IF 1 .. i = {} THEN base ELSE Step(fold, inUse, order[Max(1 .. i)], f[(1 .. i) \ {Max(1 .. i)}])
  BY <1>3 DEF IsFold
<1>5. CASE i = 0
  <2>1. 1 .. i = {}
    BY <1>5
  <2> QED BY <1>2, <1>4, <1>5, <2>1
<1>6. CASE i # 0
  <2>1. i \in 1 .. n /\ i \in 1 .. i /\ 1 .. i \in SUBSET (1 .. i)
    BY <1>2, <1>6
  <2>2. Max(1 .. i) = i
    BY <1>2, <2>1, MaxIs
  <2>3. (1 .. i) \ {i} = 1 .. (i - 1)
    BY <1>2, <1>6
  <2>4. f[1 .. i] = Step(fold, inUse, order[i], f[1 .. (i - 1)])
    BY <1>4, <2>1, <2>2, <2>3
  <2>5. i - 1 \in Nat /\ i - 1 <= n /\ i - 1 \notin Bad
    BY <1>1, <1>2, <1>6
  <2>6. f[1 .. (i - 1)] \in SUBSET G[i - 1]
    BY <2>5
  <2> QED BY <1>2, <2>1, <2>4, <2>6
<1> QED BY <1>5, <1>6

\* read_leases is a fold of add_lease over the file.
LEMMA ReadIs ==
  ASSUME NEW order
  PROVE  ReadLeases(order) = (CHOOSE f : f = [s \in SUBSET DOMAIN order |->
            IF s = {} THEN {{}} ELSE Step("read", NULL, order[Max(s)], f[s \ {Max(s)}])])[DOMAIN order]
BY DEF ReadLeases, FoldLeft, MapThenFoldSet, Step

\* What each lease of the file keeps, the whole of read_leases keeps.
LEMMA ReadLeasesIn ==
  ASSUME NEW n \in Nat, NEW order, DOMAIN order = 1 .. n, NEW G, {{}} \subseteq G[0],
         \A i \in 1 .. n : \A S \in SUBSET G[i - 1] : Step("read", NULL, order[i], S) \subseteq G[i]
  PROVE  ReadLeases(order) \subseteq G[n]
<1>1. PICK f : f = CHOOSE h : h = [s \in SUBSET (1 .. n) |->
            IF s = {} THEN {{}} ELSE Step("read", NULL, order[Max(s)], h[s \ {Max(s)}])]
  OBVIOUS
<1>2. ReadLeases(order) = f[1 .. n]
  BY <1>1, ReadIs
<1>3. PICK base : base = {{}}
  OBVIOUS
<1>4. IsFold(f, n, "read", NULL, base, order)
  <2>1. \E h : IsFold(h, n, "read", NULL, base, order)
    BY FoldExists
  <2>2. \E h : h = [s \in SUBSET (1 .. n) |->
            IF s = {} THEN {{}} ELSE Step("read", NULL, order[Max(s)], h[s \ {Max(s)}])]
    BY <1>3, <2>1, ZenonT(40) DEF IsFold
  <2>3. f = [s \in SUBSET (1 .. n) |->
            IF s = {} THEN {{}} ELSE Step("read", NULL, order[Max(s)], f[s \ {Max(s)}])]
    BY <1>1, <2>2
  <2> QED BY <1>3, <2>3 DEF IsFold
<1>5. base \subseteq G[0]
  BY <1>3
<1>6. f[1 .. n] \subseteq G[n]
  BY <1>4, <1>5, FoldInduction, SMTT(30)
<1> QED BY <1>2, <1>6

\* The order in which find_free_or_expired_nip looks at the addresses.
LEMMA FindFreeIn ==
  ASSUME NEW t, NEW first \in Pool, NEW inUse, NEW G,
         [t |-> t, nip |-> NoIp, oldest |-> {}] \in G,
         \A ip \in Pool : \A s \in G : Look(s, ip, inUse) \subseteq G,
         NEW v \in FindFree(t, first, inUse)
  PROVE  \E s \in G : v \in Fallback(s, inUse)
<1>1. PICK n : n = Cardinality(Pool)
  OBVIOUS
<1>2. n \in Nat \ {0} /\ n = EndIp - StartIp + 1 /\ StartIp \in Nat /\ EndIp \in Nat
  <2>1. StartIp \in Nat /\ EndIp \in Nat /\ StartIp <= EndIp
    BY LeasesAssumption
  <2>2. Cardinality(Pool) = EndIp - StartIp + 1
    BY <2>1, FS_Interval DEF Pool
  <2> QED BY <1>1, <2>1, <2>2
<1>3. PICK order : order = [i \in 1 .. n |-> StartIp + ((first - StartIp + i - 1) % n)]
  OBVIOUS
<1>4. DOMAIN order = 1 .. n /\ \A i \in 1 .. n : order[i] \in Pool
  <2>1. \A x \in Int : x % n \in 0 .. (n - 1)
    BY <1>2
  <2>2. first \in Int
    BY DEF Pool
  <2>3. \A i \in 1 .. n : first - StartIp + i - 1 \in Int
    BY <1>2, <2>2
  <2>4. \A i \in 1 .. n : (first - StartIp + i - 1) % n \in 0 .. (n - 1)
    BY <2>1, <2>3
  <2>5. \A d \in 0 .. (n - 1) : StartIp + d \in Pool
    BY <1>2 DEF Pool
  <2> QED BY <1>3, <2>4, <2>5
<1>5. PICK base : base = {[t |-> t, nip |-> NoIp, oldest |-> {}]}
  OBVIOUS
<1>6. PICK f : f = CHOOSE h : h = [s \in SUBSET DOMAIN order |->
            IF s = {} THEN base ELSE Step("look", inUse, order[Max(s)], h[s \ {Max(s)}])]
  OBVIOUS
<1>7. FindFree(t, first, inUse) = UNION {Fallback(s, inUse) : s \in f[DOMAIN order]}
  BY <1>1, <1>3, <1>5, <1>6 DEF FindFree, FoldLeft, MapThenFoldSet, Step
<1>8. IsFold(f, n, "look", inUse, base, order)
  <2>1. \E h : IsFold(h, n, "look", inUse, base, order)
    BY <1>2, FoldExists
  <2>2. \E h : h = [s \in SUBSET DOMAIN order |->
            IF s = {} THEN base ELSE Step("look", inUse, order[Max(s)], h[s \ {Max(s)}])]
    BY <1>4, <2>1 DEF IsFold
  <2>3. f = [s \in SUBSET DOMAIN order |->
            IF s = {} THEN base ELSE Step("look", inUse, order[Max(s)], f[s \ {Max(s)}])]
    BY <1>6, <2>2
  <2> QED BY <1>4, <2>3 DEF IsFold
<1>9. PICK H : H = [i \in 0 .. n |-> G]
  OBVIOUS
<1>10. \A i \in 1 .. n : \A S \in SUBSET H[i - 1] : Step("look", inUse, order[i], S) \subseteq H[i]
  <2> SUFFICES ASSUME NEW i \in 1 .. n, NEW S \in SUBSET H[i - 1], NEW x \in Step("look", inUse, order[i], S)
               PROVE  x \in H[i]
    OBVIOUS
  <2>1. H[i - 1] = G /\ H[i] = G
    BY <1>2, <1>9
  <2>2. PICK s \in S : x \in Look(s, order[i], inUse)
    BY DEF Step
  <2> QED BY <1>4, <2>1, <2>2
<1>11. base \subseteq H[0] /\ H[n] = G
  BY <1>2, <1>5, <1>9
<1>12. n \in Nat
  BY <1>2
<1>13. f[1 .. n] \subseteq H[n]
  BY <1>8, <1>10, <1>11, <1>12, FoldInduction
<1> QED BY <1>4, <1>7, <1>11, <1>13

\* The search over the whole pool keeps the table in order.
LEMMA FindFreeKeeps ==
  ASSUME NEW t, TableOK(t), NEW first \in Pool, NEW inUse, NEW v \in FindFree(t, first, inUse)
  PROVE  ScanOK(v, t)
<1> DEFINE G == {s \in Scan : ScanOK(s, t)}
<1>1. PICK start : start = [t |-> t, nip |-> NoIp, oldest |-> {}]
  OBVIOUS
<1>2. start \in Scan /\ start.t = t /\ start.nip = NoIp /\ start.oldest = {}
  BY <1>1 DEF Scan, TableOK
<1>3. start \in G
  BY <1>2 DEF ScanOK
<1>4. \A ip \in Pool : \A s \in G : Look(s, ip, inUse) \subseteq G
  <2> SUFFICES ASSUME NEW ip \in Pool, NEW s \in G, NEW x \in Look(s, ip, inUse)
               PROVE  x \in G
    OBVIOUS
  <2>1. ScanOK(x, t)
    BY LookKeeps
  <2> QED BY <2>1 DEF ScanOK
<1> HIDE DEF G
<1>5. \E s \in G : v \in Fallback(s, inUse)
  BY <1>1, <1>3, <1>4, FindFreeIn
<1> QED BY <1>5, FallbackKeeps DEF G

-----------------------------------------------------------------------------
(* Parts and images of a table                                             *)

\* A table with leases left out is in order.
LEMMA SubsetKeeps ==
  ASSUME NEW t, TableOK(t), NEW u \in SUBSET t
  PROVE  TableOK(u)
<1>1. IsFiniteSet(u) /\ Cardinality(u) <= Cardinality(t) /\ Cardinality(u) \in Nat /\ Cardinality(t) \in Nat
  BY FS_Subset, FS_CardinalityType DEF TableOK
<1>2. Cardinality(u) <= Slots
  BY <1>1, SlotsType DEF TableOK
<1>3. u \subseteq Lease /\ Each(u) /\ \A l \in u : Home(l)
  BY DEF TableOK, Each
<1> QED BY <1>1, <1>2, <1>3 DEF TableOK

\* Leases change their time, or become conflict leases.
LEMMA ImageKeeps ==
  ASSUME NEW t, TableOK(t), NEW f \in [t -> Lease],
         \A l \in t : f[l].nip = l.nip /\ (f[l].mac = l.mac \/ (f[l].mac = ZeroMac /\ l.nip \in Pool)),
         NEW u, u = {f[l] : l \in t}
  PROVE  TableOK(u)
<1>1. IsFiniteSet(u) /\ Cardinality(u) <= Cardinality(t)
  <2>1. IsFiniteSet(t)
    BY DEF TableOK
  <2>2. f \in Surjection(t, u)
    BY DEF Surjection
  <2> QED BY <2>1, <2>2, FS_Surjection
<1>2. Cardinality(u) <= Slots
  BY <1>1, SlotsType, FS_CardinalityType DEF TableOK
<1>3. Each(u)
  <2> SUFFICES ASSUME NEW x \in t, NEW y \in t, f[x] # f[y]
               PROVE  f[x].nip # f[y].nip /\ (f[x].mac = f[y].mac => f[x].mac = ZeroMac)
    BY DEF Each
  <2>1. x.nip # y.nip /\ (x.mac = y.mac => x.mac = ZeroMac)
    BY DEF TableOK, Each
  <2> QED BY <2>1
<1>4. \A l \in u : Home(l)
  BY DEF TableOK, Home
<1>5. u \subseteq Lease
  OBVIOUS
<1> QED BY <1>1, <1>2, <1>3, <1>4, <1>5 DEF TableOK

\* A lease with another time.
LEMMA LeaseAgain ==
  ASSUME NEW l \in Lease, NEW time \in -1 .. Longest, NEW k, k = [l EXCEPT !.left = time]
  PROVE  k \in Lease /\ k.mac = l.mac /\ k.nip = l.nip /\ k.left = time
BY DEF Lease

\* A lease, field by field.
LEMMA LeaseType ==
  ASSUME NEW l \in Lease
  PROVE  /\ l.mac \in LeaseMacs /\ l.nip \in Ips /\ l.left \in Int /\ -1 <= l.left /\ l.left <= Longest
         /\ l = [mac |-> l.mac, nip |-> l.nip, left |-> l.left]
BY LongestIs DEF Lease

\* write_leases
LEMMA WrittenKeeps ==
  ASSUME NEW t, TableOK(t)
  PROVE  TableOK(Written(t)) /\ \A l \in Written(t) : l.left >= 0
<1>1. PICK f : f = [l \in t |-> [l EXCEPT !.left = IF l.left < 0 THEN 0 ELSE l.left]]
  OBVIOUS
<1>2. \A l \in t : f[l] \in Lease /\ f[l].mac = l.mac /\ f[l].nip = l.nip /\ f[l].left >= 0
  <2> SUFFICES ASSUME NEW l \in t
               PROVE  f[l] \in Lease /\ f[l].mac = l.mac /\ f[l].nip = l.nip /\ f[l].left >= 0
    OBVIOUS
  <2>1. l \in Lease
    BY DEF TableOK
  <2>2. PICK time : time = IF l.left < 0 THEN 0 ELSE l.left
    OBVIOUS
  <2>3. time \in -1 .. Longest /\ time >= 0
    BY <2>1, <2>2, LeaseType, LongestIs
  <2>4. f[l] = [l EXCEPT !.left = time]
    BY <1>1, <2>2
  <2> QED BY <2>1, <2>3, <2>4, LeaseAgain
<1>3. Written(t) = {f[l] : l \in t} /\ f \in [t -> Lease]
  BY <1>1, <1>2 DEF Written
<1> HIDE DEF TableOK
<1>4. TableOK(Written(t))
  BY <1>2, <1>3, ImageKeeps
<1> QED BY <1>2, <1>3, <1>4

\* Time passes.
LEMMA AgedKeeps ==
  ASSUME NEW t, TableOK(t), NEW floor \in {-1, 0}, \A l \in t : l.left >= floor
  PROVE  /\ TableOK(Aged(t, floor)) /\ \A l \in Aged(t, floor) : l.left >= floor
         /\ \A l \in t : \E k \in Aged(t, floor) :
              k.mac = l.mac /\ k.nip = l.nip /\ (l.left > 0 => k.left = l.left - 1)
<1>1. PICK f : f = [l \in t |-> [l EXCEPT !.left = IF l.left > floor THEN l.left - 1 ELSE floor]]
  OBVIOUS
<1>2. \A l \in t : /\ f[l] \in Lease /\ f[l].mac = l.mac /\ f[l].nip = l.nip /\ f[l].left >= floor
                   /\ l.left > 0 => f[l].left = l.left - 1
  <2> SUFFICES ASSUME NEW l \in t
               PROVE  /\ f[l] \in Lease /\ f[l].mac = l.mac /\ f[l].nip = l.nip /\ f[l].left >= floor
                      /\ l.left > 0 => f[l].left = l.left - 1
    OBVIOUS
  <2>1. l \in Lease
    BY DEF TableOK
  <2>2. PICK time : time = IF l.left > floor THEN l.left - 1 ELSE floor
    OBVIOUS
  <2>3. time \in -1 .. Longest /\ time >= floor /\ (l.left > 0 => time = l.left - 1)
    BY <2>1, <2>2, LeaseType, LongestIs
  <2>4. f[l] = [l EXCEPT !.left = time]
    BY <1>1, <2>2
  <2>5. f[l] \in Lease /\ f[l].mac = l.mac /\ f[l].nip = l.nip /\ f[l].left = time
    BY <2>1, <2>3, <2>4, LeaseAgain
  <2> QED BY <2>3, <2>5
<1>3. Aged(t, floor) = {f[l] : l \in t} /\ f \in [t -> Lease]
  BY <1>1, <1>2 DEF Aged
<1>4. TableOK(Aged(t, floor))
  BY <1>2, <1>3, ImageKeeps
<1> QED BY <1>2, <1>3, <1>4

-----------------------------------------------------------------------------
(* read_leases                                                             *)

\* The only lease of its mac.
Sole(l, t) == \A k \in t : k # l => k.mac # l.mac

\* A restart leaves out what must not be read back, adds nothing, and keeps the
\* leases whose macs are their own: each finds a slot, and none evicts another.
LEMMA ReadKeeps ==
  ASSUME NEW f, TableOK(f), \A l \in f : l.left >= 0, NEW order \in SetToSeqs(f),
         NEW v \in ReadLeases(order)
  PROVE  TableOK(v) /\ \A l \in f : ReadBack(l) /\ Sole(l, f) => l \in v
<1>1. PICK n : n = Cardinality(f)
  OBVIOUS
<1>2. /\ n \in Nat /\ n <= Slots /\ f \subseteq Lease /\ Each(f) /\ IsFiniteSet(f)
      /\ Slots \in Nat
  BY <1>1, FS_CardinalityType, SlotsType DEF TableOK
<1>3. order \in [1 .. n -> f] /\ \A i, j \in 1 .. n : i # j => order[i] # order[j]
  BY <1>1 DEF SetToSeqs
<1> DEFINE Good(i, t) == /\ t \subseteq f /\ TableOK(t)
                         /\ t \subseteq {order[j] : j \in 1 .. i}
                         /\ \A j \in 1 .. i : ReadBack(order[j]) /\ Sole(order[j], f) => order[j] \in t
<1> DEFINE G == [i \in 0 .. n |-> {t \in SUBSET f : Good(i, t)}]
<1>4. {{}} \subseteq G[0]
  <2>1. TableOK({})
    BY SubsetKeeps
  <2>2. Good(0, {})
    BY <2>1
  <2>3. {} \in G[0]
    BY <1>2, <2>2
  <2> QED BY <2>3
<1>5. ASSUME NEW i \in 1 .. n, NEW S \in SUBSET G[i - 1], NEW u \in Step("read", NULL, order[i], S)
      PROVE  u \in G[i]
  <2>1. i - 1 \in 0 .. n /\ i \in 0 .. n /\ i \in Nat /\ i - 1 \in Nat
    BY <1>2
  <2>2. PICK l : l = order[i]
    OBVIOUS
  <2>3. l \in f /\ l \in Lease /\ l.left >= 0
    BY <1>2, <1>3, <2>2
  <2>4. \A t \in S : Good(i - 1, t)
    BY <2>1
  <2>5. \A j \in 1 .. i : j \in 1 .. n /\ (j # i => j \in 1 .. (i - 1))
    BY <1>2
  <2>5a. \A j \in 1 .. (i - 1) : j \in 1 .. i /\ j # i
    BY <2>1
  <2>6. CASE ~ReadBack(l)
    <3>1. u \in S
      BY <2>2, <2>6 DEF Step
    <3>2. Good(i - 1, u)
      BY <2>4, <3>1
    <3>3. Good(i, u)
      BY <2>2, <2>5, <2>5a, <2>6, <3>2
    <3> QED BY <2>1, <3>3
  <2>7. CASE ReadBack(l)
    <3>1. PICK t \in S : u \in AddLease(t, l.mac, l.nip, l.left)
      BY <2>2, <2>7 DEF Step
    <3>2. Good(i - 1, t)
      BY <2>4
    <3>3. l.mac # NULL /\ l.mac \in LeaseMacs /\ l.nip \in Ips /\ l.left \in 0 .. Longest
          /\ l = [mac |-> l.mac, nip |-> l.nip, left |-> l.left]
      <4>1. NULL \notin LeaseMacs
        BY DhcpAssumption DEF LeaseMacs, Macs
      <4> QED BY <2>3, <4>1, LeaseType, LongestIs
    <3>4. TableOK(u)
      <4>1. TableOK(t)
        BY <3>2
      <4>2. l.nip \in Pool /\ StaticIp(l.mac) = NoIp
        BY <2>7 DEF ReadBack
      <4> QED BY <3>1, <3>3, <4>1, <4>2, AddLeaseKeeps
    <3>5. \A k \in u : k = l \/ (k \in t /\ k.nip # l.nip /\ k.mac # l.mac)
      BY <3>1, <3>3, AddLeaseFrom
    <3>6. l \notin t
      BY <1>3, <2>2, <2>5, <2>5a, <3>2
    <3>7. Cardinality(t) < Slots
      <4>1. t \subseteq f /\ t # f
        BY <2>3, <3>2, <3>6
      <4>2. Cardinality(t) \in Nat /\ Cardinality(t) <= n /\ Cardinality(t) # n
        BY <1>1, <1>2, <4>1, FS_Subset, FS_CardinalityType
      <4> QED BY <1>2, <4>2
    <3>8. l \in u
      <4>1. TableOK(t)
        BY <3>2
      <4>2. [mac |-> IF l.mac = NULL THEN ZeroMac ELSE l.mac, nip |-> l.nip, left |-> l.left] \in u
        BY <3>1, <3>7, <4>1, AddLeaseAdds
      <4> QED BY <3>3, <4>2
    <3>9. ASSUME NEW j \in 1 .. (i - 1), ReadBack(order[j]), Sole(order[j], f)
          PROVE  order[j] \in u
      <4>1. PICK k : k = order[j]
        OBVIOUS
      <4>2. k \in t /\ k \in f /\ k # l
        BY <1>3, <2>2, <2>5, <2>5a, <3>2, <3>9, <4>1
      <4>3. k.left >= 0 /\ k.nip # l.nip /\ k.mac # l.mac
        BY <1>2, <2>3, <3>9, <4>1, <4>2 DEF Each, Sole
      <4>4. k.left \in Int
        BY <1>2, <4>2, LeaseType
      <4>5. ~IsExpired(k)
        BY <4>3, <4>4 DEF IsExpired
      <4> QED BY <3>1, <4>1, <4>2, <4>3, <4>5, AddLeaseHolds
    <3>10. u \subseteq f /\ u \subseteq {order[j] : j \in 1 .. i}
      BY <2>2, <2>3, <2>5a, <3>2, <3>5
    <3>11. \A j \in 1 .. i : ReadBack(order[j]) /\ Sole(order[j], f) => order[j] \in u
      BY <2>2, <2>5, <3>8, <3>9
    <3>12. Good(i, u)
      BY <3>4, <3>10, <3>11
    <3> QED BY <2>1, <3>12
  <2> QED BY <2>6, <2>7
<1>6. v \in G[n]
  <2>1. \A i \in 1 .. n : \A S \in SUBSET G[i - 1] : Step("read", NULL, order[i], S) \subseteq G[i]
    BY <1>5
  <2>2. DOMAIN order = 1 .. n
    BY <1>3
  <2> HIDE DEF G
  <2>3. ReadLeases(order) \subseteq G[n]
    BY <1>2, <1>4, <2>1, <2>2, ReadLeasesIn
  <2> QED BY <2>3
<1>7. Good(n, v)
  BY <1>2, <1>6
<1>8. \A l \in f : \E j \in 1 .. n : order[j] = l
  <2>1. IsFiniteSet(1 .. n) /\ Cardinality(1 .. n) = n
    BY <1>2, FS_Interval
  <2>2. order \in Injection(1 .. n, f)
    BY <1>3 DEF Injection, IsInjective
  <2>3. order \in Surjection(1 .. n, f)
    BY <1>1, <1>2, <2>1, <2>2, FS_Injection
  <2> QED BY <2>3 DEF Surjection
<1> QED BY <1>7, <1>8
-----------------------------------------------------------------------------
(* Packets                                                                 *)

IpsOrNone == Ips \cup {NoIp}

Requests == [type : {"DISCOVER", "REQUEST", "DECLINE", "RELEASE", "INFORM"}, mac : Macs, xid : Xids,
             req : IpsOrNone, ci : IpsOrNone, sid : BOOLEAN, ask : Nat]
Replies  == [type : {"OFFER", "ACK", "NAK"}, xid : Xids, yi : IpsOrNone, time : 0 .. Longest]
Grants   == [nip : IpsOrNone, left : -1 .. Longest]

\* A static address is an address, or none.
LEMMA StaticIpType == \A mac : StaticIp(mac) \in IpsOrNone
BY DEF StaticIp, IpsOrNone, Ips

\* A packet, field by field.
LEMMA PacketType ==
  ASSUME NEW type \in {"DISCOVER", "REQUEST", "DECLINE", "RELEASE", "INFORM"}, NEW mac \in Macs,
         NEW xid \in Xids, NEW req \in IpsOrNone, NEW ci \in IpsOrNone, NEW sid \in BOOLEAN, NEW ask \in Nat
  PROVE  /\ Packet(type, mac, xid, req, ci, sid, ask) \in Requests
         /\ Packet(type, mac, xid, req, ci, sid, ask).mac = mac
BY DEF Packet, Requests

\* What the other hosts send is well formed.
LEMMA OtherPacketsType ==
  ASSUME NEW m \in OtherPackets
  PROVE  m \in Requests /\ m.mac \in Others
<1> DEFINE D(o) == {Packet("DISCOVER", o, 0, ip, NoIp, FALSE, 0) : ip \in Pool \cup {NoIp}}
<1> DEFINE S(o) == {Packet("REQUEST", o, 0, ip, NoIp, sid, ask) :
                      ip \in Pool \cup {StaticIp(o)}, sid \in BOOLEAN, ask \in Asks}
<1> DEFINE N(o) == {Packet("REQUEST", o, 0, NoIp, ip, FALSE, ask) : ip \in Pool \cup {NoIp}, ask \in Asks}
<1> DEFINE C(o) == {Packet("DECLINE", o, 0, ip, NoIp, sid, 0) : ip \in Pool, sid \in BOOLEAN}
<1> DEFINE L(o) == {Packet("RELEASE", o, 0, NoIp, ip, sid, 0) : ip \in Pool, sid \in BOOLEAN}
<1> DEFINE I(o) == {Packet("INFORM", o, 0, NoIp, NoIp, FALSE, 0)}
<1>1. OtherPackets = UNION {D(o) \cup S(o) \cup N(o) \cup C(o) \cup L(o) \cup I(o) : o \in Others}
  BY SMT DEF OtherPackets
<1> HIDE DEF D, S, N, C, L, I
<1>2. PICK o \in Others : m \in D(o) \cup S(o) \cup N(o) \cup C(o) \cup L(o) \cup I(o)
  BY <1>1
<1>3. /\ o \in Macs /\ 0 \in Xids /\ Pool \subseteq IpsOrNone /\ NoIp \in IpsOrNone
      /\ StaticIp(o) \in IpsOrNone /\ Asks \subseteq Nat /\ 0 \in Nat
  BY StaticIpType, ZeroNotInPool, DhcpAssumption DEF Macs, Xids, IpsOrNone
<1>4. PICK no \in BOOLEAN : no = FALSE
  OBVIOUS
<1>5. CASE m \in D(o)
  <2>1. D(o) = {Packet("DISCOVER", o, 0, ip, NoIp, no, 0) : ip \in Pool \cup {NoIp}}
    BY <1>4, Zenon DEF D
  <2>2. PICK ip \in Pool \cup {NoIp} : m = Packet("DISCOVER", o, 0, ip, NoIp, no, 0)
    BY <1>5, <2>1
  <2> QED BY <1>3, <2>2, PacketType
<1>6. CASE m \in S(o)
  BY <1>3, <1>6, PacketType DEF S
<1>7. CASE m \in N(o)
  <2>1. PICK ip \in Pool \cup {NoIp}, ask \in Asks : m = Packet("REQUEST", o, 0, NoIp, ip, FALSE, ask)
    BY <1>7, SMT DEF N, Packet
  <2>2. m = Packet("REQUEST", o, 0, NoIp, ip, no, ask)
    BY <1>4, <2>1, Zenon
  <2> QED BY <1>3, <2>2, PacketType
<1>8. CASE m \in C(o)
  BY <1>3, <1>8, PacketType DEF C
<1>9. CASE m \in L(o)
  BY <1>3, <1>9, PacketType DEF L
<1>10. CASE m \in I(o)
  <2>1. I(o) = {Packet("INFORM", o, 0, NoIp, NoIp, no, 0)}
    BY <1>4, Zenon DEF I
  <2>2. m = Packet("INFORM", o, 0, NoIp, NoIp, no, 0)
    BY <1>10, <2>1
  <2> QED BY <1>3, <2>2, PacketType
<1> QED BY <1>2, <1>5, <1>6, <1>7, <1>8, <1>9, <1>10

-----------------------------------------------------------------------------
(* What a packet does to the table                                         *)

\* The leases that have not expired, of addresses with one claimant, are kept:
\* those of other macs as they are, those of mac at their address.
Keeps(t, u, mac) ==
  \A l \in t : ~IsExpired(l) /\ ~Contested(l.nip) =>
    /\ l.mac # mac => l \in u
    /\ l.mac = mac => \E k \in u : k.mac = mac /\ k.nip = l.nip

\* The zero mac and the absent one are nobody's.
LEMMA MacsAre ==
  /\ NULL \notin LeaseMacs /\ ZeroMac \notin Macs /\ NULL \notin Macs
  /\ Macs \subseteq LeaseMacs /\ ZeroMac \in LeaseMacs
BY DhcpAssumption DEF LeaseMacs, Macs

\* The address a DISCOVER gets from the table is the host's own.
LEMMA OwnIpsAre ==
  ASSUME TableOK(table), NEW m \in Requests, NEW ip \in OwnIps(m)
  PROVE  /\ ip \in Ips
         /\ StaticIp(m.mac) # NoIp => ip = StaticIp(m.mac)
         /\ StaticIp(m.mac) = NoIp => ip \in Pool /\ \E l \in table : l.mac = m.mac /\ l.nip = ip
<1>1. m.mac \in Macs
  BY DEF Requests
<1>2. CASE StaticIp(m.mac) # NoIp
  BY <1>2, StaticIpType DEF OwnIps, IpsOrNone
<1>3. CASE StaticIp(m.mac) = NoIp
  <2>1. PICK l \in table : l.mac = m.mac /\ l.nip = ip
    BY <1>3 DEF OwnIps, LeaseByMac
  <2>2. Home(l)
    BY DEF TableOK
  <2>3. ip \in Pool
    BY <1>1, <1>3, <2>1, <2>2, MacsAre DEF Home
  <2> QED BY <1>3, <2>1, <2>3, ZeroNotInPool
<1> QED BY <1>2, <1>3

\* send_offer, up to add_lease
LEMMA OfferKeeps ==
  ASSUME TableOK(table), NEW m \in Requests, StaticIp(m.mac) = NoIp, NEW o \in OfferChoices(m)
  PROVE  /\ TableOK(o.t) /\ o.nip \in Pool \cup {NoIp}
         /\ \A l \in table : ~IsExpired(l) => l \in o.t
         /\ \A l \in table : ~IsExpired(l) => (l.nip = o.nip <=> l.mac = m.mac)
<1>0. m.mac \in Macs /\ m.mac # ZeroMac
  BY MacsAre DEF Requests
<1>1. CASE OwnIps(m) # {}
  <2>1. PICK ip \in OwnIps(m) : o = [nip |-> ip, t |-> table]
    BY <1>1 DEF OfferChoices
  <2>2. o.nip = ip /\ o.t = table
    BY <2>1
  <2>3. PICK k \in table : k.mac = m.mac /\ k.nip = ip
    BY OwnIpsAre
  <2>4. \A l \in table : l.nip = ip <=> l.mac = m.mac
    BY <1>0, <2>3 DEF TableOK, Each
  <2>5. ip \in Pool
    BY OwnIpsAre
  <2> QED BY <2>2, <2>4, <2>5
<1>2. CASE OwnIps(m) = {}
  <2>1. \A l \in table : l.mac # m.mac
    BY <1>2 DEF OwnIps, LeaseByMac
  <2>2. CASE m.req \in Pool /\ \A l \in LeaseByNip(table, m.req) : IsExpired(l)
    <3>1. o = [nip |-> m.req, t |-> table]
      BY <1>2, <2>2 DEF OfferChoices
    <3>2. o.nip = m.req /\ o.t = table
      BY <3>1
    <3>3. \A l \in table : ~IsExpired(l) => l.nip # m.req
      BY <2>2 DEF LeaseByNip
    <3> QED BY <2>1, <2>2, <3>2, <3>3
  <2>3. CASE ~(m.req \in Pool /\ \A l \in LeaseByNip(table, m.req) : IsExpired(l))
    <3>1. PICK first \in Pool, inUse \in [Pool -> BOOLEAN] :
            \E s \in FindFree(table, first, inUse) : o = [nip |-> s.nip, t |-> s.t]
      BY <1>2, <2>3 DEF OfferChoices
    <3>2. PICK s \in FindFree(table, first, inUse) : o = [nip |-> s.nip, t |-> s.t]
      BY <3>1
    <3>3. o.nip = s.nip /\ o.t = s.t
      BY <3>2
    <3>4. ScanOK(s, table)
      BY FindFreeKeeps
    <3>5. TableOK(s.t) /\ s.nip \in Pool \cup {NoIp}
      BY <3>4 DEF ScanOK, Scan
    <3>6. \A l \in table : ~IsExpired(l) => l \in s.t
      BY <3>4 DEF ScanOK
    <3>7. \A l \in table : ~IsExpired(l) => l.nip # s.nip
      <4>1. CASE s.nip # NoIp
        BY <3>4, <3>6, <4>1 DEF ScanOK
      <4>2. CASE s.nip = NoIp
        <5>1. \A l \in table : l.mac # ZeroMac /\ StaticIp(l.mac) # NoIp => l.nip # NoIp
          BY DEF TableOK, Home
        <5>2. \A l \in table : ~(l.mac # ZeroMac /\ StaticIp(l.mac) # NoIp) => l.nip # NoIp
          BY ZeroNotInPool DEF TableOK, Home
        <5> QED BY <4>2, <5>1, <5>2
      <4> QED BY <4>1, <4>2
    <3> QED BY <2>1, <3>3, <3>5, <3>6, <3>7
  <2> QED BY <2>2, <2>3
<1> QED BY <1>1, <1>2

\* send_offer keeps the table in order, and every live lease of others.
LEMMA DiscoverKeeps ==
  ASSUME TableOK(table), NEW m \in Requests, Discover(m)
  PROVE  TableOK(table') /\ Keeps(table, table', m.mac)
<1>0. m.mac \in Macs /\ m.mac # NULL /\ m.mac \in LeaseMacs
  BY MacsAre DEF Requests
<1>1. CASE StaticIp(m.mac) # NoIp
  <2>1. table' = table
    BY <1>1 DEF Discover
  <2> QED BY <2>1 DEF Keeps
<1>2. CASE StaticIp(m.mac) = NoIp
  <2>1. PICK o \in OfferChoices(m) :
          \/ o.nip = NoIp /\ table' = o.t
          \/ o.nip # NoIp /\ table' \in AddLease(o.t, m.mac, o.nip, OfferTime)
    BY <1>2 DEF Discover
  <2>2. /\ TableOK(o.t) /\ o.nip \in Pool \cup {NoIp}
        /\ \A l \in table : ~IsExpired(l) => l \in o.t
        /\ \A l \in table : ~IsExpired(l) => (l.nip = o.nip <=> l.mac = m.mac)
    BY <1>2, OfferKeeps
  <2>3. CASE o.nip = NoIp /\ table' = o.t
    BY <2>2, <2>3 DEF Keeps
  <2>4. CASE o.nip # NoIp /\ table' \in AddLease(o.t, m.mac, o.nip, OfferTime)
    <3>1. TableOK(table')
      <4>1. OfferTime \in 0 .. Longest
        BY LongestIs
      <4>2. o.nip \in Pool /\ o.nip \in Ips
        BY <2>2, <2>4, ZeroNotInPool
      <4> QED BY <1>0, <1>2, <2>2, <2>4, <4>1, <4>2, AddLeaseKeeps
    <3>2. ASSUME NEW l \in table, ~IsExpired(l), l.mac # m.mac
          PROVE  l \in table'
      <4>1. l \in o.t /\ l.nip # o.nip
        BY <2>2, <3>2
      <4> QED BY <2>4, <3>2, <4>1, AddLeaseHolds
    <3>3. ASSUME NEW l \in table, ~IsExpired(l), l.mac = m.mac
          PROVE  \E k \in table' : k.mac = m.mac /\ k.nip = l.nip
      <4>1. l \in o.t /\ l.nip = o.nip
        BY <2>2, <3>3
      <4>2. [mac |-> IF m.mac = NULL THEN ZeroMac ELSE m.mac, nip |-> o.nip, left |-> OfferTime] \in table'
        BY <2>2, <2>4, <4>1, AddLeaseAdds
      <4> QED BY <1>0, <4>1, <4>2
    <3> QED BY <3>1, <3>2, <3>3 DEF Keeps
  <2> QED BY <2>1, <2>3, <2>4
<1> QED BY <1>1, <1>2

\* So does the add_lease of send_ACK, and the new lease is in the table.
LEMMA AckKeeps ==
  ASSUME TableOK(table), NEW m \in Requests, Acked(m),
         NEW u \in AddLease(table, m.mac, WantedIp(m), LeaseTime(m.ask))
  PROVE  /\ TableOK(u)
         /\ Keeps(table, u, m.mac)
         /\ StaticIp(m.mac) = NoIp =>
              /\ WantedIp(m) \in Pool
              /\ [mac |-> m.mac, nip |-> WantedIp(m), left |-> LeaseTime(m.ask)] \in u
<1>0. m.mac \in Macs /\ m.mac # NULL /\ m.mac # ZeroMac /\ m.mac \in LeaseMacs /\ m.ask \in Nat
  BY MacsAre DEF Requests
<1>1. PICK ip : ip = WantedIp(m)
  OBVIOUS
<1>2. PICK time : time = LeaseTime(m.ask)
  OBVIOUS
<1>3. time \in 0 .. Longest
  BY <1>0, <1>2, LeaseTimeType
<1>4. ip # NoIp /\ ip \in OwnIps(m)
  BY <1>1 DEF Acked
<1>5. /\ ip \in Ips
      /\ StaticIp(m.mac) # NoIp => ip = StaticIp(m.mac)
      /\ StaticIp(m.mac) = NoIp => ip \in Pool /\ \E l \in table : l.mac = m.mac /\ l.nip = ip
  BY <1>4, OwnIpsAre
<1>6. u \in AddLease(table, m.mac, ip, time)
  BY <1>1, <1>2
<1>7. TableOK(u)
  BY <1>0, <1>3, <1>5, <1>6, AddLeaseKeeps
<1>8. ASSUME NEW l \in table, l.nip = ip \/ l.mac = m.mac
      PROVE  [mac |-> m.mac, nip |-> ip, left |-> time] \in u
  <2>1. [mac |-> IF m.mac = NULL THEN ZeroMac ELSE m.mac, nip |-> ip, left |-> time] \in u
    BY <1>0, <1>6, <1>8, AddLeaseAdds
  <2> QED BY <1>0, <2>1
<1>9. ASSUME NEW l \in table, ~Contested(l.nip)
      PROVE  l.nip = ip <=> (l.mac = m.mac)
  <2>1. Home(l)
    BY DEF TableOK
  <2>2. CASE StaticIp(m.mac) # NoIp
    <3>1. ip = StaticIp(m.mac) /\ m.mac \in DOMAIN Static /\ ip = Static[m.mac]
      BY <1>5, <2>2 DEF StaticIp
    <3>2. l.mac = m.mac => l.nip = ip
      BY <1>0, <2>1, <2>2, <3>1 DEF Home
    <3>3. ASSUME l.nip = ip, l.mac # m.mac PROVE FALSE
      <4>1. l.nip \in Pool \/ (l.mac \in DOMAIN Static /\ l.nip = Static[l.mac])
        BY <2>1 DEF Home, StaticIp
      <4> QED BY <1>9, <3>1, <3>3, <4>1 DEF Contested
    <3> QED BY <3>2, <3>3
  <2>3. CASE StaticIp(m.mac) = NoIp
    <3>1. PICK k \in table : k.mac = m.mac /\ k.nip = ip
      BY <1>5, <2>3
    <3> QED BY <1>0, <3>1 DEF TableOK, Each
  <2> QED BY <2>2, <2>3
<1>10. Keeps(table, u, m.mac)
  <2>1. ASSUME NEW l \in table, ~IsExpired(l), ~Contested(l.nip), l.mac # m.mac
        PROVE  l \in u
    <3>1. l.nip # ip
      BY <1>9, <2>1
    <3> QED BY <1>6, <2>1, <3>1, AddLeaseHolds
  <2>2. ASSUME NEW l \in table, ~Contested(l.nip), l.mac = m.mac
        PROVE  \E k \in u : k.mac = m.mac /\ k.nip = l.nip
    <3>1. l.nip = ip
      BY <1>9, <2>2
    <3>2. [mac |-> m.mac, nip |-> ip, left |-> time] \in u
      BY <1>8, <2>2
    <3> QED BY <3>1, <3>2
  <2> QED BY <2>1, <2>2 DEF Keeps
<1> QED BY <1>1, <1>2, <1>5, <1>7, <1>8, <1>10

\* DECLINE turns the lease of its sender, and no other, into a conflict lease.
LEMMA DeclineKeeps ==
  ASSUME TableOK(table), NEW m \in Requests, Decline(m)
  PROVE  /\ TableOK(table')
         /\ \A l \in table : \E k \in table' : k.nip = l.nip /\ k.mac \in {l.mac, ZeroMac}
         /\ \A l \in table : l.mac # m.mac \/ l.nip # m.req => l \in table'
<1> DEFINE Declined(l) == l.mac = m.mac /\ l.nip = m.req /\ m.sid /\ m.req # NoIp /\ StaticIp(m.mac) = NoIp
<1>0. m.mac \in Macs /\ m.mac # ZeroMac
  BY MacsAre DEF Requests
<1>1. PICK f : f = [l \in table |->
                      IF Declined(l) THEN [mac |-> ZeroMac, nip |-> l.nip, left |-> DeclineTime] ELSE l]
  OBVIOUS
<1>2. ASSUME NEW l \in table
      PROVE  /\ f[l] \in Lease /\ f[l].nip = l.nip
             /\ f[l] = l \/ (f[l].mac = ZeroMac /\ l.nip \in Pool)
             /\ l.mac # m.mac \/ l.nip # m.req => f[l] = l
  <2>1. l \in Lease /\ Home(l)
    BY DEF TableOK
  <2>2. CASE Declined(l)
    <3>1. f[l] = [mac |-> ZeroMac, nip |-> l.nip, left |-> DeclineTime]
      BY <1>1, <2>2
    <3>2. DeclineTime \in -1 .. Longest /\ l.nip \in Ips /\ ZeroMac \in LeaseMacs
      BY <2>1, LongestIs, LeaseType, MacsAre
    <3>3. l.nip \in Pool
      BY <1>0, <2>1, <2>2 DEF Home
    <3> QED BY <2>2, <3>1, <3>2, <3>3 DEF Lease
  <2>3. CASE ~Declined(l)
    <3>1. f[l] = l
      BY <1>1, <2>3
    <3> QED BY <2>1, <3>1
  <2> QED BY <2>2, <2>3
<1>3. table' = {f[l] : l \in table} /\ f \in [table -> Lease]
  BY <1>1, <1>2 DEF Decline
<1>4. \A l \in table : f[l].nip = l.nip /\ (f[l].mac = l.mac \/ (f[l].mac = ZeroMac /\ l.nip \in Pool))
  BY <1>2
<1>5. TableOK(table')
  BY <1>3, <1>4, ImageKeeps
<1> QED BY <1>2, <1>3, <1>5

\* RELEASE ends the lease of its sender, and no other.
LEMMA ReleaseKeeps ==
  ASSUME TableOK(table), NEW m \in Requests, Release(m)
  PROVE  /\ TableOK(table')
         /\ \A l \in table : \E k \in table' : k.nip = l.nip /\ k.mac = l.mac
         /\ \A l \in table : l.mac # m.mac \/ l.nip # m.ci => l \in table'
<1> DEFINE Freed(l) == l.mac = m.mac /\ l.nip = m.ci /\ m.sid /\ StaticIp(m.mac) = NoIp
<1>1. PICK f : f = [l \in table |-> IF Freed(l) THEN [l EXCEPT !.left = 0] ELSE l]
  OBVIOUS
<1>2. ASSUME NEW l \in table
      PROVE  /\ f[l] \in Lease /\ f[l].nip = l.nip /\ f[l].mac = l.mac
             /\ l.mac # m.mac \/ l.nip # m.ci => f[l] = l
  <2>1. l \in Lease /\ 0 \in -1 .. Longest
    BY LongestIs DEF TableOK
  <2>2. CASE Freed(l)
    <3>1. f[l] = [l EXCEPT !.left = 0]
      BY <1>1, <2>2
    <3> QED BY <2>1, <2>2, <3>1, LeaseAgain
  <2>3. CASE ~Freed(l)
    BY <1>1, <2>1, <2>3
  <2> QED BY <2>2, <2>3
<1>3. table' = {f[l] : l \in table} /\ f \in [table -> Lease]
  BY <1>1, <1>2 DEF Release
<1>4. TableOK(table')
  BY <1>2, <1>3, ImageKeeps
<1> QED BY <1>2, <1>3, <1>4
-----------------------------------------------------------------------------
(* A client                                                                *)

Nums       == 0 .. 3 \cup 0 .. DiscoverRetries
ClientRecs == [st : States, num : Nums, xid : Xids, req : IpsOrNone, timeout : Int,
               left : 0 .. Longest, cfg : IpsOrNone, open : BOOLEAN]

\* ConfiguredWhileHeld and Listens, for one client that does not probe.  One that
\* has read an offer has its socket open before it sends the first REQUEST.
Fits(k)  == /\ k.st \in Holding => k.cfg = k.req
            /\ k.st \notin Holding \cup {"PROBING", "QUIT"} => k.cfg = NoIp
Hears(k) == /\ k.st = "REQUESTING" => k.open
            /\ k.st \in {"INIT_SELECTING"} \cup Requested /\ k.num > 0 => k.open
ClientOK(k) == k \in ClientRecs /\ Fits(k) /\ Hears(k)

\* A client whose lease runs.
Leased(k) == k \in ClientRecs /\ k.st \in Holding /\ k.cfg = k.req

FromClients == {p \in Requests : p.mac \in Clients}

Moved(c) == \E k : ClientOK(k) /\ client' = [client EXCEPT ![c] = k]
Sent == inbox' = inbox \/ \E p \in FromClients : inbox' = Append(inbox, p)

\* The times and counters of udhcpc, as numbers.
LEMMA ClientNumbers ==
  /\ Low \in Nat /\ Low <= Longest /\ Longest \in Nat
  /\ DiscoverTimeout \in Nat /\ TryAgain \in Nat /\ DiscoverRetries \in Nat
  /\ 0 \in Nums /\ 1 \in Nums /\ Forever \in Int /\ NoIp \in IpsOrNone
  /\ DiscoverTimeout \in Int /\ TryAgain \in Int /\ 0 \in 0 .. Longest
BY LongestIs, DhcpAssumption DEF Forever, IpsOrNone, Nums

\* A new xid is an xid.
LEMMA NextXidType == ASSUME NEW xid \in Xids PROVE NextXid(xid) \in Xids
BY DEF NextXid, Xids

\* What a client sends is well formed.
LEMMA SendIs ==
  ASSUME NEW type \in {"DISCOVER", "REQUEST", "DECLINE", "RELEASE"}, NEW c \in Clients, NEW xid \in Xids,
         NEW req \in IpsOrNone, NEW ci \in IpsOrNone, NEW sid \in BOOLEAN,
         Send(Packet(type, c, xid, req, ci, sid, 0))
  PROVE  Sent
<1>1. PICK p : p = Packet(type, c, xid, req, ci, sid, 0)
  OBVIOUS
<1>2. c \in Macs
  BY DEF Macs
<1>3. p \in FromClients
  BY <1>1, <1>2, PacketType DEF FromClients
<1>4. inbox' = inbox \/ inbox' = Append(inbox, p)
  BY <1>1 DEF Send
<1> QED BY <1>3, <1>4 DEF Sent

\* So is what it sends in a renewal.
LEMMA RenewPacketSent ==
  ASSUME NEW c \in Clients, NEW k \in ClientRecs, Send(RenewPacket(c, k))
  PROVE  Sent
<1>1. PICK no \in BOOLEAN : no = FALSE
  OBVIOUS
<1>2. Send(Packet("REQUEST", c, k.xid, NoIp, k.req, no, 0))
  BY <1>1, Zenon DEF RenewPacket
<1>3. k.xid \in Xids /\ k.req \in IpsOrNone /\ NoIp \in IpsOrNone
  BY ClientNumbers DEF ClientRecs
<1> QED BY <1>2, <1>3, SendIs

\* client' from the record that Becomes takes.
LEMMA BecomesIs ==
  ASSUME NEW c, NEW k, ClientOK(k), Becomes(c, k)
  PROVE  Moved(c)
BY DEF Becomes, Moved

\* Back to INIT_SELECTING, without an address.
LEMMA ReinitOK ==
  ASSUME NEW k \in ClientRecs, NEW timeout \in Int, NEW j, j = Reinit(k, timeout), k.cfg = NoIp
  PROVE  ClientOK(j)
<1>0. PICK no \in BOOLEAN : no = FALSE
  OBVIOUS
<1>a. j = [k EXCEPT !.st = "INIT_SELECTING", !.num = 0, !.timeout = timeout, !.left = 0, !.open = no]
  BY <1>0, Zenon DEF Reinit
<1>1. /\ j \in ClientRecs /\ j.st = "INIT_SELECTING" /\ j.num = 0 /\ j.cfg = NoIp
  BY <1>a, ClientNumbers DEF ClientRecs, States
<1> QED BY <1>1 DEF ClientOK, Fits, Hears, Holding, Requested

\* The script takes the address off the interface.
LEMMA DeconfiguredOK ==
  ASSUME NEW k \in ClientRecs, NEW j, j = Deconfigured(k)
  PROVE  j \in ClientRecs /\ j.cfg = NoIp
BY ClientNumbers DEF Deconfigured, ClientRecs

\* A client that gives its lease up has no address and starts again.
LEMMA GivesUpLease ==
  ASSUME NEW k \in ClientRecs, NEW timeout \in Int
  PROVE  ClientOK(Reinit(Deconfigured(k), timeout))
<1>1. PICK d : d = Deconfigured(k)
  OBVIOUS
<1>2. PICK j : j = Reinit(d, timeout)
  OBVIOUS
<1>3. d \in ClientRecs /\ d.cfg = NoIp
  BY <1>1, DeconfiguredOK
<1>4. ClientOK(j)
  BY <1>2, <1>3, ReinitOK
<1> QED BY <1>1, <1>2, <1>4

\* A rebinding keeps the address; a lease that is over is given up.
LEMMA RebindOK ==
  ASSUME NEW c \in Clients, NEW k, Leased(k), Rebind(c, k)
  PROVE  Moved(c) /\ Sent
<1>0. k \in ClientRecs /\ k.st \in Holding /\ k.cfg = k.req
  BY DEF Leased
<1>1. CASE k.left > 0 /\ k.num < 3
  <2>1. PICK j : j = [k EXCEPT !.st = "REBINDING", !.open = TRUE, !.num = @ + 1, !.timeout = DiscoverTimeout]
    OBVIOUS
  <2>2. k.num + 1 \in Nums
    BY <1>0, <1>1, ClientNumbers DEF ClientRecs, Nums
  <2>a. PICK yes \in BOOLEAN : yes = TRUE
    OBVIOUS
  <2>b. j = [k EXCEPT !.st = "REBINDING", !.open = yes, !.num = k.num + 1, !.timeout = DiscoverTimeout]
    BY <2>1, <2>a, Zenon
  <2>3. j \in ClientRecs /\ j.st = "REBINDING" /\ j.open = yes /\ j.cfg = k.cfg /\ j.req = k.req
    BY <1>0, <2>b, <2>2, ClientNumbers DEF ClientRecs, States
  <2>4. ClientOK(j)
    BY <1>0, <2>a, <2>3 DEF ClientOK, Fits, Hears, Holding
  <2>5. Becomes(c, j) /\ Send(RenewPacket(c, k))
    BY <1>1, <2>1 DEF Rebind
  <2> QED BY <1>0, <2>4, <2>5, BecomesIs, RenewPacketSent
<1>2. CASE ~(k.left > 0 /\ k.num < 3)
  <2>1. PICK j : j = Reinit(Deconfigured(k), 0)
    OBVIOUS
  <2>2. ClientOK(j)
    BY <1>0, <2>1, GivesUpLease
  <2>3. Becomes(c, j) /\ inbox' = inbox
    BY <1>2, <2>1 DEF Rebind
  <2> QED BY <2>2, <2>3, BecomesIs DEF Sent
<1> QED BY <1>1, <1>2

\* Half of what is left is waited for, with the address kept.
LEMMA BoundOK ==
  ASSUME NEW k \in ClientRecs, NEW j, j = BoundForHalfLease(k)
  PROVE  j \in ClientRecs /\ j.st = "BOUND" /\ j.cfg = k.cfg /\ j.req = k.req /\ j.num = 0
<1>1. k.left \div 2 \in Int
  BY ClientNumbers DEF ClientRecs
<1> QED BY <1>1, ClientNumbers DEF BoundForHalfLease, ClientRecs, States

\* A renewal without an answer is repeated, or becomes a rebinding.
LEMMA RenewUnansweredOK ==
  ASSUME NEW c \in Clients, NEW k, Leased(k), RenewUnanswered(c, k)
  PROVE  Moved(c) /\ Sent
<1>0. k \in ClientRecs /\ k.st \in Holding /\ k.cfg = k.req
  BY DEF Leased
<1>1. CASE k.left > Low
  <2>1. PICK j : j = BoundForHalfLease(k)
    OBVIOUS
  <2>2. j \in ClientRecs /\ j.st = "BOUND" /\ j.cfg = j.req
    BY <1>0, <2>1, BoundOK
  <2>3. ClientOK(j)
    BY <2>2 DEF ClientOK, Fits, Hears, Holding, Requested
  <2>4. Becomes(c, j) /\ inbox' = inbox
    BY <1>1, <2>1 DEF RenewUnanswered
  <2> QED BY <2>3, <2>4, BecomesIs DEF Sent
<1>2. CASE ~(k.left > Low)
  <2>1. PICK j : j = [k EXCEPT !.num = 0]
    OBVIOUS
  <2>2. Leased(j)
    BY <1>0, <2>1, ClientNumbers DEF Leased, ClientRecs
  <2>3. Rebind(c, j)
    BY <1>2, <2>1 DEF RenewUnanswered
  <2> QED BY <2>2, <2>3, RebindOK
<1> QED BY <1>1, <1>2

\* A renewal keeps the address.
LEMMA RenewOK ==
  ASSUME NEW c \in Clients, NEW k, Leased(k), Renew(c, k)
  PROVE  Moved(c) /\ Sent
<1>0. k \in ClientRecs /\ k.st \in Holding /\ k.cfg = k.req
  BY DEF Leased
<1>1. CASE Send(RenewPacket(c, k))
           /\ Becomes(c, [k EXCEPT !.open = TRUE, !.num = 1, !.timeout = DiscoverTimeout])
  <2>1. PICK j : j = [k EXCEPT !.open = TRUE, !.num = 1, !.timeout = DiscoverTimeout]
    OBVIOUS
  <2>a. PICK yes \in BOOLEAN : yes = TRUE
    OBVIOUS
  <2>b. j = [k EXCEPT !.open = yes, !.num = 1, !.timeout = DiscoverTimeout]
    BY <2>1, <2>a, Zenon
  <2>2. j \in ClientRecs /\ j.st = k.st /\ j.cfg = k.cfg /\ j.req = k.req /\ j.open = yes
    BY <1>0, <2>b, ClientNumbers DEF ClientRecs
  <2>3. ClientOK(j)
    BY <1>0, <2>a, <2>2 DEF ClientOK, Fits, Hears
  <2>4. Becomes(c, j)
    BY <1>1, <2>1
  <2> QED BY <1>0, <1>1, <2>3, <2>4, BecomesIs, RenewPacketSent
<1>2. CASE RenewUnanswered(c, k)
  BY <1>2, RenewUnansweredOK
<1> QED BY <1>1, <1>2 DEF Renew

\* perform_release
LEMMA SendReleaseOK ==
  ASSUME NEW c \in Clients, NEW k \in ClientRecs, SendRelease(c, k)
  PROVE  Sent
<1>1. CASE k.st \in Holding
  <2>1. PICK yes \in BOOLEAN : yes = TRUE
    OBVIOUS
  <2>2. Send(Packet("RELEASE", c, NextXid(k.xid), NoIp, k.req, yes, 0))
    BY <1>1, <2>1, Zenon DEF SendRelease
  <2>3. NextXid(k.xid) \in Xids /\ k.req \in IpsOrNone /\ NoIp \in IpsOrNone
    BY ClientNumbers, NextXidType DEF ClientRecs
  <2> QED BY <2>2, <2>3, SendIs
<1>2. CASE k.st \notin Holding
  BY <1>2 DEF SendRelease, Sent
<1> QED BY <1>1, <1>2

\* A released client has no address.
LEMMA ReleasedOK ==
  ASSUME NEW k \in ClientRecs, NEW j, j = Released(k)
  PROVE  j \in ClientRecs /\ j.st = "RELEASED" /\ j.cfg = NoIp
<1>1. PICK x : x = IF k.st \in Holding THEN NextXid(k.xid) ELSE k.xid
  OBVIOUS
<1>2. x \in Xids
  BY <1>1, NextXidType DEF ClientRecs
<1>0. PICK no \in BOOLEAN : no = FALSE
  OBVIOUS
<1>3. j = [k EXCEPT !.st = "RELEASED", !.cfg = NoIp, !.open = no, !.timeout = Forever,
                    !.num = 0, !.left = 0, !.xid = x]
  BY <1>0, <1>1, Zenon DEF Released
<1>4. "RELEASED" \in States
  BY DEF States
<1> QED BY <1>2, <1>3, <1>4, ClientNumbers, ZenonT(40) DEF ClientRecs

-----------------------------------------------------------------------------
(* The inductive invariant                                                 *)

Tables ==
  /\ up \in BOOLEAN
  /\ TableOK(table)
  /\ TableOK(file) /\ \A l \in file : l.left >= 0
  /\ forgot \subseteq Macs

Network ==
  /\ inbox \in Seq(FromClients)
  /\ mail \in [Clients -> Seq(Replies)]

Hosts ==
  /\ client \in [Clients -> ClientRecs]
  /\ \A c \in Clients : ClientOK(client[c])
  /\ granted \in [Others -> Grants]
  /\ signals \in 0 .. MaxSignals

IInv == Tables /\ Network /\ Hosts

-----------------------------------------------------------------------------
(* The steps of a client                                                   *)

Reading(c) == mail[c] # <<>> /\ mail' = [mail EXCEPT ![c] = Tail(@)]

\* What every step of client c leaves of the rest.
Stepped(c) == /\ Moved(c) /\ Sent /\ UNCHANGED server
              /\ mail' = mail \/ Reading(c)
              /\ signals' \in 0 .. MaxSignals

\* The client of a step is well formed, and configured if it holds a lease.
LEMMA DueIs ==
  ASSUME Hosts, NEW c \in Clients, NEW k, k = client[c]
  PROVE  /\ k \in ClientRecs /\ ClientOK(k)
         /\ k.st \in Holding => Leased(k)
BY DEF Hosts, ClientOK, Fits, Leased, Holding

\* The bound on signals is a number.
LEMMA SignalsType == MaxSignals \in Nat
BY DhcpAssumption

\* INIT_SELECTING: a DISCOVER is sent.
LEMMA SendDiscoverOK ==
  ASSUME Hosts, NEW c \in Clients, SendDiscover(c)
  PROVE  Stepped(c)
<1>1. PICK k : k = client[c]
  OBVIOUS
<1>2. k \in ClientRecs /\ ClientOK(k)
  BY <1>1, DueIs
<1>3. PICK xid : xid = IF k.num = 0 THEN NextXid(k.xid) ELSE k.xid
  OBVIOUS
<1>4. xid \in Xids
  BY <1>2, <1>3, NextXidType DEF ClientRecs
<1>5. /\ k.st = "INIT_SELECTING" /\ k.num < DiscoverRetries
      /\ UNCHANGED <<server, mail, signals>>
  BY <1>1 DEF SendDiscover, Due
<1>6. PICK yes \in BOOLEAN : yes = TRUE
  OBVIOUS
<1>7. PICK no \in BOOLEAN : no = FALSE
  OBVIOUS
<1>8. PICK j : j = [k EXCEPT !.open = yes, !.xid = xid, !.num = k.num + 1, !.timeout = DiscoverTimeout]
  OBVIOUS
<1>9. Becomes(c, j)
  BY <1>1, <1>3, <1>6, <1>8, Zenon DEF SendDiscover
<1>10. Send(Packet("DISCOVER", c, xid, k.req, NoIp, no, 0))
  BY <1>1, <1>3, <1>7, Zenon DEF SendDiscover
<1>11. k.num + 1 \in Nums
  BY <1>2, <1>5, ClientNumbers DEF ClientRecs, Nums
<1>12. j \in ClientRecs /\ j.st = "INIT_SELECTING" /\ j.cfg = k.cfg /\ j.open = yes
  BY <1>2, <1>4, <1>5, <1>8, <1>11, ClientNumbers DEF ClientRecs
<1>13. ClientOK(j)
  BY <1>2, <1>5, <1>6, <1>12 DEF ClientOK, Fits, Hears, Holding
<1>14. Moved(c)
  BY <1>9, <1>13, BecomesIs
<1>15. k.req \in IpsOrNone /\ NoIp \in IpsOrNone
  BY <1>2, ClientNumbers DEF ClientRecs
<1>16. Sent
  BY <1>4, <1>10, <1>15, SendIs
<1> QED BY <1>5, <1>14, <1>16 DEF Stepped, Hosts

\* REQUESTING: a REQUEST for the offer is sent.
LEMMA SendSelectOK ==
  ASSUME Hosts, NEW c \in Clients, SendSelect(c)
  PROVE  Stepped(c)
<1>1. PICK k : k = client[c]
  OBVIOUS
<1>2. k \in ClientRecs /\ ClientOK(k)
  BY <1>1, DueIs
<1>3. /\ k.st = "REQUESTING" /\ k.num < 3
      /\ UNCHANGED <<server, mail, signals>>
  BY <1>1 DEF SendSelect, Due
<1>4. PICK yes \in BOOLEAN : yes = TRUE
  OBVIOUS
<1>5. Send(Packet("REQUEST", c, k.xid, k.req, NoIp, yes, 0))
  BY <1>1, <1>4, Zenon DEF SendSelect
<1>6. PICK j : j = [k EXCEPT !.num = k.num + 1, !.timeout = DiscoverTimeout]
  OBVIOUS
<1>7. Becomes(c, j)
  BY <1>1, <1>6, Zenon DEF SendSelect
<1>8. k.num + 1 \in Nums
  BY <1>2, <1>3, ClientNumbers DEF ClientRecs, Nums
<1>9. j \in ClientRecs /\ j.st = k.st /\ j.cfg = k.cfg /\ j.open = k.open
  BY <1>2, <1>6, <1>8, ClientNumbers DEF ClientRecs
<1>10. ClientOK(j)
  BY <1>2, <1>3, <1>9 DEF ClientOK, Fits, Hears, Holding
<1>11. Moved(c)
  BY <1>7, <1>10, BecomesIs
<1>12. k.req \in IpsOrNone /\ NoIp \in IpsOrNone /\ k.xid \in Xids
  BY <1>2, ClientNumbers DEF ClientRecs
<1>13. Sent
  BY <1>5, <1>12, SendIs
<1> QED BY <1>3, <1>11, <1>13 DEF Stepped, Hosts

\* No answer after all retries: wait, and start again.
LEMMA LeaseFailOK ==
  ASSUME Hosts, NEW c \in Clients, LeaseFail(c)
  PROVE  Stepped(c)
<1>1. PICK k : k = client[c]
  OBVIOUS
<1>2. k \in ClientRecs /\ ClientOK(k)
  BY <1>1, DueIs
<1>3. k.st \in {"INIT_SELECTING", "REQUESTING"} /\ UNCHANGED <<server, inbox, mail, signals>>
  BY <1>1 DEF LeaseFail, Due
<1>4. k.cfg = NoIp
  BY <1>2, <1>3 DEF ClientOK, Fits, Holding
<1>5. PICK j : j = Reinit(k, TryAgain)
  OBVIOUS
<1>6. ClientOK(j)
  BY <1>2, <1>4, <1>5, ClientNumbers, ReinitOK
<1>7. Becomes(c, j)
  BY <1>1, <1>5 DEF LeaseFail
<1> QED BY <1>3, <1>6, <1>7, BecomesIs DEF Stepped, Sent, Hosts

\* BOUND: half of the lease is over.
LEMMA HalfLeasePassedOK ==
  ASSUME Hosts, NEW c \in Clients, HalfLeasePassed(c)
  PROVE  Stepped(c)
<1>1. PICK k : k = client[c]
  OBVIOUS
<1>2. k.st = "BOUND" /\ UNCHANGED <<server, mail, signals>>
  BY <1>1 DEF HalfLeasePassed, Due
<1>3. Leased(k)
  BY <1>1, <1>2, DueIs DEF Holding
<1>4. PICK j : j = [k EXCEPT !.st = "RENEWING"]
  OBVIOUS
<1>5. Leased(j)
  BY <1>3, <1>4 DEF Leased, ClientRecs, States, Holding
<1>6. Renew(c, j)
  BY <1>1, <1>4 DEF HalfLeasePassed
<1>7. Moved(c) /\ Sent
  BY <1>5, <1>6, RenewOK
<1> QED BY <1>2, <1>7 DEF Stepped, Hosts

\* RENEWING: no answer in time.
LEMMA RenewTimedOutOK ==
  ASSUME Hosts, NEW c \in Clients, RenewTimedOut(c)
  PROVE  Stepped(c)
<1>1. PICK k : k = client[c]
  OBVIOUS
<1>2. /\ k.st \in {"RENEWING", "RENEW_REQUESTED"} /\ UNCHANGED <<server, mail, signals>>
      /\ RenewUnanswered(c, k)
  BY <1>1 DEF RenewTimedOut, Due
<1>3. Leased(k)
  BY <1>1, <1>2, DueIs DEF Holding
<1>4. Moved(c) /\ Sent
  BY <1>2, <1>3, RenewUnansweredOK
<1> QED BY <1>2, <1>4 DEF Stepped, Hosts

\* REBINDING: no answer in time, or the lease is over.
LEMMA RebindTimedOutOK ==
  ASSUME Hosts, NEW c \in Clients, RebindTimedOut(c)
  PROVE  Stepped(c)
<1>1. PICK k : k = client[c]
  OBVIOUS
<1>2. k.st = "REBINDING" /\ Rebind(c, k) /\ UNCHANGED <<server, mail, signals>>
  BY <1>1 DEF RebindTimedOut, Due
<1>3. Leased(k)
  BY <1>1, <1>2, DueIs DEF Holding
<1>4. Moved(c) /\ Sent
  BY <1>2, <1>3, RebindOK
<1> QED BY <1>2, <1>4 DEF Stepped, Hosts

\* A signal is between the client and itself.
LEMMA SignalledIs ==
  ASSUME Hosts, NEW c \in Clients, Signalled(c)
  PROVE  UNCHANGED <<server, mail>> /\ signals' \in 0 .. MaxSignals
BY SignalsType DEF Signalled, Hosts

\* SIGUSR1: renew now.
LEMMA SIGUSR1OK ==
  ASSUME Hosts, NEW c \in Clients, SIGUSR1(c)
  PROVE  Stepped(c)
<1>1. PICK o : o = client[c]
  OBVIOUS
<1>2. PICK k : k = Hurry(o)
  OBVIOUS
<1>3. o \in ClientRecs /\ (o.st \in Holding => Leased(o)) /\ ClientOK(o)
  BY <1>1, DueIs
<1>4. PICK left : left = IF o.left > Low THEN Low ELSE o.left
  OBVIOUS
<1>5. left \in 0 .. Longest
  BY <1>3, <1>4, ClientNumbers DEF ClientRecs
<1>6. k = [o EXCEPT !.left = left, !.num = 0]
  BY <1>2, <1>4 DEF Hurry
<1>7. k \in ClientRecs /\ k.st = o.st /\ k.cfg = o.cfg /\ k.req = o.req
  BY <1>3, <1>5, <1>6, ClientNumbers DEF ClientRecs
<1>8. UNCHANGED <<server, mail>> /\ signals' \in 0 .. MaxSignals
  BY SignalledIs DEF SIGUSR1
<1>9. Moved(c) /\ Sent
  <2>1. CASE k.st \in {"BOUND", "RENEWING"} /\ Renew(c, [k EXCEPT !.st = "RENEW_REQUESTED"])
    <3>1. PICK j : j = [k EXCEPT !.st = "RENEW_REQUESTED"]
      OBVIOUS
    <3>2. o.st \in Holding
      BY <1>7, <2>1 DEF Holding
    <3>3. Leased(j)
      BY <1>3, <1>7, <3>1, <3>2 DEF Leased, ClientRecs, States, Holding
    <3> QED BY <2>1, <3>1, <3>3, RenewOK
  <2>2. CASE Becomes(c, Reinit(Deconfigured(k), 0)) /\ inbox' = inbox
    <3>1. PICK j : j = Reinit(Deconfigured(k), 0)
      OBVIOUS
    <3>2. ClientOK(j)
      BY <1>7, <3>1, GivesUpLease
    <3> QED BY <2>2, <3>1, <3>2, BecomesIs DEF Sent
  <2>3. CASE k.st = "RELEASED" /\ Becomes(c, Reinit(k, 0)) /\ inbox' = inbox
    <3>1. PICK j : j = Reinit(k, 0)
      OBVIOUS
    <3>2. k.cfg = NoIp
      BY <1>3, <1>7, <2>3 DEF ClientOK, Fits, Holding
    <3>3. ClientOK(j)
      BY <1>7, <3>1, <3>2, ReinitOK
    <3> QED BY <2>3, <3>1, <3>3, BecomesIs DEF Sent
  <2> QED BY <1>1, <1>2, <2>1, <2>2, <2>3 DEF SIGUSR1
<1> QED BY <1>8, <1>9 DEF Stepped

\* SIGUSR2: release.
LEMMA SIGUSR2OK ==
  ASSUME Hosts, NEW c \in Clients, SIGUSR2(c)
  PROVE  Stepped(c)
<1>1. PICK k : k = client[c]
  OBVIOUS
<1>2. k \in ClientRecs
  BY <1>1, DueIs
<1>3. PICK j : j = Released(k)
  OBVIOUS
<1>4. j \in ClientRecs /\ j.st = "RELEASED" /\ j.cfg = NoIp
  BY <1>2, <1>3, ReleasedOK
<1>5. ClientOK(j)
  BY <1>4 DEF ClientOK, Fits, Hears, Holding, Requested
<1>6. SendRelease(c, k) /\ Becomes(c, j) /\ Signalled(c)
  BY <1>1, <1>3 DEF SIGUSR2
<1>7. Sent /\ Moved(c)
  BY <1>2, <1>5, <1>6, SendReleaseOK, BecomesIs
<1> QED BY <1>6, <1>7, SignalledIs DEF Stepped

\* SIGTERM: release if asked to, and end.
LEMMA SIGTERMOK ==
  ASSUME Hosts, NEW c \in Clients, SIGTERM(c)
  PROVE  Stepped(c)
<1>1. PICK k : k = client[c]
  OBVIOUS
<1>2. k \in ClientRecs
  BY <1>1, DueIs
<1>3. Signalled(c)
  BY DEF SIGTERM
<1>4. Sent /\ Moved(c)
  <2>1. CASE ReleaseOnQuit
    <3>1. PICK r : r = Released(k)
      OBVIOUS
    <3>2. PICK j : j = [r EXCEPT !.st = "QUIT", !.req = NoIp]
      OBVIOUS
    <3>3. r \in ClientRecs
      BY <1>2, <3>1, ReleasedOK
    <3>4. j \in ClientRecs /\ j.st = "QUIT"
      BY <3>2, <3>3, ClientNumbers DEF ClientRecs, States
    <3>5. ClientOK(j)
      BY <3>4 DEF ClientOK, Fits, Hears, Requested, Holding
    <3>6. SendRelease(c, k) /\ Becomes(c, j)
      BY <1>1, <2>1, <3>1, <3>2 DEF SIGTERM
    <3> QED BY <1>2, <3>5, <3>6, SendReleaseOK, BecomesIs
  <2>2. CASE ~ReleaseOnQuit
    <3>1. PICK no \in BOOLEAN : no = FALSE
      OBVIOUS
    <3>2. PICK j : j = [k EXCEPT !.st = "QUIT", !.open = no, !.timeout = Forever]
      OBVIOUS
    <3>3. j \in ClientRecs /\ j.st = "QUIT"
      BY <1>2, <3>2, ClientNumbers DEF ClientRecs, States
    <3>4. ClientOK(j)
      BY <3>3 DEF ClientOK, Fits, Hears, Requested, Holding
    <3>5. inbox' = inbox /\ Becomes(c, j)
      BY <1>1, <2>2, <3>1, <3>2, Zenon DEF SIGTERM
    <3> QED BY <3>4, <3>5, BecomesIs DEF Sent
  <2> QED BY <2>1, <2>2
<1> QED BY <1>3, <1>4, SignalledIs DEF Stepped

\* A client is started again.
LEMMA StartOK ==
  ASSUME Hosts, NEW c \in Clients, Start(c)
  PROVE  Stepped(c)
<1>1. PICK k : k = client[c]
  OBVIOUS
<1>2. k \in ClientRecs
  BY <1>1, DueIs
<1>3. PICK no \in BOOLEAN : no = FALSE
  OBVIOUS
<1>4. PICK j : j = Started(k)
  OBVIOUS
<1>a. PICK zero \in Int : zero = 0
  OBVIOUS
<1>5. j = [k EXCEPT !.st = "INIT_SELECTING", !.num = 0, !.req = NoIp, !.timeout = zero,
                    !.left = 0, !.cfg = NoIp, !.open = no]
  BY <1>3, <1>4, <1>a, Zenon DEF Started
<1>6. j \in ClientRecs /\ j.st = "INIT_SELECTING" /\ j.num = 0 /\ j.cfg = NoIp
  BY <1>2, <1>5, ClientNumbers DEF ClientRecs, States
<1>7. ClientOK(j)
  BY <1>6 DEF ClientOK, Fits, Hears, Holding, Requested
<1>8. Becomes(c, j) /\ UNCHANGED <<server, inbox, mail, signals>>
  BY <1>1, <1>4 DEF Start
<1> QED BY <1>7, <1>8, BecomesIs DEF Stepped, Sent, Hosts

\* A client reads only what is in its mail, with its socket open.
LEMMA ReadsIs ==
  ASSUME Network, Hosts, NEW c \in Clients, NEW states, NEW type, Reads(c, states, type)
  PROVE  /\ Reading(c) /\ client[c].st \in states /\ client[c].open
         /\ Head(mail[c]).yi \in IpsOrNone /\ Head(mail[c]).time \in 0 .. Longest
<1>1. mail[c] \in Seq(Replies) /\ mail[c] # <<>>
  BY DEF Reads, Network
<1>2. Head(mail[c]) \in Replies
  BY <1>1
<1>3. Reading(c) /\ client[c].st \in states /\ client[c].open
  BY DEF Reads, Reading
<1> QED BY <1>2, <1>3 DEF Replies

\* An OFFER takes the client to REQUESTING.
LEMMA ReceiveOfferOK ==
  ASSUME Network, Hosts, NEW c \in Clients, ReceiveOffer(c)
  PROVE  Stepped(c)
<1>1. PICK k : k = client[c]
  OBVIOUS
<1>2. k \in ClientRecs /\ ClientOK(k)
  BY <1>1, DueIs
<1>3. PICK yi : yi = Head(mail[c]).yi
  OBVIOUS
<1>4. /\ Reading(c) /\ k.st \in {"INIT_SELECTING"} /\ k.open /\ yi \in IpsOrNone
  BY <1>1, <1>3, ReadsIs DEF ReceiveOffer
<1>5. PICK j : j = [k EXCEPT !.st = "REQUESTING", !.req = yi, !.timeout = 0, !.num = 0]
  OBVIOUS
<1>a. PICK zero \in Int : zero = 0
  OBVIOUS
<1>b. j = [k EXCEPT !.st = "REQUESTING", !.req = yi, !.timeout = zero, !.num = 0]
  BY <1>5, <1>a
<1>6. j \in ClientRecs /\ j.st = "REQUESTING" /\ j.cfg = k.cfg /\ j.open = k.open /\ j.num = 0
  BY <1>2, <1>4, <1>b, ClientNumbers DEF ClientRecs, States
<1>7. ClientOK(j)
  BY <1>2, <1>4, <1>6 DEF ClientOK, Fits, Hears, Holding
<1>8. Becomes(c, j) /\ UNCHANGED <<server, inbox, signals>>
  BY <1>1, <1>3, <1>5 DEF ReceiveOffer
<1> QED BY <1>4, <1>7, <1>8, BecomesIs DEF Stepped, Sent, Hosts

\* The record an ACK makes of client c.
LEMMA ObtainedOK ==
  ASSUME Network, Hosts, NEW c \in Clients, Reads(c, Requested, "ACK"), NEW k, k = Obtained(c)
  PROVE  /\ k \in ClientRecs /\ k.req = Head(mail[c]).yi
         /\ Reading(c) /\ Head(mail[c]).yi \in IpsOrNone
<1>1. PICK o : o = client[c]
  OBVIOUS
<1>2. o \in ClientRecs
  BY <1>1, DueIs
<1>3. Reading(c) /\ Head(mail[c]).yi \in IpsOrNone /\ Head(mail[c]).time \in 0 .. Longest
  BY ReadsIs
<1>4. PICK yi : yi = Head(mail[c]).yi
  OBVIOUS
<1>5. PICK left : left = IF Head(mail[c]).time < Low THEN Low ELSE Head(mail[c]).time
  OBVIOUS
<1>6. left \in 0 .. Longest
  BY <1>3, <1>5, ClientNumbers
<1>7. k = [o EXCEPT !.left = left, !.req = yi]
  BY <1>1, <1>4, <1>5 DEF Obtained
<1>8. k \in ClientRecs /\ k.req = yi
  BY <1>2, <1>3, <1>4, <1>6, <1>7 DEF ClientRecs
<1> QED BY <1>3, <1>4, <1>8

\* An ACK configures the interface.
LEMMA ReceiveAckOK ==
  ASSUME Network, Hosts, NEW c \in Clients, ReceiveAck(c)
  PROVE  Stepped(c)
<1>1. PICK k : k = Obtained(c)
  OBVIOUS
<1>2. PICK yi : yi = Head(mail[c]).yi
  OBVIOUS
<1>3. k \in ClientRecs /\ k.req = yi /\ Reading(c) /\ yi \in IpsOrNone
  BY <1>1, <1>2, ObtainedOK DEF ReceiveAck
<1>4. PICK b : b = BoundForHalfLease(k)
  OBVIOUS
<1>5. b \in ClientRecs /\ b.st = "BOUND" /\ b.req = yi
  BY <1>3, <1>4, BoundOK
<1>6. PICK j : j = [b EXCEPT !.cfg = yi]
  OBVIOUS
<1>7. j \in ClientRecs /\ j.st = "BOUND" /\ j.req = yi /\ j.cfg = yi
  BY <1>3, <1>5, <1>6 DEF ClientRecs
<1>8. ClientOK(j)
  BY <1>7 DEF ClientOK, Fits, Hears, Holding, Requested
<1>9. Becomes(c, j) /\ UNCHANGED <<server, inbox, signals>>
  BY <1>1, <1>2, <1>4, <1>6 DEF ReceiveAck
<1> QED BY <1>3, <1>8, <1>9, BecomesIs DEF Stepped, Sent, Hosts

\* An ACK starts the probe of its address.
LEMMA ReceiveAckProbeOK ==
  ASSUME Network, Hosts, NEW c \in Clients, ReceiveAckProbe(c)
  PROVE  Stepped(c)
<1>1. PICK k : k = Obtained(c)
  OBVIOUS
<1>2. k \in ClientRecs /\ Reading(c)
  BY <1>1, ObtainedOK DEF ReceiveAckProbe
<1>3. PICK no \in BOOLEAN : no = FALSE
  OBVIOUS
<1>4. PICK j : j = [k EXCEPT !.st = "PROBING", !.num = 0, !.open = no, !.timeout = ProbeTime]
  OBVIOUS
<1>5. ProbeTime \in Int
  BY DhcpAssumption
<1>6. j \in ClientRecs /\ j.st = "PROBING"
  BY <1>2, <1>4, <1>5, ClientNumbers DEF ClientRecs, States
<1>7. ClientOK(j)
  BY <1>6 DEF ClientOK, Fits, Hears, Holding, Requested
<1>8. Becomes(c, j) /\ UNCHANGED <<server, inbox, signals>>
  BY <1>1, <1>3, <1>4, Zenon DEF ReceiveAckProbe
<1> QED BY <1>2, <1>7, <1>8, BecomesIs DEF Stepped, Sent, Hosts

\* The probe had no answer: the interface is configured.
LEMMA ProbeUnansweredOK ==
  ASSUME Hosts, NEW c \in Clients, ProbeUnanswered(c)
  PROVE  Stepped(c)
<1>1. PICK k : k = client[c]
  OBVIOUS
<1>2. k \in ClientRecs /\ k.req \in IpsOrNone
  BY <1>1, DueIs DEF ClientRecs
<1>3. PICK b : b = BoundForHalfLease(k)
  OBVIOUS
<1>4. b \in ClientRecs /\ b.st = "BOUND" /\ b.req = k.req
  BY <1>2, <1>3, BoundOK
<1>5. PICK j : j = [b EXCEPT !.cfg = k.req]
  OBVIOUS
<1>6. j \in ClientRecs /\ j.st = "BOUND" /\ j.req = k.req /\ j.cfg = k.req
  BY <1>2, <1>4, <1>5 DEF ClientRecs
<1>7. ClientOK(j)
  BY <1>6 DEF ClientOK, Fits, Hears, Holding, Requested
<1>8. Becomes(c, j) /\ UNCHANGED <<server, inbox, mail, signals>>
  BY <1>1, <1>3, <1>5 DEF ProbeUnanswered
<1> QED BY <1>7, <1>8, BecomesIs DEF Stepped, Sent, Hosts

\* An address that answers the probe is declined.
LEMMA ProbeAnsweredOK ==
  ASSUME Hosts, NEW c \in Clients, ProbeAnswered(c)
  PROVE  Stepped(c)
<1>1. PICK k : k = client[c]
  OBVIOUS
<1>2. k \in ClientRecs
  BY <1>1, DueIs
<1>3. PICK xid : xid = NextXid(k.xid)
  OBVIOUS
<1>4. xid \in Xids /\ k.req \in IpsOrNone /\ NoIp \in IpsOrNone
  BY <1>2, <1>3, NextXidType, ClientNumbers DEF ClientRecs
<1>5. PICK r : r = Reinit(Deconfigured(k), TryAgain)
  OBVIOUS
<1>6. ClientOK(r) /\ r.st = "INIT_SELECTING" /\ r.num = 0
  <2>1. ClientOK(r)
    BY <1>2, <1>5, ClientNumbers, GivesUpLease
  <2>2. PICK d : d = Deconfigured(k)
    OBVIOUS
  <2>3. d \in ClientRecs
    BY <1>2, <2>2, DeconfiguredOK
  <2>4. r.st = "INIT_SELECTING" /\ r.num = 0
    BY <1>5, <2>2, <2>3 DEF Reinit, ClientRecs
  <2> QED BY <2>1, <2>4
<1>7. PICK j : j = [r EXCEPT !.xid = xid, !.req = NoIp]
  OBVIOUS
<1>8. j \in ClientRecs /\ j.st = "INIT_SELECTING" /\ j.num = 0 /\ j.cfg = r.cfg
  BY <1>4, <1>6, <1>7 DEF ClientOK, ClientRecs
<1>9. ClientOK(j)
  BY <1>6, <1>8 DEF ClientOK, Fits, Hears, Holding, Requested
<1>10. Becomes(c, j) /\ UNCHANGED <<server, mail, signals>>
  BY <1>1, <1>3, <1>5, <1>7 DEF ProbeAnswered
<1>11. PICK yes \in BOOLEAN : yes = TRUE
  OBVIOUS
<1>12. Send(Packet("DECLINE", c, xid, k.req, NoIp, yes, 0))
  BY <1>1, <1>3, <1>11, Zenon DEF ProbeAnswered
<1>13. Sent
  BY <1>4, <1>12, SendIs
<1> QED BY <1>9, <1>10, <1>13, BecomesIs DEF Stepped, Hosts

\* A NAK takes the address away.
LEMMA ReceiveNakOK ==
  ASSUME Network, Hosts, NEW c \in Clients, ReceiveNak(c)
  PROVE  Stepped(c)
<1>1. PICK k : k = client[c]
  OBVIOUS
<1>2. k \in ClientRecs
  BY <1>1, DueIs
<1>3. Reading(c)
  BY ReadsIs DEF ReceiveNak
<1>4. PICK d : d = Deconfigured(k)
  OBVIOUS
<1>5. PICK r : r = Reinit(d, DiscoverTimeout)
  OBVIOUS
<1>6. d \in ClientRecs /\ d.cfg = NoIp
  BY <1>2, <1>4, DeconfiguredOK
<1>7. ClientOK(r) /\ r.st = "INIT_SELECTING" /\ r.num = 0
  <2>1. ClientOK(r)
    BY <1>5, <1>6, ClientNumbers, ReinitOK
  <2>2. r.st = "INIT_SELECTING" /\ r.num = 0
    BY <1>5, <1>6 DEF Reinit, ClientRecs
  <2> QED BY <2>1, <2>2
<1>8. PICK j : j = [r EXCEPT !.req = NoIp]
  OBVIOUS
<1>9. j \in ClientRecs /\ j.st = "INIT_SELECTING" /\ j.num = 0 /\ j.cfg = r.cfg
  BY <1>7, <1>8, ClientNumbers DEF ClientOK, ClientRecs
<1>10. ClientOK(j)
  BY <1>7, <1>9 DEF ClientOK, Fits, Hears, Holding, Requested
<1>11. Becomes(c, j) /\ UNCHANGED <<server, inbox, signals>>
  BY <1>1, <1>4, <1>5, <1>8 DEF ReceiveNak
<1> QED BY <1>3, <1>10, <1>11, BecomesIs DEF Stepped, Sent, Hosts

\* Every step of a client, together.
LEMMA ClientStepIs ==
  ASSUME Network, Hosts, NEW c \in Clients, ClientStep(c)
  PROVE  Stepped(c)
BY SendDiscoverOK, SendSelectOK, LeaseFailOK, HalfLeasePassedOK, RenewTimedOutOK, RebindTimedOutOK,
   SIGUSR1OK, SIGUSR2OK, SIGTERMOK, StartOK, ReceiveOfferOK, ReceiveAckOK, ReceiveAckProbeOK,
   ProbeUnansweredOK, ProbeAnsweredOK, ReceiveNakOK DEF ClientStep, TimedOut

-----------------------------------------------------------------------------
(* The steps of the server                                                 *)

\* What the server may read next is well formed.
LEMMA ArrivalsType ==
  ASSUME Network, NEW m \in Arrivals
  PROVE  m \in Requests /\ (m.mac \in Clients => inbox # <<>>)
<1>1. CASE m \in OtherPackets
  <2>1. m \in Requests /\ m.mac \in Others
    BY <1>1, OtherPacketsType
  <2>2. m.mac \notin Clients
    BY <2>1, DhcpAssumption
  <2> QED BY <2>1, <2>2
<1>2. CASE inbox # <<>> /\ m = Head(inbox)
  <2>1. inbox \in Seq(FromClients)
    BY DEF Network
  <2>2. m \in FromClients
    BY <1>2, <2>1
  <2> QED BY <1>2, <2>2 DEF FromClients
<1> QED BY <1>1, <1>2 DEF Arrivals

\* A packet that is read leaves the inbox.
LEMMA TakeKeeps ==
  ASSUME Network, NEW m \in Arrivals, Take(m)
  PROVE  inbox' \in Seq(FromClients)
<1>1. inbox \in Seq(FromClients) /\ (m.mac \in Clients => inbox # <<>>)
  BY ArrivalsType DEF Network
<1>2. CASE m.mac \in Clients
  <2>1. inbox' = Tail(inbox)
    BY <1>2 DEF Take
  <2> QED BY <1>1, <1>2, <2>1
<1>3. CASE m.mac \notin Clients
  BY <1>1, <1>3 DEF Take
<1> QED BY <1>2, <1>3

\* An answer, field by field.
LEMMA ReplyType ==
  ASSUME NEW m \in Requests, NEW type \in {"OFFER", "ACK", "NAK"}, NEW ip \in IpsOrNone,
         NEW time \in 0 .. Longest
  PROVE  <<Reply(type, m, ip, time)>> \in Seq(Replies)
<1>1. Reply(type, m, ip, time) \in Replies
  BY DEF Reply, Requests, Replies
<1> QED BY <1>1

\* An answer goes to the mail of its client, and nowhere for another host.
LEMMA AnswerKeeps ==
  ASSUME Network, NEW m, NEW replies \in Seq(Replies), Answer(m, replies)
  PROVE  mail' \in [Clients -> Seq(Replies)]
<1>1. mail \in [Clients -> Seq(Replies)]
  BY DEF Network
<1>2. CASE m.mac \in Clients
  <2>1. mail' = [mail EXCEPT ![m.mac] = mail[m.mac] \o replies]
    BY <1>2 DEF Answer
  <2>2. mail[m.mac] \in Seq(Replies)
    BY <1>1, <1>2
  <2>3. mail[m.mac] \o replies \in Seq(Replies)
    BY <2>2
  <2> QED BY <1>1, <2>1, <2>3
<1>3. CASE m.mac \notin Clients
  BY <1>1, <1>3 DEF Answer
<1> QED BY <1>2, <1>3

\* A host that was given nothing.
LEMMA NoGrantType == NoGrant \in Grants
BY LongestIs DEF NoGrant, Grants, IpsOrNone

\* A DECLINE or RELEASE ends what a host was given.
LEMMA GivesUpKeeps ==
  ASSUME Hosts, NEW m, NEW ips, GivesUp(m, ips)
  PROVE  granted' \in [Others -> Grants]
BY NoGrantType DEF GivesUp, Hosts

\* An ACK is what a host is given.
LEMMA GrantKeeps ==
  ASSUME TableOK(table), Network, Hosts, NEW m \in Requests, Acked(m), Grant(m)
  PROVE  mail' \in [Clients -> Seq(Replies)] /\ granted' \in [Others -> Grants]
<1>1. PICK ip : ip = WantedIp(m)
  OBVIOUS
<1>2. PICK time : time = LeaseTime(m.ask)
  OBVIOUS
<1>3. time \in 0 .. Longest
  BY <1>2, LeaseTimeType DEF Requests
<1>4. ip \in IpsOrNone
  BY <1>1, OwnIpsAre DEF Acked, IpsOrNone
<1>5. mail' \in [Clients -> Seq(Replies)]
  <2>1. <<Reply("ACK", m, ip, time)>> \in Seq(Replies)
    BY <1>3, <1>4, ReplyType
  <2>2. Answer(m, <<Reply("ACK", m, ip, time)>>)
    BY <1>1, <1>2 DEF Grant
  <2> QED BY <2>1, <2>2, AnswerKeeps
<1>6. [nip |-> ip, left |-> time] \in Grants
  <2>1. time \in -1 .. Longest
    BY <1>3, LongestIs
  <2> QED BY <1>4, <2>1 DEF Grants
<1>7. granted' = IF m.mac \in Others THEN [granted EXCEPT ![m.mac] = [nip |-> ip, left |-> time]] ELSE granted
  BY <1>1, <1>2 DEF Grant
<1>8. granted' \in [Others -> Grants]
  BY <1>6, <1>7 DEF Hosts
<1> QED BY <1>5, <1>8

\* The answer to a DISCOVER is an OFFER, or none.
LEMMA DiscoverMail ==
  ASSUME TableOK(table), Network, NEW m \in Requests, Discover(m)
  PROVE  mail' \in [Clients -> Seq(Replies)]
<1>1. PICK time : time = LeaseTime(m.ask)
  OBVIOUS
<1>2. time \in 0 .. Longest
  BY <1>1, LeaseTimeType DEF Requests
<1>3. CASE StaticIp(m.mac) # NoIp
  <2>1. PICK ip : ip = StaticIp(m.mac)
    OBVIOUS
  <2>2. <<Reply("OFFER", m, ip, time)>> \in Seq(Replies)
    BY <1>2, <2>1, StaticIpType, ReplyType
  <2>3. Answer(m, <<Reply("OFFER", m, ip, time)>>)
    BY <1>1, <1>3, <2>1 DEF Discover
  <2> QED BY <2>2, <2>3, AnswerKeeps
<1>4. CASE StaticIp(m.mac) = NoIp
  <2>1. PICK o \in OfferChoices(m) :
          \/ mail' = mail
          \/ Answer(m, IF LeaseByMac(table', m.mac) # {} THEN <<Reply("OFFER", m, o.nip, time)>> ELSE <<>>)
    BY <1>1, <1>4 DEF Discover
  <2>2. PICK replies : replies = IF LeaseByMac(table', m.mac) # {}
                                 THEN <<Reply("OFFER", m, o.nip, time)>> ELSE <<>>
    OBVIOUS
  <2>3. o.nip \in IpsOrNone
    BY <1>4, OfferKeeps, ZeroNotInPool DEF IpsOrNone
  <2>4. <<Reply("OFFER", m, o.nip, time)>> \in Seq(Replies)
    BY <1>2, <2>3, ReplyType
  <2>5. replies \in Seq(Replies)
    BY <2>2, <2>4
  <2>6. mail' = mail \/ Answer(m, replies)
    BY <2>1, <2>2
  <2> QED BY <2>5, <2>6, AnswerKeeps DEF Network
<1> QED BY <1>3, <1>4

\* Whatever write_leases makes of the file, it has leases of the table.
LEMMA WritesKeep ==
  ASSUME Tables, NEW t, TableOK(t), NEW f \in Writes(t)
  PROVE  TableOK(f) /\ \A l \in f : l.left >= 0
<1>1. CASE f = file
  BY <1>1 DEF Tables
<1>2. CASE f \in SUBSET Written(t)
  <2>1. TableOK(Written(t)) /\ \A l \in Written(t) : l.left >= 0
    BY WrittenKeeps
  <2> QED BY <1>2, <2>1, SubsetKeeps
<1> QED BY <1>1, <1>2 DEF Writes

\* What is forgotten are hosts.
LEMMA ForgetsType == \A t, f : Forgets(t, f) \subseteq Macs
BY DEF Forgets

\* One packet, whole.
LEMMA ServeKeeps ==
  ASSUME IInv, Serve
  PROVE  IInv'
<1>1. PICK m \in Arrivals :
        /\ Take(m)
        /\ Discover(m) \/ send_ACK(m) \/ RequestRefused(m) \/ Decline(m) \/ Release(m) \/ Inform(m)
  BY DEF Serve
<1>2. UNCHANGED <<up, client, signals>>
  BY DEF Serve
<1>3. Tables /\ Network /\ Hosts /\ TableOK(table) /\ TableOK(file)
  BY DEF IInv, Tables
<1>4. m \in Requests /\ m.mac \in Macs
  BY <1>3, ArrivalsType DEF Requests
<1>5. inbox' \in Seq(FromClients)
  BY <1>1, <1>3, TakeKeeps
<1>6. SUFFICES /\ TableOK(table') /\ TableOK(file') /\ \A l \in file' : l.left >= 0
               /\ forgot' \subseteq Macs
               /\ mail' \in [Clients -> Seq(Replies)]
               /\ granted' \in [Others -> Grants]
  BY <1>2, <1>3, <1>5 DEF IInv, Tables, Network, Hosts
<1>7. CASE Discover(m)
  <2>1. TableOK(table')
    BY <1>3, <1>4, <1>7, DiscoverKeeps
  <2>2. mail' \in [Clients -> Seq(Replies)]
    BY <1>3, <1>4, <1>7, DiscoverMail
  <2>3. GivesUp(m, Pool) /\ UNCHANGED <<file, forgot>>
    BY <1>7 DEF Discover
  <2>4. granted' \in [Others -> Grants]
    BY <1>3, <2>3, GivesUpKeeps
  <2> QED BY <1>3, <2>1, <2>2, <2>3, <2>4 DEF Tables
<1>8. CASE send_ACK(m)
  <2>1. /\ Acked(m) /\ Grant(m) /\ table' \in AddLease(table, m.mac, WantedIp(m), LeaseTime(m.ask))
        /\ file' \in Writes(table') /\ forgot' = (forgot \ {m.mac}) \cup Forgets(table', file')
    BY <1>8 DEF send_ACK
  <2>2. TableOK(table')
    BY <1>3, <1>4, <2>1, AckKeeps
  <2>3. TableOK(file') /\ \A l \in file' : l.left >= 0
    BY <1>3, <2>1, <2>2, WritesKeep
  <2>4. mail' \in [Clients -> Seq(Replies)] /\ granted' \in [Others -> Grants]
    BY <1>3, <1>4, <2>1, GrantKeeps
  <2>5. forgot' \subseteq Macs
    BY <1>3, <2>1, ForgetsType DEF Tables
  <2> QED BY <2>2, <2>3, <2>4, <2>5
<1>9. CASE RequestRefused(m)
  <2>1. UNCHANGED <<table, file, granted, forgot>>
    BY <1>9 DEF RequestRefused
  <2>2. PICK replies : replies = IF WantedIp(m) # NoIp /\ (m.sid \/ m.req # NoIp)
                                 THEN <<Reply("NAK", m, NoIp, 0)>> ELSE <<>>
    OBVIOUS
  <2>3. <<Reply("NAK", m, NoIp, 0)>> \in Seq(Replies)
    BY <1>4, ReplyType, ClientNumbers
  <2>4. replies \in Seq(Replies) /\ Answer(m, replies)
    BY <1>9, <2>2, <2>3 DEF RequestRefused
  <2>5. mail' \in [Clients -> Seq(Replies)]
    BY <1>3, <2>4, AnswerKeeps
  <2> QED BY <1>3, <2>1, <2>5 DEF Tables, Hosts
<1>10. CASE Decline(m)
  <2>1. GivesUp(m, {m.req}) /\ UNCHANGED <<file, mail, forgot>>
    BY <1>10 DEF Decline
  <2>2. TableOK(table')
    BY <1>3, <1>4, <1>10, DeclineKeeps
  <2>3. granted' \in [Others -> Grants]
    BY <1>3, <2>1, GivesUpKeeps
  <2> QED BY <1>3, <2>1, <2>2, <2>3 DEF Tables, Network
<1>11. CASE Release(m)
  <2>1. GivesUp(m, {m.ci}) /\ UNCHANGED <<file, mail, forgot>>
    BY <1>11 DEF Release
  <2>2. TableOK(table')
    BY <1>3, <1>4, <1>11, ReleaseKeeps
  <2>3. granted' \in [Others -> Grants]
    BY <1>3, <2>1, GivesUpKeeps
  <2> QED BY <1>3, <2>1, <2>2, <2>3 DEF Tables, Network
<1>12. CASE Inform(m)
  <2>1. UNCHANGED <<table, file, granted, forgot>> /\ Answer(m, <<Reply("ACK", m, NoIp, 0)>>)
    BY <1>12 DEF Inform
  <2>2. <<Reply("ACK", m, NoIp, 0)>> \in Seq(Replies)
    BY <1>4, ReplyType, ClientNumbers
  <2>3. mail' \in [Clients -> Seq(Replies)]
    BY <1>3, <2>1, <2>2, AnswerKeeps
  <2> QED BY <1>3, <2>1, <2>3 DEF Tables, Hosts
<1> QED BY <1>1, <1>7, <1>8, <1>9, <1>10, <1>11, <1>12

\* A server without a lease file starts in order.
LEMMA EmptyTable == TableOK({}) /\ <<>> \in Seq(FromClients)
BY FS_EmptySet, SlotsType DEF TableOK, Each

\* write_leases, the end of udhcpd, its crashes and its restarts.
LEMMA LifeKeeps ==
  ASSUME IInv, Save \/ Terminate \/ Crash \/ CrashInAck \/ Restart \/ RestartUnread
  PROVE  IInv'
<1>1. Tables /\ Network /\ Hosts /\ TableOK(table) /\ TableOK(file) /\ forgot \subseteq Macs
  BY DEF IInv, Tables
<1>2. ASSUME file' \in Writes(table), forgot' = forgot \cup Forgets(table, file')
      PROVE  TableOK(file') /\ (\A l \in file' : l.left >= 0) /\ forgot' \subseteq Macs
  BY <1>1, <1>2, WritesKeep, ForgetsType
<1>3. CASE Save
  <2>1. TableOK(file') /\ (\A l \in file' : l.left >= 0) /\ forgot' \subseteq Macs
    BY <1>2, <1>3 DEF Save
  <2> QED BY <1>1, <1>3, <2>1 DEF Save, IInv, Tables, Network, Hosts
<1>4. CASE Terminate
  <2>1. TableOK(file') /\ (\A l \in file' : l.left >= 0) /\ forgot' \subseteq Macs
    BY <1>2, <1>4 DEF Terminate
  <2> QED BY <1>1, <1>4, <2>1, EmptyTable DEF Terminate, Stopped, IInv, Tables, Network, Hosts
<1>5. CASE Crash
  BY <1>1, <1>5, EmptyTable DEF Crash, Stopped, IInv, Tables, Network, Hosts
<1>6. CASE RestartUnread
  <2>1. forgot' \subseteq Macs
    BY <1>1, <1>6, ForgetsType DEF RestartUnread
  <2> QED BY <1>1, <1>6, <2>1 DEF RestartUnread, IInv, Tables, Network, Hosts
<1>7. CASE CrashInAck
  <2>1. PICK m \in Arrivals :
          /\ Acked(m) /\ Grant(m)
          /\ \E t \in AddLease(table, m.mac, WantedIp(m), LeaseTime(m.ask)) :
               file' \in Writes(t) /\ forgot' = forgot \cup Forgets(t, file')
    BY <1>7 DEF CrashInAck
  <2>2. PICK t \in AddLease(table, m.mac, WantedIp(m), LeaseTime(m.ask)) :
          file' \in Writes(t) /\ forgot' = forgot \cup Forgets(t, file')
    BY <2>1
  <2>3. m \in Requests
    BY <1>1, ArrivalsType
  <2>4. TableOK(t)
    BY <1>1, <2>1, <2>3, AckKeeps
  <2>6. TableOK(file') /\ \A l \in file' : l.left >= 0
    BY <1>1, <2>2, <2>4, WritesKeep
  <2>7. forgot' \subseteq Macs
    BY <1>1, <2>2, ForgetsType
  <2>8. mail' \in [Clients -> Seq(Replies)] /\ granted' \in [Others -> Grants]
    BY <1>1, <2>1, <2>3, GrantKeeps
  <2>9. up' = FALSE /\ table' = {} /\ inbox' = <<>> /\ UNCHANGED <<client, signals>>
    BY <1>7 DEF CrashInAck, Stopped
  <2> QED BY <1>1, <2>6, <2>7, <2>8, <2>9, EmptyTable DEF IInv, Tables, Network, Hosts
<1>8. CASE Restart
  <2>1. PICK order \in SetToSeqs(file) : table' \in ReadLeases(order)
    BY <1>8 DEF Restart
  <2>2. \A l \in file : l.left >= 0
    BY <1>1 DEF Tables
  <2>3. TableOK(table')
    BY <1>1, <2>1, <2>2, ReadKeeps
  <2> QED BY <1>1, <1>8, <2>3 DEF Restart, IInv, Tables, Network, Hosts
<1> QED BY <1>3, <1>4, <1>5, <1>6, <1>7, <1>8

\* The steps of a client, and the loss of an answer, keep IInv.
LEMMA ClientKeeps ==
  ASSUME IInv, NEW c \in Clients, ClientStep(c) \/ LoseReply(c)
  PROVE  IInv'
<1>1. Tables /\ Network /\ Hosts
  BY DEF IInv
<1>2. inbox \in Seq(FromClients) /\ mail \in [Clients -> Seq(Replies)] /\ mail[c] \in Seq(Replies)
  BY <1>1 DEF Network
<1>3. ASSUME Reading(c) PROVE mail' \in [Clients -> Seq(Replies)]
  <2>1. mail[c] # <<>> /\ mail' = [mail EXCEPT ![c] = Tail(mail[c])]
    BY <1>3 DEF Reading
  <2>2. Tail(mail[c]) \in Seq(Replies)
    BY <1>2, <2>1
  <2> QED BY <1>2, <2>1, <2>2
<1>4. CASE ClientStep(c)
  <2>1. Stepped(c)
    BY <1>1, <1>4, ClientStepIs
  <2>2. inbox' \in Seq(FromClients)
    BY <1>2, <2>1 DEF Stepped, Sent
  <2>3. mail' \in [Clients -> Seq(Replies)]
    BY <1>2, <1>3, <2>1 DEF Stepped
  <2>4. PICK k : ClientOK(k) /\ client' = [client EXCEPT ![c] = k]
    BY <2>1 DEF Stepped, Moved
  <2>5. k \in ClientRecs
    BY <2>4 DEF ClientOK
  <2>6. client' \in [Clients -> ClientRecs] /\ \A d \in Clients : ClientOK(client'[d])
    BY <1>1, <2>4, <2>5 DEF Hosts
  <2>7. UNCHANGED <<up, table, file, granted, forgot>> /\ signals' \in 0 .. MaxSignals
    BY <2>1 DEF Stepped, server
  <2> QED BY <1>1, <2>2, <2>3, <2>6, <2>7 DEF IInv, Tables, Network, Hosts
<1>5. CASE LoseReply(c)
  <2>1. Reading(c) /\ UNCHANGED <<up, table, file, granted, forgot, inbox, client, signals>>
    BY <1>5 DEF LoseReply, Reading, server
  <2>2. mail' \in [Clients -> Seq(Replies)]
    BY <1>3, <2>1
  <2> QED BY <1>1, <2>1, <2>2 DEF IInv, Tables, Network, Hosts
<1> QED BY <1>4, <1>5

\* A lost request keeps IInv.
LEMMA LoseRequestKeeps ==
  ASSUME IInv, LoseRequest
  PROVE  IInv'
<1>1. Tables /\ Network /\ Hosts
  BY DEF IInv
<1>2. inbox' \in Seq(FromClients)
  BY <1>1 DEF LoseRequest, Network
<1> QED BY <1>1, <1>2 DEF LoseRequest, server, IInv, Tables, Network, Hosts

\* Time goes by for a client.
LEMMA LaterOK ==
  ASSUME NEW k, ClientOK(k), NEW j, j = Later(k)
  PROVE  ClientOK(j)
<1>0. k \in ClientRecs
  BY DEF ClientOK
<1>1. PICK timeout : timeout = IF k.timeout > 0 THEN k.timeout - 1 ELSE k.timeout
  OBVIOUS
<1>2. PICK left : left = IF k.st = "PROBING" THEN k.left ELSE IF k.left > 0 THEN k.left - 1 ELSE 0
  OBVIOUS
<1>3. timeout \in Int /\ left \in 0 .. Longest /\ 0 \in Xids
  BY <1>0, <1>1, <1>2, ClientNumbers DEF ClientRecs, Xids
<1>4. j = [k EXCEPT !.timeout = timeout, !.left = left, !.xid = 0]
  BY <1>1, <1>2 DEF Later
<1>5. /\ j \in ClientRecs /\ j.st = k.st /\ j.cfg = k.cfg /\ j.req = k.req /\ j.num = k.num
      /\ j.open = k.open
  BY <1>0, <1>3, <1>4 DEF ClientRecs
<1> QED BY <1>5 DEF ClientOK, Fits, Hears

\* Time goes by for everyone.
LEMMA TickKeeps ==
  ASSUME IInv, Tick
  PROVE  IInv'
<1>1. Tables /\ Network /\ Hosts /\ TableOK(table) /\ TableOK(file)
  BY DEF IInv, Tables
<1>2. \A l \in table : l.left >= -1
  BY <1>1, LeaseType DEF TableOK
<1>3. TableOK(table')
  BY <1>1, <1>2, AgedKeeps DEF Tick
<1>4. TableOK(file') /\ \A l \in file' : l.left >= 0
  BY <1>1, AgedKeeps DEF Tick, Tables
<1>5. client' \in [Clients -> ClientRecs] /\ \A c \in Clients : ClientOK(client'[c])
  <2>1. client' = [c \in Clients |-> Later(client[c])]
    BY DEF Tick
  <2>2. \A c \in Clients : ClientOK(Later(client[c]))
    BY <1>1, LaterOK DEF Hosts
  <2>3. \A c \in Clients : Later(client[c]) \in ClientRecs
    BY <2>2 DEF ClientOK
  <2> QED BY <2>1, <2>2, <2>3
<1>6. granted' \in [Others -> Grants]
  <2>1. \A o \in Others : granted[o] \in Grants
    BY <1>1 DEF Hosts
  <2>2. \A o \in Others : granted[o].left > 0 => [granted[o] EXCEPT !.left = @ - 1] \in Grants
    BY <2>1, LongestIs DEF Grants
  <2> QED BY <2>2, NoGrantType DEF Tick
<1>7. inbox' = <<>> /\ mail' = [c \in Clients |-> <<>>] /\ UNCHANGED <<up, forgot, signals>>
  BY DEF Tick
<1>8. inbox' \in Seq(FromClients) /\ mail' \in [Clients -> Seq(Replies)]
  BY <1>7
<1> QED BY <1>1, <1>3, <1>4, <1>5, <1>6, <1>7, <1>8 DEF IInv, Tables, Network, Hosts

\* An empty table, a quiet segment, clients that start.
LEMMA InitOK == Init => IInv
<1> SUFFICES ASSUME Init PROVE IInv
  OBVIOUS
<1>1. Tables
  BY EmptyTable DEF Init, Tables
<1>2. Network
  BY DEF Init, Network
<1>3. Hosts
  <2>1. PICK no \in BOOLEAN : no = FALSE
    OBVIOUS
  <2>2. Idle = [st |-> "QUIT", num |-> 0, xid |-> 0, req |-> NoIp, timeout |-> Forever,
                left |-> 0, cfg |-> NoIp, open |-> no]
    BY <2>1, Zenon DEF Idle
  <2>3. Idle \in ClientRecs /\ Idle.st = "QUIT"
    BY <2>2, ClientNumbers DEF ClientRecs, States, Xids
  <2>4. ClientOK(Idle)
    BY <2>3 DEF ClientOK, Fits, Hears, Requested, Holding
  <2> QED BY <2>3, <2>4, NoGrantType, SignalsType DEF Init, Hosts
<1> QED BY <1>1, <1>2, <1>3 DEF IInv

\* Every step keeps IInv.
LEMMA NextKeeps == IInv /\ [Next]_vars => IInv'
<1> SUFFICES ASSUME IInv, [Next]_vars PROVE IInv'
  OBVIOUS
<1>1. CASE Next
  BY <1>1, ServeKeeps, LifeKeeps, ClientKeeps, LoseRequestKeeps, TickKeeps DEF Next
<1>2. CASE UNCHANGED vars
  BY <1>2 DEF vars, IInv, Tables, Network, Hosts
<1> QED BY <1>1, <1>2

(***************************************************************************)
(* In every reachable state the table and the file are leases of known     *)
(* macs, one for an address and one for a mac, within their slots; every   *)
(* packet in flight is well formed; and every client's interface and       *)
(* socket fit its state, whatever packets are lost and however often the   *)
(* server crashes (udhcpd_main, udhcpc_main).                              *)
(***************************************************************************)
THEOREM Inductive == Spec => []IInv
BY InitOK, NextKeeps, PTL DEF Spec

\* IInv in the words of Dhcp.
LEMMA IInvSays == IInv => TypeOK /\ Listens /\ OneLeaseEach
<1> SUFFICES ASSUME IInv PROVE TypeOK /\ Listens /\ OneLeaseEach
  OBVIOUS
<1>1. Tables /\ Network /\ Hosts
  BY DEF IInv
<1>2. OneLeaseEach
  BY <1>1 DEF Tables, TableOK, Each, OneLeaseEach
<1>3. TypeOK
  <2>1. \A l \in table \cup file : l \in Lease
    BY <1>1 DEF Tables, TableOK
  <2>2. \A l \in table \cup file :
          l.mac \in Macs \cup {ZeroMac} /\ l.nip \in Ips /\ l.left \in -1 .. Longest
    BY <2>1 DEF Lease, LeaseMacs
  <2>3. Cardinality(table) <= Slots /\ Cardinality(file) <= Slots /\ up \in BOOLEAN /\ forgot \subseteq Macs
    BY <1>1 DEF Tables, TableOK
  <2>4. \A c \in Clients :
          /\ client[c].st \in States /\ client[c].num \in 0 .. 3 \cup 0 .. DiscoverRetries
          /\ client[c].xid \in Xids /\ client[c].req \in Ips \cup {NoIp}
          /\ client[c].cfg \in Ips \cup {NoIp} /\ client[c].left \in 0 .. Longest
    <3> SUFFICES ASSUME NEW c \in Clients, NEW k, k = client[c]
                 PROVE  /\ k.st \in States /\ k.num \in 0 .. 3 \cup 0 .. DiscoverRetries
                        /\ k.xid \in Xids /\ k.req \in Ips \cup {NoIp}
                        /\ k.cfg \in Ips \cup {NoIp} /\ k.left \in 0 .. Longest
      OBVIOUS
    <3>1. k \in ClientRecs
      BY <1>1 DEF Hosts
    <3> QED BY <3>1 DEF ClientRecs, IpsOrNone, Nums
  <2>5. signals <= MaxSignals
    BY <1>1, SignalsType DEF Hosts
  <2> QED BY <2>2, <2>3, <2>4, <2>5 DEF TypeOK
<1>4. Listens
  BY <1>1 DEF Hosts, ClientOK, Hears, Listens
<1> QED BY <1>2, <1>3, <1>4

(***************************************************************************)
(* add_lease, the search for an address, DECLINE, RELEASE and read_leases  *)
(* never leave two leases for one address, or for one mac.                 *)
(***************************************************************************)
THEOREM LeasesAreUnique == Spec => []OneLeaseEach
BY Inductive, IInvSays, PTL

-----------------------------------------------------------------------------
(* Leases that are kept                                                    *)

\* A lease with time left is not expired.
LEMMA LiveIs ==
  ASSUME NEW t, TableOK(t), NEW l \in t, l.left >= 0
  PROVE  ~IsExpired(l)
BY LeaseType DEF TableOK, IsExpired

NeverTakenNow ==
  up /\ up' => \A l \in table : l.left >= 0 /\ ~Contested(l.nip) =>
    \E k \in table' : k.nip = l.nip /\ k.mac \in {l.mac, ZeroMac}

\* No step takes a live lease from its holder.
LEMMA NeverTakenStep == IInv /\ [Next]_vars => NeverTakenNow
<1> SUFFICES ASSUME IInv, [Next]_vars, up, up', NEW l \in table, l.left >= 0, ~Contested(l.nip)
             PROVE  \E k \in table' : k.nip = l.nip /\ k.mac \in {l.mac, ZeroMac}
  BY DEF NeverTakenNow
<1>1. TableOK(table) /\ Network /\ Hosts
  BY DEF IInv, Tables
<1>2. ~IsExpired(l)
  BY <1>1, LiveIs
<1>3. CASE table' = table
  BY <1>3
<1>4. CASE Serve
  <2>1. PICK m \in Arrivals :
          Discover(m) \/ send_ACK(m) \/ RequestRefused(m) \/ Decline(m) \/ Release(m) \/ Inform(m)
    BY <1>4 DEF Serve
  <2>2. m \in Requests
    BY <1>1, ArrivalsType
  <2>3. ASSUME Keeps(table, table', m.mac)
        PROVE  \E k \in table' : k.nip = l.nip /\ k.mac \in {l.mac, ZeroMac}
    BY <1>2, <2>3 DEF Keeps
  <2>4. CASE Discover(m)
    BY <1>1, <2>2, <2>3, <2>4, DiscoverKeeps
  <2>5. CASE send_ACK(m)
    <3>1. Acked(m) /\ table' \in AddLease(table, m.mac, WantedIp(m), LeaseTime(m.ask))
      BY <2>5 DEF send_ACK
    <3>2. Keeps(table, table', m.mac)
      BY <1>1, <2>2, <3>1, AckKeeps
    <3> QED BY <2>3, <3>2
  <2>6. CASE RequestRefused(m) \/ Inform(m)
    <3>1. table' = table
      BY <2>6 DEF RequestRefused, Inform
    <3> QED BY <1>3, <3>1
  <2>7. CASE Decline(m)
    BY <1>1, <2>2, <2>7, DeclineKeeps
  <2>8. CASE Release(m)
    BY <1>1, <2>2, <2>8, ReleaseKeeps
  <2> QED BY <2>1, <2>4, <2>5, <2>6, <2>7, <2>8
<1>5. CASE Tick
  <2>1. \A k \in table : k.left >= -1
    BY <1>1, LeaseType DEF TableOK
  <2>2. \E k \in Aged(table, -1) : k.mac = l.mac /\ k.nip = l.nip
    BY <1>1, <2>1, AgedKeeps
  <2> QED BY <1>5, <2>2 DEF Tick
<1>6. CASE Save \/ LoseRequest \/ UNCHANGED vars
  BY <1>3, <1>6 DEF Save, LoseRequest, server, vars
<1>7. CASE Terminate \/ Crash \/ CrashInAck \/ Restart \/ RestartUnread
  BY <1>7 DEF Terminate, Crash, CrashInAck, Restart, RestartUnread, Stopped
<1>8. CASE \E c \in Clients : ClientStep(c) \/ LoseReply(c)
  <2>1. PICK c \in Clients : ClientStep(c) \/ LoseReply(c)
    BY <1>8
  <2>2. UNCHANGED server
    BY <1>1, <2>1, ClientStepIs DEF Stepped, LoseReply
  <2> QED BY <1>3, <2>2 DEF server
<1> QED BY <1>4, <1>5, <1>6, <1>7, <1>8 DEF Next

(***************************************************************************)
(* A lease that has not expired is never taken from its holder while the   *)
(* server runs: not by the search for an address and the conflict leases   *)
(* it makes, not by an offer, an ACK or a RELEASE of another host, for any *)
(* static leases; only the claimants of a static address in the pool, or   *)
(* of two macs, take it from each other (send_offer, add_lease).           *)
(***************************************************************************)
THEOREM AddressesAreKept == Spec => NeverTaken
<1>1. IInv /\ [Next]_vars => [NeverTakenNow]_vars
  BY NeverTakenStep
<1>2. Spec => [][NeverTakenNow]_vars
  BY <1>1, Inductive, PTL DEF Spec
<1> QED BY <1>2 DEF NeverTaken, NeverTakenNow

ConflictKeptNow ==
  \A l \in file :
    Restart /\ LeaseByMac(file, ZeroMac) = {l} /\ ~IsReservedAsStatic(l.nip) =>
      \E k \in table' : k.mac = ZeroMac /\ k.nip = l.nip

\* No restart that reads the file loses its one conflict lease.
LEMMA ConflictKeptStep == IInv => ConflictKeptNow
<1> SUFFICES ASSUME IInv, Restart, NEW l \in file, LeaseByMac(file, ZeroMac) = {l},
                    ~IsReservedAsStatic(l.nip)
             PROVE  \E k \in table' : k.mac = ZeroMac /\ k.nip = l.nip
  BY DEF ConflictKeptNow
<1>1. TableOK(file) /\ (\A k \in file : k.left >= 0) /\ Network /\ Hosts
  BY DEF IInv, Tables
<1>3. PICK order \in SetToSeqs(file) : table' \in ReadLeases(order)
  BY DEF Restart
<1>4. l.mac = ZeroMac /\ Sole(l, file)
  BY DEF LeaseByMac, Sole
<1>5. l.nip \in Pool
  BY <1>1, <1>4 DEF TableOK, Home
<1>6. StaticIp(l.mac) = NoIp
  BY <1>4, LeasesAssumption DEF StaticIp
<1>7. ReadBack(l)
  BY <1>5, <1>6 DEF ReadBack
<1>8. l \in table'
  BY <1>1, <1>3, <1>4, <1>7, ReadKeeps
<1> QED BY <1>4, <1>8

(***************************************************************************)
(* A restart that reads the file keeps its one conflict lease, wherever in *)
(* the file it stands: it finds a slot, and no lease that is read after it *)
(* evicts it; unless its address is somebody's static lease (read_leases). *)
(***************************************************************************)
THEOREM ConflictIsKept == Spec => ConflictKept
<1>1. IInv /\ [Next]_vars => [ConflictKeptNow]_vars
  BY ConflictKeptStep
<1>2. Spec => [][ConflictKeptNow]_vars
  BY <1>1, Inductive, PTL DEF Spec
<1> QED BY <1>2 DEF ConflictKept, ConflictKeptNow

-----------------------------------------------------------------------------
(* The leases the other hosts were given                                   *)

\* Table or file t has the lease g of host o, and for long enough.
Has(t, o, g) == \E l \in t : l.mac = o /\ l.nip = g.nip /\ l.left >= g.left

GrantOK(o, g, f, t, on) ==
  g.nip # NoIp =>
    /\ g.left >= 0
    /\ StaticIp(o) # NoIp => g.nip = StaticIp(o)
    /\ StaticIp(o) = NoIp => g.nip \in Pool
    /\ StaticIp(o) = NoIp /\ ~Contested(g.nip) => Has(f, o, g) /\ (on => Has(t, o, g))

\* A host that the server did not forget has its static address, or its lease is
\* in the file and, while the server runs, in the table; or the address is one
\* that a static lease contests.
GrantsKept == \A o \in Others \ forgot : GrantOK(o, granted[o], file, table, up)

\* A host whose lease was in table t when the file was written is forgotten,
\* or its lease is in the file.
LEMMA NotForgotten ==
  ASSUME NEW t, TableOK(t), NEW f, NEW o \in Macs, o \notin Forgets(t, f), NEW g,
         g.left \in Int, Has(t, o, g), f \subseteq Lease
  PROVE  Has(f, o, g)
<1>1. PICK l \in t : l.mac = o /\ l.nip = g.nip /\ l.left >= g.left
  BY DEF Has
<1>2. PICK k \in f : k.mac = l.mac /\ k.nip = l.nip /\ k.left >= l.left
  BY <1>1 DEF Forgets
<1>3. k.left \in Int /\ l.left \in Int
  BY LeaseType DEF TableOK
<1> QED BY <1>1, <1>2, <1>3 DEF Has

\* What is kept of other macs is enough for their grants.
LEMMA KeepsGrant ==
  ASSUME NEW t, TableOK(t), NEW u, NEW mac, Keeps(t, u, mac), NEW o, o # mac, NEW g,
         g.left \in Int, g.left >= 0, ~Contested(g.nip), Has(t, o, g)
  PROVE  Has(u, o, g)
<1>1. PICK l \in t : l.mac = o /\ l.nip = g.nip /\ l.left >= g.left
  BY DEF Has
<1>2. l.left \in Int
  BY LeaseType DEF TableOK
<1>3. l.left >= 0
  BY <1>1, <1>2
<1>4. ~IsExpired(l)
  BY <1>3, LiveIs
<1>5. l \in u
  BY <1>1, <1>4 DEF Keeps
<1> QED BY <1>1, <1>5 DEF Has

\* What a host was given, field by field.
LEMMA GrantType ==
  ASSUME Hosts, NEW o \in Others
  PROVE  granted[o] \in Grants /\ granted[o].left \in Int
BY LongestIs DEF Hosts, Grants

\* Nothing given, nothing to keep.
LEMMA NoGrantOK == \A o, f, t, on : GrantOK(o, NoGrant, f, t, on)
BY DEF GrantOK, NoGrant

\* The lease of a host that was just acknowledged.
LEMMA NewGrantOK ==
  ASSUME TableOK(table), NEW m \in Requests, Acked(m),
         NEW u \in AddLease(table, m.mac, WantedIp(m), LeaseTime(m.ask)),
         NEW g, g = [nip |-> WantedIp(m), left |-> LeaseTime(m.ask)]
  PROVE  /\ g.left \in Int /\ g.left >= 0
         /\ StaticIp(m.mac) # NoIp => g.nip = StaticIp(m.mac)
         /\ StaticIp(m.mac) = NoIp => g.nip \in Pool /\ Has(u, m.mac, g)
<1>1. LeaseTime(m.ask) \in 0 .. Longest
  BY LeaseTimeType DEF Requests
<1>2. g.left = LeaseTime(m.ask) /\ g.nip = WantedIp(m) /\ g.left \in Int /\ g.left >= 0
  BY <1>1, LongestIs
<1>3. WantedIp(m) \in OwnIps(m)
  BY DEF Acked
<1>4. StaticIp(m.mac) # NoIp => g.nip = StaticIp(m.mac)
  BY <1>2, <1>3, OwnIpsAre
<1>5. ASSUME StaticIp(m.mac) = NoIp PROVE g.nip \in Pool /\ Has(u, m.mac, g)
  <2>1. WantedIp(m) \in Pool /\ [mac |-> m.mac, nip |-> WantedIp(m), left |-> LeaseTime(m.ask)] \in u
    BY <1>5, AckKeeps
  <2>2. PICK l \in u : l = [mac |-> m.mac, nip |-> WantedIp(m), left |-> LeaseTime(m.ask)]
    BY <2>1
  <2>3. l.mac = m.mac /\ l.nip = g.nip /\ l.left = g.left
    BY <1>2, <2>2
  <2> QED BY <1>2, <2>1, <2>3 DEF Has
<1> QED BY <1>2, <1>4, <1>5

\* Serving a packet keeps the leases of all hosts but its sender.
LEMMA GrantServed ==
  ASSUME IInv, NEW m \in Requests, up, up' = up,
         Discover(m) \/ send_ACK(m) \/ RequestRefused(m) \/ Decline(m) \/ Release(m) \/ Inform(m),
         NEW o \in Macs, o \notin forgot', o # m.mac, NEW g, g.left \in Int, GrantOK(o, g, file, table, up)
  PROVE  GrantOK(o, g, file', table', up')
<1>1. TableOK(table)
  BY DEF IInv, Tables
<1>2. ASSUME file' = file, g.left >= 0 /\ ~Contested(g.nip) /\ Has(table, o, g) => Has(table', o, g)
      PROVE  GrantOK(o, g, file', table', up')
  BY <1>2 DEF GrantOK
<1>3. CASE Discover(m)
  <2>1. file' = file
    BY <1>3 DEF Discover
  <2>2. Keeps(table, table', m.mac)
    BY <1>1, <1>3, DiscoverKeeps
  <2>3. g.left >= 0 /\ ~Contested(g.nip) /\ Has(table, o, g) => Has(table', o, g)
    BY <1>1, <2>2, KeepsGrant
  <2> QED BY <1>2, <2>1, <2>3
<1>4. CASE send_ACK(m)
  <2>1. /\ Acked(m) /\ table' \in AddLease(table, m.mac, WantedIp(m), LeaseTime(m.ask))
        /\ file' \in Writes(table') /\ o \notin Forgets(table', file')
    BY <1>4 DEF send_ACK
  <2>2. TableOK(table') /\ Keeps(table, table', m.mac)
    BY <1>1, <2>1, AckKeeps
  <2>3. ASSUME g.left >= 0, ~Contested(g.nip), Has(table, o, g) PROVE Has(table', o, g) /\ Has(file', o, g)
    <3>1. Has(table', o, g)
      BY <1>1, <2>2, <2>3, KeepsGrant
    <3>2. file' \subseteq Lease
      BY <2>1, <2>2, WritesKeep DEF IInv, TableOK
    <3> QED BY <2>1, <2>2, <3>1, <3>2, NotForgotten
  <2> QED BY <2>3 DEF GrantOK
<1>5. CASE RequestRefused(m) \/ Inform(m)
  <2>1. UNCHANGED <<table, file>>
    BY <1>5 DEF RequestRefused, Inform
  <2> QED BY <1>2, <2>1
<1>6. CASE Decline(m)
  <2>1. file' = file
    BY <1>6 DEF Decline
  <2>2. \A l \in table : l.mac # m.mac \/ l.nip # m.req => l \in table'
    BY <1>1, <1>6, DeclineKeeps
  <2> QED BY <1>2, <2>1, <2>2 DEF Has
<1>7. CASE Release(m)
  <2>1. file' = file
    BY <1>7 DEF Release
  <2>2. \A l \in table : l.mac # m.mac \/ l.nip # m.ci => l \in table'
    BY <1>1, <1>7, ReleaseKeeps
  <2> QED BY <1>2, <2>1, <2>2 DEF Has
<1> QED BY <1>3, <1>4, <1>5, <1>6, <1>7

\* Serving a packet keeps every grant backed by a lease.
LEMMA GrantsServe ==
  ASSUME IInv, GrantsKept, Serve
  PROVE  GrantsKept'
<1>1. PICK m \in Arrivals :
        Discover(m) \/ send_ACK(m) \/ RequestRefused(m) \/ Decline(m) \/ Release(m) \/ Inform(m)
  BY DEF Serve
<1>2. up /\ up' = up
  BY DEF Serve
<1>3. TableOK(table) /\ Network /\ Hosts
  BY DEF IInv, Tables
<1>4. m \in Requests /\ m.mac \in Macs
  BY <1>3, ArrivalsType DEF Requests
<1> SUFFICES ASSUME NEW o \in Others, o \notin forgot'
             PROVE  GrantOK(o, granted'[o], file', table', up')
  BY DEF GrantsKept
<1>5. PICK g : g = granted[o]
  OBVIOUS
<1>6. g.left \in Int
  BY <1>3, <1>5, GrantType
\* The host gives its address up, or its lease stays.
<1>7. ASSUME NEW ips, GivesUp(m, ips), UNCHANGED <<file, forgot>>,
             g.nip # NoIp /\ StaticIp(o) = NoIp /\ ~(o = m.mac /\ g.nip \in ips) /\ Has(table, o, g)
               /\ g.left >= 0 /\ g.nip \in Pool /\ ~Contested(g.nip)
             => Has(table', o, g)
      PROVE  GrantOK(o, granted'[o], file', table', up')
  <2>1. granted'[o] = IF o = m.mac /\ g.nip \in ips THEN NoGrant ELSE g
    BY <1>5, <1>7 DEF GivesUp
  <2>2. CASE o = m.mac /\ g.nip \in ips
    BY <2>1, <2>2, NoGrantOK
  <2>3. CASE ~(o = m.mac /\ g.nip \in ips)
    <3>1. GrantOK(o, g, file, table, up)
      BY <1>5, <1>7 DEF GrantsKept
    <3> QED BY <1>2, <1>7, <2>1, <2>3, <3>1 DEF GrantOK
  <2> QED BY <2>2, <2>3
<1>8. CASE Discover(m)
  <2>1. GivesUp(m, Pool) /\ UNCHANGED <<file, forgot>>
    BY <1>8 DEF Discover
  <2>2. Keeps(table, table', m.mac)
    BY <1>3, <1>4, <1>8, DiscoverKeeps
  <2>3. ASSUME g.nip # NoIp, ~(o = m.mac /\ g.nip \in Pool), Has(table, o, g), g.left >= 0, g.nip \in Pool,
               ~Contested(g.nip)
        PROVE  Has(table', o, g)
    BY <1>3, <1>6, <2>2, <2>3, KeepsGrant
  <2> QED BY <1>7, <2>1, <2>3
<1>9. CASE send_ACK(m)
  <2>1. /\ Acked(m) /\ Grant(m) /\ table' \in AddLease(table, m.mac, WantedIp(m), LeaseTime(m.ask))
        /\ file' \in Writes(table') /\ forgot' = (forgot \ {m.mac}) \cup Forgets(table', file')
    BY <1>9 DEF send_ACK
  <2>2. TableOK(table')
    BY <1>3, <1>4, <2>1, AckKeeps
  <2>3. CASE o = m.mac
    <3>1. PICK h : h = [nip |-> WantedIp(m), left |-> LeaseTime(m.ask)]
      OBVIOUS
    <3>2. granted'[o] = h
      BY <1>3, <2>1, <2>3, <3>1 DEF Grant, Hosts
    <3>3. /\ h.left \in Int /\ h.left >= 0
          /\ StaticIp(o) # NoIp => h.nip = StaticIp(o)
          /\ StaticIp(o) = NoIp => h.nip \in Pool /\ Has(table', o, h)
      BY <1>3, <1>4, <2>1, <2>3, <3>1, NewGrantOK
    <3>4. o \in Macs /\ o \notin Forgets(table', file') /\ file' \subseteq Lease
      BY <2>1, <2>2, WritesKeep DEF IInv, TableOK, Macs
    <3>5. StaticIp(o) = NoIp => Has(file', o, h)
      BY <2>2, <3>3, <3>4, NotForgotten
    <3> QED BY <3>2, <3>3, <3>5 DEF GrantOK
  <2>4. CASE o # m.mac
    <3>1. granted'[o] = g
      BY <1>3, <1>5, <2>1, <2>4 DEF Grant, Hosts
    <3>2. GrantOK(o, g, file, table, up) /\ o \in Macs
      BY <1>5, <2>1, <2>4 DEF GrantsKept, Macs
    <3>3. GrantOK(o, g, file', table', up')
      BY <1>2, <1>4, <1>6, <1>9, <2>4, <3>2, GrantServed
    <3> QED BY <3>1, <3>3
  <2> QED BY <2>3, <2>4
<1>10. CASE RequestRefused(m) \/ Inform(m)
  <2>1. UNCHANGED <<table, file, granted, forgot>>
    BY <1>10 DEF RequestRefused, Inform
  <2> QED BY <1>2, <2>1 DEF GrantsKept
<1>11. CASE Decline(m)
  <2>1. GivesUp(m, {m.req}) /\ UNCHANGED <<file, forgot>>
    BY <1>11 DEF Decline
  <2>2. \A l \in table : l.mac # m.mac \/ l.nip # m.req => l \in table'
    BY <1>3, <1>4, <1>11, DeclineKeeps
  <2>3. ASSUME ~(o = m.mac /\ g.nip \in {m.req}), Has(table, o, g)
        PROVE  Has(table', o, g)
    BY <2>2, <2>3 DEF Has
  <2> QED BY <1>7, <2>1, <2>3
<1>12. CASE Release(m)
  <2>1. GivesUp(m, {m.ci}) /\ UNCHANGED <<file, forgot>>
    BY <1>12 DEF Release
  <2>2. \A l \in table : l.mac # m.mac \/ l.nip # m.ci => l \in table'
    BY <1>3, <1>4, <1>12, ReleaseKeeps
  <2>3. ASSUME ~(o = m.mac /\ g.nip \in {m.ci}), Has(table, o, g)
        PROVE  Has(table', o, g)
    BY <2>2, <2>3 DEF Has
  <2> QED BY <1>7, <2>1, <2>3
<1> QED BY <1>1, <1>8, <1>9, <1>10, <1>11, <1>12

\* So do writing the file, ending, crashing and starting again, or the loss is
\* recorded.
LEMMA GrantLives ==
  ASSUME IInv, Save \/ Terminate \/ Crash \/ Restart \/ RestartUnread,
         NEW o \in Macs, o \notin forgot', NEW g, g.left \in Int, GrantOK(o, g, file, table, up)
  PROVE  GrantOK(o, g, file', table', up')
<1>1. TableOK(table) /\ TableOK(file)
  BY DEF IInv, Tables
<1>2. CASE Save \/ Terminate
  <2>1. up /\ o \notin Forgets(table, file') /\ (up' => table' = table)
    BY <1>2 DEF Save, Terminate, Stopped
  <2>2. IInv'
    BY <1>2, LifeKeeps
  <2>3. file' \subseteq Lease
    BY <2>2 DEF IInv, Tables, TableOK
  <2>4. Has(table, o, g) => Has(file', o, g)
    BY <1>1, <2>1, <2>3, NotForgotten
  <2> QED BY <2>1, <2>4 DEF GrantOK
<1>3. CASE Crash
  <2>1. up' = FALSE /\ file' = file
    BY <1>3 DEF Crash, Stopped
  <2> QED BY <2>1 DEF GrantOK
<1>4. CASE RestartUnread
  <2>1. file' = file /\ o \notin Forgets(file, {})
    BY <1>4 DEF RestartUnread
  <2>2. ~Has(file, o, g)
    BY <2>1 DEF Forgets, Has
  <2> QED BY <2>1, <2>2 DEF GrantOK
<1>5. CASE Restart
  <2>1. file' = file
    BY <1>5 DEF Restart
  <2>2. PICK order \in SetToSeqs(file) : table' \in ReadLeases(order)
    BY <1>5 DEF Restart
  <2>3. ASSUME StaticIp(o) = NoIp, g.nip \in Pool, ~Contested(g.nip), Has(file, o, g)
        PROVE  Has(table', o, g)
    <3>1. PICK l \in file : l.mac = o /\ l.nip = g.nip /\ l.left >= g.left
      BY <2>3 DEF Has
    <3>2. o # ZeroMac
      BY MacsAre
    <3>3. Sole(l, file)
      BY <1>1, <3>1, <3>2 DEF TableOK, Each, Sole
    <3>4. ReadBack(l)
      BY <2>3, <3>1 DEF ReadBack, IsReservedAsStatic, Contested
    <3>5. \A k \in file : k.left >= 0
      BY DEF IInv, Tables
    <3>6. l \in table'
      BY <1>1, <2>2, <3>3, <3>4, <3>5, ReadKeeps
    <3> QED BY <3>1, <3>6 DEF Has
  <2> QED BY <2>1, <2>3 DEF GrantOK
<1> QED BY <1>2, <1>3, <1>4, <1>5

\* A crash in send_ACK keeps the leases of all hosts but the one it answered.
LEMMA GrantOutlives ==
  ASSUME IInv, up, up' = FALSE, NEW m \in Requests, Acked(m),
         NEW t \in AddLease(table, m.mac, WantedIp(m), LeaseTime(m.ask)), file' \subseteq Lease,
         NEW o \in Macs, o \notin Forgets(t, file'), o # m.mac,
         NEW g, g.left \in Int, GrantOK(o, g, file, table, up)
  PROVE  GrantOK(o, g, file', table', up')
<1>1. TableOK(table)
  BY DEF IInv, Tables
<1>2. TableOK(t) /\ Keeps(table, t, m.mac)
  BY <1>1, AckKeeps
<1>3. ASSUME g.left >= 0, ~Contested(g.nip), Has(table, o, g) PROVE Has(file', o, g)
  <2>1. Has(t, o, g)
    BY <1>1, <1>2, <1>3, KeepsGrant
  <2> QED BY <1>2, <2>1, NotForgotten
<1> QED BY <1>3 DEF GrantOK

\* So do writing the file, ending, crashing and starting again, or the loss is
\* recorded.
LEMMA GrantsLife ==
  ASSUME IInv, GrantsKept, Save \/ Terminate \/ Crash \/ CrashInAck \/ Restart \/ RestartUnread
  PROVE  GrantsKept'
<1>1. TableOK(table) /\ Network /\ Hosts
  BY DEF IInv, Tables
<1> SUFFICES ASSUME NEW o \in Others, o \notin forgot'
             PROVE  GrantOK(o, granted'[o], file', table', up')
  BY DEF GrantsKept
<1>2. PICK g : g = granted[o]
  OBVIOUS
<1>3. g.left \in Int /\ o \in Macs
  BY <1>1, <1>2, GrantType DEF Macs
<1>4. o \notin forgot => GrantOK(o, g, file, table, up)
  BY <1>2 DEF GrantsKept
<1>5. CASE Save \/ Terminate \/ Crash \/ Restart \/ RestartUnread
  <2>1. granted' = granted /\ o \notin forgot
    BY <1>5 DEF Save, Terminate, Crash, Restart, RestartUnread
  <2>2. GrantOK(o, g, file', table', up')
    BY <1>3, <1>4, <1>5, <2>1, GrantLives
  <2> QED BY <1>2, <2>1, <2>2
<1>6. CASE CrashInAck
  <2>1. PICK m \in Arrivals :
          /\ Acked(m) /\ Grant(m)
          /\ \E t \in AddLease(table, m.mac, WantedIp(m), LeaseTime(m.ask)) :
               forgot' = forgot \cup Forgets(t, file')
    BY <1>6 DEF CrashInAck
  <2>2. PICK t \in AddLease(table, m.mac, WantedIp(m), LeaseTime(m.ask)) :
          forgot' = forgot \cup Forgets(t, file')
    BY <2>1
  <2>3. m \in Requests
    BY <1>1, ArrivalsType
  <2>4. IInv'
    BY <1>6, LifeKeeps
  <2>5. /\ up /\ up' = FALSE /\ o \notin forgot /\ o \notin Forgets(t, file')
        /\ file' \subseteq Lease
    BY <1>6, <2>2, <2>4 DEF CrashInAck, Stopped, IInv, Tables, TableOK
  <2>6. CASE o = m.mac
    <3>1. PICK h : h = [nip |-> WantedIp(m), left |-> LeaseTime(m.ask)]
      OBVIOUS
    <3>2. granted'[o] = h
      BY <1>1, <2>1, <2>6, <3>1 DEF Grant, Hosts
    <3>3. /\ h.left \in Int /\ h.left >= 0
          /\ StaticIp(o) # NoIp => h.nip = StaticIp(o)
          /\ StaticIp(o) = NoIp => h.nip \in Pool /\ Has(t, o, h)
      BY <1>1, <2>1, <2>3, <2>6, <3>1, NewGrantOK
    <3>4. TableOK(t)
      BY <1>1, <2>1, <2>3, AckKeeps
    <3>5. StaticIp(o) = NoIp => Has(file', o, h)
      BY <1>3, <2>5, <3>3, <3>4, NotForgotten
    <3> QED BY <2>5, <3>2, <3>3, <3>5 DEF GrantOK
  <2>7. CASE o # m.mac
    <3>1. granted'[o] = g
      BY <1>1, <1>2, <2>1, <2>7 DEF Grant, Hosts
    <3>2. GrantOK(o, g, file', table', up')
      BY <1>3, <1>4, <2>1, <2>3, <2>5, <2>7, GrantOutlives
    <3> QED BY <3>1, <3>2
  <2> QED BY <2>6, <2>7
<1> QED BY <1>5, <1>6

\* A grant and its lease grow old together.
LEMMA AgedHas ==
  ASSUME NEW t, TableOK(t), NEW floor \in {-1, 0}, \A l \in t : l.left >= floor,
         NEW o, NEW g \in Grants, g.left > 0, Has(t, o, g), NEW h, h = [g EXCEPT !.left = g.left - 1]
  PROVE  Has(Aged(t, floor), o, h)
<1>1. PICK l \in t : l.mac = o /\ l.nip = g.nip /\ l.left >= g.left
  BY DEF Has
<1>2. l.left \in Int /\ g.left \in Int
  BY LeaseType, LongestIs DEF TableOK, Grants
<1>3. \E k \in Aged(t, floor) : k.mac = l.mac /\ k.nip = l.nip /\ (l.left > 0 => k.left = l.left - 1)
  BY AgedKeeps
<1>4. PICK k \in Aged(t, floor) : k.mac = l.mac /\ k.nip = l.nip /\ (l.left > 0 => k.left = l.left - 1)
  BY <1>3
<1>5. k.left = l.left - 1
  BY <1>1, <1>2, <1>4
<1>6. h.nip = g.nip /\ h.left = g.left - 1
  BY DEF Grants
<1>7. k.left >= h.left
  BY <1>1, <1>2, <1>5, <1>6
<1> QED BY <1>1, <1>4, <1>6, <1>7 DEF Has

\* A grant and what backs it grow old together.
LEMMA GrantAges ==
  ASSUME IInv, Tick, NEW o, NEW g \in Grants, g.left > 0, GrantOK(o, g, file, table, up),
         NEW h, h = [g EXCEPT !.left = g.left - 1]
  PROVE  GrantOK(o, h, file', table', up')
<1>1. TableOK(table) /\ TableOK(file) /\ \A l \in file : l.left >= 0
  BY DEF IInv, Tables
<1>2. \A l \in table : l.left >= -1
  BY <1>1, LeaseType DEF TableOK
<1>3. table' = Aged(table, -1) /\ file' = Aged(file, 0) /\ up' = up
  BY DEF Tick
<1>4. h.nip = g.nip /\ h.left = g.left - 1 /\ h.left >= 0
  BY LongestIs DEF Grants
<1>5. Has(file, o, g) => Has(file', o, h)
  BY <1>1, <1>3, AgedHas
<1>6. Has(table, o, g) => Has(table', o, h)
  BY <1>1, <1>2, <1>3, AgedHas
<1> QED BY <1>3, <1>4, <1>5, <1>6 DEF GrantOK

\* Time keeps the grants backed.
LEMMA GrantsTick ==
  ASSUME IInv, GrantsKept, Tick
  PROVE  GrantsKept'
<1> SUFFICES ASSUME NEW o \in Others, o \notin forgot'
             PROVE  GrantOK(o, granted'[o], file', table', up')
  BY DEF GrantsKept
<1>1. PICK g, h : g = granted[o] /\ h = [g EXCEPT !.left = g.left - 1]
  OBVIOUS
<1>2. g \in Grants
  BY <1>1, GrantType DEF IInv
<1>3. granted'[o] = IF g.left > 0 THEN h ELSE NoGrant
  BY <1>1 DEF Tick
<1>4. GrantOK(o, g, file, table, up)
  BY <1>1 DEF Tick, GrantsKept
<1>5. CASE g.left > 0
  BY <1>1, <1>2, <1>3, <1>4, <1>5, GrantAges
<1>6. CASE ~(g.left > 0)
  BY <1>3, <1>6, NoGrantOK
<1> QED BY <1>5, <1>6

\* Nobody was given anything yet.
LEMMA GrantsInit == Init => GrantsKept
<1> SUFFICES ASSUME Init, NEW o \in Others PROVE GrantOK(o, granted[o], file, table, up)
  BY DEF GrantsKept
<1>1. granted[o] = NoGrant
  BY DEF Init
<1> QED BY <1>1, NoGrantOK

\* Every step keeps GrantsKept.
LEMMA GrantsNext == IInv /\ GrantsKept /\ [Next]_vars => GrantsKept'
<1> SUFFICES ASSUME IInv, GrantsKept, [Next]_vars PROVE GrantsKept'
  OBVIOUS
<1>1. CASE UNCHANGED server
  BY <1>1 DEF server, GrantsKept
<1>2. CASE Serve
  BY <1>2, GrantsServe
<1>3. CASE Save \/ Terminate \/ Crash \/ CrashInAck \/ Restart \/ RestartUnread
  BY <1>3, GrantsLife
<1>4. CASE \E c \in Clients : ClientStep(c) \/ LoseReply(c)
  <2>1. UNCHANGED server
    BY <1>4, ClientStepIs DEF Stepped, LoseReply, IInv
  <2> QED BY <1>1, <2>1
<1>5. CASE LoseRequest \/ UNCHANGED vars
  <2>1. UNCHANGED server
    BY <1>5 DEF LoseRequest, vars, server
  <2> QED BY <1>1, <2>1
<1>6. CASE Tick
  BY <1>6, GrantsTick
<1> QED BY <1>2, <1>3, <1>4, <1>5, <1>6 DEF Next

\* Two leases that are backed are of two addresses, or of a contested one.
LEMMA BackedApart ==
  ASSUME IInv, NEW m \in Macs, NEW n \in Macs, m # n, NEW g, NEW h, g.nip # NoIp, ~Contested(g.nip),
         GrantOK(m, g, file, table, up), GrantOK(n, h, file, table, up)
  PROVE  g.nip # h.nip
<1> SUFFICES ASSUME g.nip = h.nip PROVE FALSE
  OBVIOUS
<1>1. PICK ip : ip = g.nip
  OBVIOUS
<1>2. \A o \in {m, n} :
        /\ StaticIp(o) # NoIp => ip = StaticIp(o)
        /\ StaticIp(o) = NoIp => ip \in Pool /\ \E l \in file : l.mac = o /\ l.nip = ip
  BY <1>1 DEF GrantOK, Has
<1>3. m # ZeroMac /\ n # ZeroMac
  BY MacsAre
<1>4. CASE StaticIp(m) = NoIp /\ StaticIp(n) = NoIp
  <2>1. Each(file)
    BY DEF IInv, Tables, TableOK
  <2> QED BY <1>2, <1>3, <1>4, <2>1 DEF Each
<1>5. CASE StaticIp(m) # NoIp /\ StaticIp(n) # NoIp
  BY <1>1, <1>2, <1>5 DEF StaticIp, Contested
<1>6. CASE StaticIp(m) # NoIp /\ StaticIp(n) = NoIp
  BY <1>1, <1>2, <1>6 DEF StaticIp, Contested
<1>7. CASE StaticIp(m) = NoIp /\ StaticIp(n) # NoIp
  BY <1>1, <1>2, <1>7 DEF StaticIp, Contested
<1> QED BY <1>4, <1>5, <1>6, <1>7

-----------------------------------------------------------------------------
(* The exchange between a client and the server                            *)

\* The client has an address, or probes the one it was given; and it may
\* also wait for the ACK of one.
Lasting == Holding \cup {"PROBING"}
Engaged == {"REQUESTING"} \cup Lasting

\* In the order in which they were sent, the packets of client c that are on
\* their way (the replies b, then those in q) have xids that never fall, and
\* what withdraws or replaces a REQUEST has a later xid than the REQUEST.
Ordered(c, x, q, b) ==
  /\ \A i \in 1 .. Len(q) : q[i].mac = c =>
       q[i].xid <= x /\ q[i].ask = 0 /\ q[i].type # "INFORM"
  /\ \A i, j \in 1 .. Len(q) : i < j /\ q[i].mac = c /\ q[j].mac = c =>
       /\ q[i].xid <= q[j].xid
       /\ q[i].type = "REQUEST" /\ q[j].type # "REQUEST" => q[i].xid < q[j].xid
  /\ \A i \in 1 .. Len(b) :
       b[i].xid <= x /\ (b[i].type = "ACK" => b[i].yi # NoIp /\ b[i].time = MaxLease)
  /\ \A i \in 1 .. Len(b), j \in 1 .. Len(q) : q[j].mac = c =>
       /\ b[i].xid <= q[j].xid
       /\ b[i].type = "ACK" /\ q[j].type # "REQUEST" => b[i].xid < q[j].xid

\* The REQUESTs and the ACKs of exchange x.
Asking(c, x, q) == {i \in 1 .. Len(q) : q[i].mac = c /\ q[i].type = "REQUEST" /\ q[i].xid = x}
Acking(x, b)    == {i \in 1 .. Len(b) : b[i].type = "ACK" /\ b[i].xid = x}

\* What is on its way for the exchange the client is in: nothing to be
\* acknowledged while it selects, only its own address once it has chosen one,
\* and nothing that could end its lease while it has one.
Matched(c, k, q, b) ==
  /\ k.st = "INIT_SELECTING" /\ k.open => k.num > 0
  /\ k.st = "INIT_SELECTING" /\ k.num > 0 => Asking(c, k.xid, q) = {} /\ Acking(k.xid, b) = {}
  /\ k.st \in Engaged => /\ \A i \in Asking(c, k.xid, q) : WantedIp(q[i]) = k.req
                         /\ \A i \in Acking(k.xid, b) : b[i].yi = k.req
  /\ k.st \in Lasting => \A i \in 1 .. Len(q) : q[i].mac = c => i \in Asking(c, k.xid, q)

\* A client that has a lease has its address and a time to wait.  While it
\* probes a renewed address it keeps it configured.
Timed(k) ==
  /\ k.st \in Lasting => k.timeout >= 0 /\ k.left <= MaxLease /\ k.req # NoIp
  /\ k.st = "PROBING" => k.timeout <= ProbeTime /\ k.cfg \in {NoIp, k.req}

\* How much of its lease the client may rely on: its own count is behind by the
\* time it has spent on the probe, which is ProbeTime at most.
Trust(k) == k.left - (IF k.st = "PROBING" THEN ProbeTime - k.timeout ELSE ProbeTime)

Exchanges ==
  \A c \in Clients : /\ Ordered(c, client[c].xid, inbox, mail[c])
                     /\ Matched(c, client[c], inbox, mail[c])
                     /\ Timed(client[c])

\* r is a suffix of q: what is left when packets were read or lost.
Suffix(r, q) ==
  \E n \in Nat : Len(q) = Len(r) + n /\ \A i \in 1 .. Len(r) : i + n \in 1 .. Len(q) /\ r[i] = q[i + n]

\* d is b with one element more.
Longer(d, b, a) ==
  /\ Len(d) = Len(b) + 1 /\ d[Len(b) + 1] = a
  /\ \A i \in 1 .. Len(b) : d[i] = b[i]

\* A sequence, what remains of it after its first element, and nothing.
LEMMA SuffixesAre ==
  ASSUME NEW S, NEW q \in Seq(S)
  PROVE  /\ Suffix(q, q) /\ Suffix(<<>>, q)
         /\ q # <<>> => Suffix(Tail(q), q) /\ 1 \in 1 .. Len(q) /\ Head(q) = q[1]
<1>1. Len(q) \in Nat
  OBVIOUS
<1>2. Suffix(q, q)
  BY <1>1, 0 \in Nat DEF Suffix
<1>3. Suffix(<<>>, q)
  BY <1>1 DEF Suffix
<1>4. ASSUME q # <<>> PROVE Suffix(Tail(q), q) /\ 1 \in 1 .. Len(q) /\ Head(q) = q[1]
  <2>1. /\ Len(Tail(q)) = Len(q) - 1 /\ Head(q) = q[1] /\ Len(q) > 0
        /\ \A i \in 1 .. Len(Tail(q)) : Tail(q)[i] = q[i + 1]
    BY <1>1, <1>4, HeadTailProperties, EmptySeq
  <2> QED BY <1>1, <2>1, 1 \in Nat DEF Suffix
<1> QED BY <1>2, <1>3, <1>4

\* A packet is sent, or an answer is.
LEMMA Longers ==
  ASSUME NEW S, NEW q \in Seq(S), NEW a \in S
  PROVE  Longer(Append(q, a), q, a) /\ Longer(q \o <<a>>, q, a)
<1>1. Len(q) \in Nat
  OBVIOUS
<1>2. Longer(Append(q, a), q, a)
  BY <1>1, AppendProperties DEF Longer
<1>3. Append(q, a) = q \o <<a>>
  BY AppendIsConcat
<1> QED BY <1>2, <1>3

\* A reply, a packet and their xids, as numbers.
LEMMA PacketTypes ==
  ASSUME NEW q \in Seq(Requests), NEW b \in Seq(Replies)
  PROVE  /\ Len(q) \in Nat /\ \A i \in 1 .. Len(q) : q[i] \in Requests /\ q[i].xid \in Int
         /\ Len(b) \in Nat /\ \A i \in 1 .. Len(b) : b[i] \in Replies /\ b[i].xid \in Int
<1>1. /\ Len(q) \in Nat /\ \A i \in 1 .. Len(q) : q[i] \in Requests
      /\ Len(b) \in Nat /\ \A i \in 1 .. Len(b) : b[i] \in Replies
  BY ElementOfSeq, LenProperties
<1> QED BY <1>1 DEF Requests, Replies, Xids

\* Reading and losing packets keeps the rest in order, also when the client
\* has gone on to a later exchange.
LEMMA OrderedSuffix ==
  ASSUME NEW q \in Seq(Requests), NEW b \in Seq(Replies), NEW r \in Seq(Requests), NEW d \in Seq(Replies),
         Suffix(r, q), Suffix(d, b), NEW c, NEW x \in Int, NEW y \in Int, y >= x, Ordered(c, x, q, b)
  PROVE  Ordered(c, y, r, d)
<1>1. PICK n \in Nat : \A i \in 1 .. Len(r) : i + n \in 1 .. Len(q) /\ r[i] = q[i + n]
  BY DEF Suffix
<1>2. PICK o \in Nat : \A i \in 1 .. Len(d) : i + o \in 1 .. Len(b) /\ d[i] = b[i + o]
  BY DEF Suffix
<1>3. /\ Len(q) \in Nat /\ Len(r) \in Nat /\ Len(b) \in Nat /\ Len(d) \in Nat
      /\ \A i \in 1 .. Len(q) : q[i].xid \in Int
      /\ \A i \in 1 .. Len(b) : b[i].xid \in Int
  BY PacketTypes
<1>4. ASSUME NEW i \in 1 .. Len(r), r[i].mac = c
      PROVE  r[i].xid <= y /\ r[i].ask = 0 /\ r[i].type # "INFORM"
  <2>1. i + n \in 1 .. Len(q) /\ r[i] = q[i + n]
    BY <1>1
  <2>2. r[i].xid <= x /\ r[i].ask = 0 /\ r[i].type # "INFORM" /\ r[i].xid \in Int
    BY <1>3, <1>4, <2>1 DEF Ordered
  <2> QED BY <2>2
<1>5. ASSUME NEW i \in 1 .. Len(r), NEW j \in 1 .. Len(r), i < j, r[i].mac = c, r[j].mac = c
      PROVE  /\ r[i].xid <= r[j].xid
             /\ r[i].type = "REQUEST" /\ r[j].type # "REQUEST" => r[i].xid < r[j].xid
  <2>1. i + n < j + n
    BY <1>5
  <2> QED BY <1>1, <1>5, <2>1 DEF Ordered
<1>6. ASSUME NEW i \in 1 .. Len(d)
      PROVE  d[i].xid <= y /\ (d[i].type = "ACK" => d[i].yi # NoIp /\ d[i].time = MaxLease)
  <2>1. PICK e \in 1 .. Len(b) : d[i] = b[e]
    BY <1>2
  <2>2. b[e].xid <= x /\ (b[e].type = "ACK" => b[e].yi # NoIp /\ b[e].time = MaxLease)
    BY DEF Ordered
  <2>3. b[e].xid \in Int
    BY <1>3
  <2>4. b[e].xid <= y
    BY <2>2, <2>3
  <2> QED BY <2>1, <2>2, <2>4
<1>7. ASSUME NEW i \in 1 .. Len(d), NEW j \in 1 .. Len(r), r[j].mac = c
      PROVE  /\ d[i].xid <= r[j].xid
             /\ d[i].type = "ACK" /\ r[j].type # "REQUEST" => d[i].xid < r[j].xid
  BY <1>1, <1>2, <1>7 DEF Ordered
<1> QED BY <1>4, <1>5, <1>6, <1>7 DEF Ordered

\* A packet of another client is appended.
LEMMA OrderedForeign ==
  ASSUME NEW q \in Seq(Requests), NEW b \in Seq(Replies), NEW p, NEW r, Longer(r, q, p),
         NEW c, p.mac # c, NEW x, Ordered(c, x, q, b)
  PROVE  Ordered(c, x, r, b)
<1>1. Len(q) \in Nat
  OBVIOUS
<1>2. Len(r) = Len(q) + 1 /\ \A i \in 1 .. Len(r) : r[i].mac = c => i \in 1 .. Len(q) /\ r[i] = q[i]
  BY <1>1 DEF Longer
<1> QED BY <1>2 DEF Ordered

\* The client sends a packet: a REQUEST, one of a new exchange, or a DISCOVER
\* of an exchange in which there is nothing to be acknowledged.
LEMMA OrderedSend ==
  ASSUME NEW q \in Seq(Requests), NEW b \in Seq(Replies), NEW p \in Requests, NEW r, Longer(r, q, p),
         NEW c, p.mac = c, NEW x \in Int, NEW y \in Int, y >= x, Ordered(c, x, q, b),
         p.xid = y, p.ask = 0, p.type # "INFORM",
         p.type = "REQUEST" \/ y > x \/ (Asking(c, y, q) = {} /\ Acking(y, b) = {})
  PROVE  Ordered(c, y, r, b)
<1>1. /\ Len(q) \in Nat /\ \A i \in 1 .. Len(q) : q[i].xid \in Int
      /\ Len(b) \in Nat /\ \A i \in 1 .. Len(b) : b[i].xid \in Int
  BY PacketTypes
<1>2. /\ Len(r) = Len(q) + 1
      /\ \A i \in 1 .. Len(r) : (i \in 1 .. Len(q) /\ r[i] = q[i]) \/ (i = Len(q) + 1 /\ r[i] = p)
  BY <1>1 DEF Longer
<1>3. ASSUME NEW i \in 1 .. Len(q), q[i].mac = c
      PROVE  q[i].xid <= y /\ (q[i].type = "REQUEST" /\ p.type # "REQUEST" => q[i].xid < y)
  BY <1>1, <1>3 DEF Ordered, Asking
<1>4. ASSUME NEW i \in 1 .. Len(b)
      PROVE  b[i].xid <= y /\ (b[i].type = "ACK" /\ p.type # "REQUEST" => b[i].xid < y)
  BY <1>1, <1>4 DEF Ordered, Acking
<1>5. ASSUME NEW i \in 1 .. Len(r), r[i].mac = c
      PROVE  r[i].xid <= y /\ r[i].ask = 0 /\ r[i].type # "INFORM"
  BY <1>2, <1>3, <1>5 DEF Ordered
<1>6. ASSUME NEW i \in 1 .. Len(r), NEW j \in 1 .. Len(r), i < j, r[i].mac = c, r[j].mac = c
      PROVE  /\ r[i].xid <= r[j].xid
             /\ r[i].type = "REQUEST" /\ r[j].type # "REQUEST" => r[i].xid < r[j].xid
  <2>1. i \in 1 .. Len(q) /\ r[i] = q[i]
    BY <1>1, <1>2, <1>6
  <2>2. CASE j \in 1 .. Len(q) /\ r[j] = q[j]
    BY <1>6, <2>1, <2>2 DEF Ordered
  <2>3. CASE r[j] = p
    BY <1>3, <1>6, <2>1, <2>3
  <2> QED BY <1>2, <2>2, <2>3
<1>7. ASSUME NEW i \in 1 .. Len(b)
      PROVE  b[i].xid <= y /\ (b[i].type = "ACK" => b[i].yi # NoIp /\ b[i].time = MaxLease)
  BY <1>4, <1>7 DEF Ordered
<1>8. ASSUME NEW i \in 1 .. Len(b), NEW j \in 1 .. Len(r), r[j].mac = c
      PROVE  /\ b[i].xid <= r[j].xid
             /\ b[i].type = "ACK" /\ r[j].type # "REQUEST" => b[i].xid < r[j].xid
  <2>1. CASE j \in 1 .. Len(q) /\ r[j] = q[j]
    BY <1>8, <2>1 DEF Ordered
  <2>2. CASE r[j] = p
    BY <1>4, <1>8, <2>2
  <2> QED BY <1>2, <2>1, <2>2
<1> QED BY <1>5, <1>6, <1>7, <1>8 DEF Ordered

\* The server answers the first packet.
LEMMA OrderedReply ==
  ASSUME NEW q \in Seq(Requests), NEW b \in Seq(Replies), q # <<>>, NEW a \in Replies,
         NEW d, Longer(d, b, a), NEW c, q[1].mac = c, NEW x \in Int, Ordered(c, x, q, b),
         a.xid = q[1].xid,
         a.type = "ACK" => q[1].type = "REQUEST" /\ a.yi # NoIp /\ a.time = MaxLease
  PROVE  Ordered(c, x, Tail(q), d)
<1>1. /\ Len(q) \in Nat /\ \A i \in 1 .. Len(q) : q[i].xid \in Int
      /\ Len(b) \in Nat /\ \A i \in 1 .. Len(b) : b[i].xid \in Int
  BY PacketTypes
<1>2. PICK r \in Seq(Requests) : r = Tail(q)
  BY HeadTailProperties
<1>3. Suffix(r, q) /\ Suffix(b, b) /\ 1 \in 1 .. Len(q)
  BY <1>2, SuffixesAre
<1>4. Ordered(c, x, r, b)
  BY <1>3, OrderedSuffix
<1>5. /\ Len(d) = Len(b) + 1
      /\ \A i \in 1 .. Len(d) : (i \in 1 .. Len(b) /\ d[i] = b[i]) \/ (i = Len(b) + 1 /\ d[i] = a)
  BY <1>1 DEF Longer
<1>6. ASSUME NEW j \in 1 .. Len(r), r[j].mac = c
      PROVE  a.xid <= r[j].xid /\ (a.type = "ACK" /\ r[j].type # "REQUEST" => a.xid < r[j].xid)
  <2>1. j + 1 \in 1 .. Len(q) /\ r[j] = q[j + 1] /\ 1 < j + 1
    BY <1>1, <1>2, <1>3, HeadTailProperties
  <2> QED BY <1>3, <1>6, <2>1 DEF Ordered
<1>7. ASSUME NEW i \in 1 .. Len(d)
      PROVE  d[i].xid <= x /\ (d[i].type = "ACK" => d[i].yi # NoIp /\ d[i].time = MaxLease)
  <2>1. q[1].xid <= x
    BY <1>3 DEF Ordered
  <2>2. CASE i \in 1 .. Len(b) /\ d[i] = b[i]
    BY <2>2 DEF Ordered
  <2>3. CASE d[i] = a
    BY <2>1, <2>3
  <2> QED BY <1>5, <2>2, <2>3
<1>8. ASSUME NEW i \in 1 .. Len(d), NEW j \in 1 .. Len(r), r[j].mac = c
      PROVE  /\ d[i].xid <= r[j].xid
             /\ d[i].type = "ACK" /\ r[j].type # "REQUEST" => d[i].xid < r[j].xid
  <2>2. CASE i \in 1 .. Len(b) /\ d[i] = b[i]
    BY <1>4, <1>8, <2>2 DEF Ordered
  <2>3. CASE d[i] = a
    BY <1>6, <1>8, <2>3
  <2> QED BY <1>5, <2>2, <2>3
<1>9. Ordered(c, x, r, d)
  BY <1>4, <1>7, <1>8 DEF Ordered
<1> QED BY <1>2, <1>9

\* The REQUESTs and ACKs of an exchange after packets were read or lost.
LEMMA MatchedSuffix ==
  ASSUME NEW q \in Seq(Requests), NEW b \in Seq(Replies), NEW r, NEW d, Suffix(r, q), Suffix(d, b),
         NEW c, NEW k, Matched(c, k, q, b)
  PROVE  Matched(c, k, r, d)
<1>1. PICK n \in Nat : \A i \in 1 .. Len(r) : i + n \in 1 .. Len(q) /\ r[i] = q[i + n]
  BY DEF Suffix
<1>2. PICK o \in Nat : \A i \in 1 .. Len(d) : i + o \in 1 .. Len(b) /\ d[i] = b[i + o]
  BY DEF Suffix
<1>3. PICK x : x = k.xid
  OBVIOUS
<1>4. \A i \in 1 .. Len(r) : /\ i \in Asking(c, x, r) <=> i + n \in Asking(c, x, q)
                             /\ r[i] = q[i + n] /\ i + n \in 1 .. Len(q)
  BY <1>1 DEF Asking
<1>5. \A i \in 1 .. Len(d) : (i \in Acking(x, d) <=> i + o \in Acking(x, b)) /\ d[i] = b[i + o]
  BY <1>2 DEF Acking
<1>6. /\ \A i \in Asking(c, x, r) : i \in 1 .. Len(r)
      /\ \A i \in Acking(x, d) : i \in 1 .. Len(d)
  BY DEF Asking, Acking
<1>7. /\ k.st = "INIT_SELECTING" /\ k.open => k.num > 0
      /\ k.st = "INIT_SELECTING" /\ k.num > 0 => Asking(c, x, r) = {} /\ Acking(x, d) = {}
  BY <1>3, <1>4, <1>5, <1>6 DEF Matched
<1>8. k.st \in Engaged => /\ \A i \in Asking(c, x, r) : WantedIp(r[i]) = k.req
                          /\ \A i \in Acking(x, d) : d[i].yi = k.req
  BY <1>3, <1>4, <1>5, <1>6 DEF Matched
<1>9. k.st \in Lasting => \A i \in 1 .. Len(r) : r[i].mac = c => i \in Asking(c, x, r)
  BY <1>3, <1>4 DEF Matched
<1> QED BY <1>3, <1>7, <1>8, <1>9 DEF Matched

\* A packet of another client is none of the exchange.
LEMMA MatchedForeign ==
  ASSUME NEW q \in Seq(Requests), NEW b \in Seq(Replies), NEW p, NEW r, Longer(r, q, p),
         NEW c, p.mac # c, NEW k, Matched(c, k, q, b)
  PROVE  Matched(c, k, r, b)
<1>1. Len(q) \in Nat
  OBVIOUS
<1>2. /\ Len(r) = Len(q) + 1
      /\ \A i \in 1 .. Len(q) : r[i] = q[i]
      /\ \A i \in 1 .. Len(r) : r[i].mac = c => i \in 1 .. Len(q) /\ r[i] = q[i]
  BY <1>1 DEF Longer
<1>3. \A x : Asking(c, x, r) = Asking(c, x, q)
  BY <1>1, <1>2 DEF Asking
<1>4. \A i \in Asking(c, k.xid, r) : r[i] = q[i]
  BY <1>2 DEF Asking
<1> QED BY <1>2, <1>3, <1>4 DEF Matched

\* A REQUEST for the chosen address joins the exchange.
LEMMA MatchedRequest ==
  ASSUME NEW q \in Seq(Requests), NEW b \in Seq(Replies), NEW p, NEW r, Longer(r, q, p),
         NEW c, p.mac = c, NEW k, Matched(c, k, q, b),
         NEW j, j.st \in Engaged, j.xid = k.xid, j.req = k.req, k.st \in Engaged,
         j.st \in Lasting => k.st \in Lasting,
         p.type = "REQUEST", p.xid = k.xid, WantedIp(p) = k.req
  PROVE  Matched(c, j, r, b)
<1>1. Len(q) \in Nat
  OBVIOUS
<1>2. /\ Len(r) = Len(q) + 1
      /\ \A i \in 1 .. Len(r) : (i \in 1 .. Len(q) /\ r[i] = q[i]) \/ r[i] = p
  BY <1>1 DEF Longer
<1>3. PICK x : x = k.xid
  OBVIOUS
<1>4. /\ \A i \in Asking(c, x, q) : WantedIp(q[i]) = k.req
      /\ \A i \in Acking(x, b) : b[i].yi = k.req
      /\ k.st \in Lasting => \A i \in 1 .. Len(q) : q[i].mac = c => i \in Asking(c, x, q)
  BY <1>3 DEF Matched
<1>5. ASSUME NEW i \in Asking(c, x, r) PROVE WantedIp(r[i]) = k.req
  <2>1. i \in 1 .. Len(r) /\ r[i].mac = c /\ r[i].type = "REQUEST" /\ r[i].xid = x
    BY <1>5 DEF Asking
  <2>2. CASE i \in 1 .. Len(q) /\ r[i] = q[i]
    <3>1. i \in Asking(c, x, q)
      BY <2>1, <2>2 DEF Asking
    <3> QED BY <1>4, <2>2, <3>1
  <2>3. CASE r[i] = p
    BY <2>3
  <2> QED BY <1>2, <2>1, <2>2, <2>3
<1>6. ASSUME k.st \in Lasting, NEW i \in 1 .. Len(r), r[i].mac = c PROVE i \in Asking(c, x, r)
  <2>1. CASE i \in 1 .. Len(q) /\ r[i] = q[i]
    <3>1. i \in Asking(c, x, q)
      BY <1>4, <1>6, <2>1
    <3> QED BY <1>6, <2>1, <3>1 DEF Asking
  <2>2. CASE r[i] = p
    BY <1>3, <1>6, <2>2 DEF Asking
  <2> QED BY <1>2, <2>1, <2>2
<1>7. j.st # "INIT_SELECTING"
  BY DEF Engaged, Lasting, Holding
<1> QED BY <1>3, <1>4, <1>5, <1>6, <1>7 DEF Matched

\* The client goes on with the exchange it is in.
LEMMA MatchedSame ==
  ASSUME NEW c, NEW q, NEW b, NEW k, Matched(c, k, q, b), NEW j, j.st \in Engaged, k.st \in Engaged,
         j.xid = k.xid, j.req = k.req, j.st \in Lasting => k.st \in Lasting
  PROVE  Matched(c, j, q, b)
<1>1. j.st # "INIT_SELECTING"
  BY DEF Engaged, Lasting, Holding
<1> QED BY <1>1 DEF Matched

\* Nothing is to be acknowledged in a new exchange, or while a client selects.
LEMMA ExchangeFresh ==
  ASSUME NEW q \in Seq(Requests), NEW b \in Seq(Replies), NEW c, NEW k, Matched(c, k, q, b),
         Ordered(c, k.xid, q, b), k.xid \in Int, NEW x,
         \/ x \in Int /\ x > k.xid
         \/ x = k.xid /\ k.st = "INIT_SELECTING" /\ k.num > 0
  PROVE  Asking(c, x, q) = {} /\ Acking(x, b) = {}
<1>1. /\ Len(q) \in Nat /\ \A i \in 1 .. Len(q) : q[i].xid \in Int
      /\ Len(b) \in Nat /\ \A i \in 1 .. Len(b) : b[i].xid \in Int
  BY PacketTypes
<1>2. CASE x \in Int /\ x > k.xid
  <2>1. \A i \in 1 .. Len(q) : q[i].mac = c => q[i].xid # x
    BY <1>1, <1>2 DEF Ordered
  <2>2. \A i \in 1 .. Len(b) : b[i].xid # x
    BY <1>1, <1>2 DEF Ordered
  <2> QED BY <2>1, <2>2 DEF Asking, Acking
<1>3. CASE x = k.xid /\ k.st = "INIT_SELECTING" /\ k.num > 0
  BY <1>3 DEF Matched
<1> QED BY <1>2, <1>3

\* A client that selects sends a DISCOVER, of a new exchange or the same.
LEMMA MatchedDiscover ==
  ASSUME NEW q \in Seq(Requests), NEW b \in Seq(Replies), NEW p, NEW r, Longer(r, q, p), p.type # "REQUEST",
         NEW c, NEW j, j.st = "INIT_SELECTING", j.num > 0, Asking(c, j.xid, q) = {}, Acking(j.xid, b) = {}
  PROVE  Matched(c, j, r, b)
<1>1. Len(q) \in Nat
  OBVIOUS
<1>2. Asking(c, j.xid, r) = {}
  <2>1. \A i \in 1 .. Len(r) : (i \in 1 .. Len(q) /\ r[i] = q[i]) \/ r[i] = p
    BY <1>1 DEF Longer
  <2> QED BY <2>1 DEF Asking
<1>3. j.st \notin Engaged /\ j.st \notin Lasting
  BY DEF Engaged, Lasting, Holding
<1> QED BY <1>2, <1>3 DEF Matched

\* Without an address, and with nothing asked for, anything may be on its way.
LEMMA MatchedEnd ==
  ASSUME NEW c, NEW q, NEW b, NEW j, j.st \notin Engaged,
         j.st = "INIT_SELECTING" => j.num = 0 /\ ~j.open
  PROVE  Matched(c, j, q, b)
<1>1. j.st \notin Lasting
  BY DEF Engaged
<1>2. j.st = "INIT_SELECTING" => ~(j.num > 0)
  OBVIOUS
<1> QED BY <1>1, <1>2 DEF Matched

\* An OFFER is taken.
LEMMA MatchedOffer ==
  ASSUME NEW c, NEW q, NEW b, NEW k, Matched(c, k, q, b), k.st = "INIT_SELECTING", k.open,
         NEW j, j.st = "REQUESTING", j.xid = k.xid
  PROVE  Matched(c, j, q, b) /\ Acking(j.xid, b) = {}
<1>1. Asking(c, k.xid, q) = {} /\ Acking(k.xid, b) = {}
  BY DEF Matched
<1>2. j.st \notin Lasting /\ j.st # "INIT_SELECTING"
  BY DEF Lasting, Holding
<1> QED BY <1>1, <1>2 DEF Matched

\* An ACK is taken: everything of the client that the server has not read is
\* a REQUEST of this exchange.
LEMMA MatchedAck ==
  ASSUME NEW q \in Seq(Requests), NEW b \in Seq(Replies), b # <<>>, b[1].type = "ACK",
         NEW c, NEW k, Matched(c, k, q, b), Ordered(c, k.xid, q, b), k.xid \in Int, k.st \in Engaged,
         b[1].xid = k.xid, NEW j, j.st \in {"BOUND", "PROBING"}, j.xid = k.xid, j.req = b[1].yi
  PROVE  Matched(c, j, q, b) /\ j.req = k.req
<1>1. /\ Len(q) \in Nat /\ \A i \in 1 .. Len(q) : q[i].xid \in Int
      /\ Len(b) \in Nat /\ \A i \in 1 .. Len(b) : b[i].xid \in Int
  BY PacketTypes
<1>2. 1 \in 1 .. Len(b)
  BY SuffixesAre
<1>3. 1 \in Acking(k.xid, b)
  BY <1>2 DEF Acking
<1>4. j.req = k.req
  BY <1>3 DEF Matched
<1>5. ASSUME NEW i \in 1 .. Len(q), q[i].mac = c PROVE i \in Asking(c, k.xid, q)
  <2>1. q[i].xid <= k.xid /\ b[1].xid <= q[i].xid /\ (q[i].type # "REQUEST" => b[1].xid < q[i].xid)
    BY <1>2, <1>5 DEF Ordered
  <2>2. q[i].xid = k.xid /\ q[i].type = "REQUEST"
    BY <1>1, <2>1
  <2> QED BY <1>5, <2>2 DEF Asking
<1>6. j.st \in Lasting /\ j.st \in Engaged
  BY DEF Engaged, Lasting, Holding
<1> QED BY <1>4, <1>5, <1>6 DEF Matched

\* The server answers the first packet: an ACK is for the chosen address.
LEMMA MatchedReply ==
  ASSUME NEW q \in Seq(Requests), NEW b \in Seq(Replies), q # <<>>, NEW a, NEW d, Longer(d, b, a),
         NEW c, q[1].mac = c, NEW k, Matched(c, k, q, b), a.xid = q[1].xid,
         a.type = "ACK" => q[1].type = "REQUEST" /\ a.yi = WantedIp(q[1])
  PROVE  Matched(c, k, Tail(q), d)
<1>1. Len(b) \in Nat
  OBVIOUS
<1>2. PICK r : r = Tail(q)
  OBVIOUS
<1>3. Suffix(r, q) /\ Suffix(b, b) /\ 1 \in 1 .. Len(q)
  BY <1>2, SuffixesAre
<1>4. Matched(c, k, r, b)
  BY <1>3, MatchedSuffix
<1>5. \A i \in 1 .. Len(d) : (i \in 1 .. Len(b) /\ d[i] = b[i]) \/ d[i] = a
  BY <1>1 DEF Longer
<1>6. PICK x : x = k.xid
  OBVIOUS
<1>7. ASSUME NEW i \in Acking(x, d)
      PROVE  \/ i \in Acking(x, b) /\ d[i] = b[i]
             \/ 1 \in Asking(c, x, q) /\ d[i].yi = WantedIp(q[1])
  <2>1. i \in 1 .. Len(d) /\ d[i].type = "ACK" /\ d[i].xid = x
    BY <1>7 DEF Acking
  <2>2. CASE i \in 1 .. Len(b) /\ d[i] = b[i]
    BY <2>1, <2>2 DEF Acking
  <2>3. CASE d[i] = a
    BY <1>3, <2>1, <2>3 DEF Asking
  <2> QED BY <1>5, <2>1, <2>2, <2>3
<1>8. k.st = "INIT_SELECTING" /\ k.num > 0 => Acking(x, d) = {}
  BY <1>6, <1>7 DEF Matched
<1>9. k.st \in Engaged => \A i \in Acking(x, d) : d[i].yi = k.req
  BY <1>6, <1>7 DEF Matched
<1>10. Matched(c, k, r, d)
  BY <1>4, <1>6, <1>8, <1>9 DEF Matched
<1> QED BY <1>2, <1>10

-----------------------------------------------------------------------------
(* What the steps of a client do to its exchange                           *)

\* A packet of one of the types, of exchange x, is sent; or the server is down.
Posts(c, types, x) ==
  \/ inbox' = inbox
  \/ \E p \in FromClients : /\ p.mac = c /\ p.xid = x /\ p.ask = 0 /\ p.type \in types
                            /\ inbox' = Append(inbox, p)

PostsRequest(c, x, ip) ==
  \/ inbox' = inbox
  \/ \E p \in FromClients : /\ p.mac = c /\ p.xid = x /\ p.ask = 0 /\ p.type = "REQUEST"
                            /\ WantedIp(p) = ip /\ inbox' = Append(inbox, p)

\* Client c, k before the step and j after it, has no lease and asks for none.
Leaves(c, k, j) ==
  /\ j.st \notin Engaged /\ (j.st = "INIT_SELECTING" => j.num = 0 /\ ~j.open)
  /\ j.xid >= k.xid /\ (mail' = mail \/ Reading(c))
  /\ inbox' = inbox \/ (j.xid > k.xid /\ Posts(c, {"DECLINE", "RELEASE"}, j.xid))

\* It sends a DISCOVER.
Discovers(c, k, j) ==
  /\ k.st = "INIT_SELECTING" /\ j.st = "INIT_SELECTING" /\ j.num > 0
  /\ j.xid > k.xid \/ (j.xid = k.xid /\ k.num > 0)
  /\ mail' = mail /\ Posts(c, {"DISCOVER"}, j.xid)

\* It chooses an offer.
Chooses(c, k, j) ==
  /\ k.st = "INIT_SELECTING" /\ k.open /\ j.st = "REQUESTING" /\ j.xid = k.xid
  /\ Reading(c) /\ inbox' = inbox

\* It goes on asking for its address, or holding it.
Same(k, j) == /\ j.xid = k.xid /\ j.req = k.req /\ Trust(j) <= Trust(k)
              /\ k.st \in Engaged /\ j.st \in Engaged /\ (j.st \in Lasting <=> k.st \in Lasting)
GoesOn(c, k, j) == Same(k, j) /\ Timed(j) /\ mail' = mail /\ PostsRequest(c, k.xid, k.req)

\* It takes an ACK.
Binds(c, k, j) ==
  /\ k.st \in Engaged /\ Reading(c) /\ inbox' = inbox
  /\ mail[c][1].type = "ACK" /\ mail[c][1].xid = k.xid
  /\ j.st \in {"BOUND", "PROBING"} /\ j.xid = k.xid /\ j.req = mail[c][1].yi
  /\ Trust(j) <= mail[c][1].time /\ Timed(j)

Turn(c, k) == \E j : /\ client' = [client EXCEPT ![c] = j]
                     /\ \/ Leaves(c, k, j) \/ Discovers(c, k, j) \/ Chooses(c, k, j)
                        \/ GoesOn(c, k, j) \/ Binds(c, k, j)

\* What a client may rely on is no more than it counts.
LEMMA TrustType ==
  ASSUME NEW k \in ClientRecs, k.st \in Lasting, Timed(k)
  PROVE  /\ Trust(k) \in Int /\ k.left \in Int /\ Trust(k) <= k.left
         /\ Trust(k) >= k.left - ProbeTime /\ k.req # NoIp
<1>1. k.left \in Int /\ k.timeout \in Int /\ k.left <= MaxLease /\ k.timeout >= 0 /\ k.req # NoIp
  BY ClientNumbers DEF ClientRecs, Timed
<1>2. k.st = "PROBING" => k.timeout <= ProbeTime
  BY DEF Timed
<1>3. ProbeTime \in Nat
  BY DhcpAssumption
<1> QED BY <1>1, <1>2, <1>3 DEF Trust

\* What a client may rely on once its address is configured.
LEMMA TrustIs ==
  /\ ProbeTime \in Nat
  /\ \A k : k.st # "PROBING" => Trust(k) = k.left - ProbeTime
  /\ \A st \in Holding : st # "PROBING" /\ st \in Lasting /\ st \in Engaged
BY DhcpAssumption DEF Trust, Holding, Lasting, Engaged

\* The packet that Send sends.
LEMMA SendPosts ==
  ASSUME NEW type \in {"DISCOVER", "REQUEST", "DECLINE", "RELEASE"}, NEW c \in Clients, NEW xid \in Xids,
         NEW req \in IpsOrNone, NEW ci \in IpsOrNone, NEW sid \in BOOLEAN,
         Send(Packet(type, c, xid, req, ci, sid, 0))
  PROVE  /\ \A types : type \in types => Posts(c, types, xid)
         /\ \A ip : type = "REQUEST" /\ ip = (IF req # NoIp THEN req ELSE ci) => PostsRequest(c, xid, ip)
<1>1. PICK p : p = Packet(type, c, xid, req, ci, sid, 0)
  OBVIOUS
<1>2. c \in Macs
  BY DEF Macs
<1>3. p \in FromClients
  BY <1>1, <1>2, PacketType DEF FromClients
<1>4. inbox' = inbox \/ inbox' = Append(inbox, p)
  BY <1>1 DEF Send
<1>5. p.type = type /\ p.mac = c /\ p.xid = xid /\ p.ask = 0 /\ p.req = req /\ p.ci = ci
  BY <1>1 DEF Packet
<1> QED BY <1>3, <1>4, <1>5 DEF Posts, PostsRequest, WantedIp

\* A renewal asks for the address the client has.
LEMMA RenewPosts ==
  ASSUME NEW c \in Clients, NEW k \in ClientRecs, Send(RenewPacket(c, k))
  PROVE  PostsRequest(c, k.xid, k.req)
<1>1. PICK no \in BOOLEAN : no = FALSE
  OBVIOUS
<1>2. Send(Packet("REQUEST", c, k.xid, NoIp, k.req, no, 0))
  BY <1>1, Zenon DEF RenewPacket
<1>3. k.xid \in Xids /\ k.req \in IpsOrNone /\ NoIp \in IpsOrNone
  BY ClientNumbers DEF ClientRecs
<1>4. \A ip : ip = (IF NoIp # NoIp THEN NoIp ELSE k.req) => PostsRequest(c, k.xid, ip)
  BY <1>2, <1>3, SendPosts
<1> QED BY <1>4

\* Back to INIT_SELECTING, in whatever order the address was given up.
LEMMA ReinitEnds ==
  ASSUME NEW k \in ClientRecs, NEW timeout, NEW j, j = Reinit(k, timeout) \/ j = Reinit(Deconfigured(k), timeout)
  PROVE  j.st = "INIT_SELECTING" /\ j.num = 0 /\ ~j.open /\ j.xid = k.xid
<1>1. PICK d \in ClientRecs : d.xid = k.xid /\ j = Reinit(d, timeout)
  <2>1. CASE j = Reinit(k, timeout)
    BY <2>1
  <2>2. CASE j = Reinit(Deconfigured(k), timeout)
    <3>1. PICK d : d = Deconfigured(k)
      OBVIOUS
    <3>2. d \in ClientRecs /\ d.xid = k.xid
      BY <3>1, DeconfiguredOK DEF Deconfigured, ClientRecs
    <3> QED BY <2>2, <3>1, <3>2
  <2> QED BY <2>1, <2>2
<1>2. PICK no \in BOOLEAN : no = FALSE
  OBVIOUS
<1>3. j = [d EXCEPT !.st = "INIT_SELECTING", !.num = 0, !.timeout = timeout, !.left = 0, !.open = no]
  BY <1>1, <1>2, Zenon DEF Reinit
<1>4. j.st = "INIT_SELECTING" /\ j.num = 0 /\ j.open = no /\ j.xid = d.xid
  BY <1>3 DEF ClientRecs
<1> QED BY <1>1, <1>2, <1>4

\* A client that starts again leaves its exchange.
LEMMA ReinitLeaves ==
  ASSUME NEW c, NEW k \in ClientRecs, NEW o, o.xid = k.xid, NEW timeout,
         NEW j, j = Reinit(k, timeout) \/ j = Reinit(Deconfigured(k), timeout),
         inbox' = inbox, mail' = mail \/ Reading(c)
  PROVE  Leaves(c, o, j)
<1>1. j.st = "INIT_SELECTING" /\ j.num = 0 /\ ~j.open /\ j.xid = o.xid
  BY ReinitEnds
<1>2. j.st \notin Engaged /\ o.xid \in Int
  BY <1>1 DEF Engaged, Lasting, Holding, ClientRecs, Xids
<1> QED BY <1>1, <1>2 DEF Leaves

\* k is client o with its lease, perhaps cut short.
Still(k, o) == /\ k \in ClientRecs /\ k.st \in Holding /\ o.st \in Holding
               /\ k.xid = o.xid /\ k.req = o.req /\ k.left <= o.left /\ o.left \in Int
               /\ k.left <= MaxLease /\ k.req # NoIp

\* It goes on with it.
LEMMA StillSame ==
  ASSUME NEW k, NEW o, Still(k, o), NEW j, j.st \in Holding, j.timeout \in Int, j.timeout >= 0,
         j.xid = k.xid, j.req = k.req, j.left = k.left
  PROVE  Same(o, j) /\ Timed(j)
<1>1. /\ k.left \in Int /\ o.left \in Int /\ k.left <= o.left /\ k.left <= MaxLease /\ k.req # NoIp
      /\ k.xid = o.xid /\ k.req = o.req /\ o.st \in Holding
  BY ClientNumbers DEF Still, ClientRecs
<1>2. Trust(j) = k.left - ProbeTime /\ Trust(o) = o.left - ProbeTime /\ ProbeTime \in Int
  BY <1>1, TrustIs
<1>3. Trust(j) <= Trust(o)
  BY <1>1, <1>2
<1>4. j.st # "PROBING" /\ j.st \in Lasting /\ j.st \in Engaged /\ o.st \in Lasting /\ o.st \in Engaged
  BY <1>1, TrustIs
<1> QED BY <1>1, <1>3, <1>4 DEF Same, Timed

\* A rebinding goes on with the exchange, or gives it up.
LEMMA RebindTurn ==
  ASSUME NEW c \in Clients, NEW k, NEW o, Still(k, o), Rebind(c, k), mail' = mail
  PROVE  Turn(c, o)
<1>0. k \in ClientRecs /\ k.st \in Holding /\ k.left \in Int
  BY ClientNumbers DEF Still, ClientRecs
<1>1. CASE k.left > 0 /\ k.num < 3
  <2>1. PICK j : j = [k EXCEPT !.st = "REBINDING", !.open = TRUE, !.num = @ + 1, !.timeout = DiscoverTimeout]
    OBVIOUS
  <2>2. Becomes(c, j) /\ Send(RenewPacket(c, k))
    BY <1>1, <2>1 DEF Rebind
  <2>3. /\ j.st = "REBINDING" /\ j.xid = k.xid /\ j.req = k.req /\ j.left = k.left
        /\ j.timeout = DiscoverTimeout
    BY <1>0, <2>1 DEF ClientRecs
  <2>4. j.st \in Holding /\ j.timeout \in Int /\ j.timeout >= 0
    BY <2>3, ClientNumbers DEF Holding
  <2>5. Same(o, j) /\ Timed(j)
    BY <2>3, <2>4, StillSame
  <2>6. PostsRequest(c, o.xid, o.req)
    BY <1>0, <2>2, RenewPosts DEF Still
  <2> QED BY <2>2, <2>5, <2>6 DEF Turn, GoesOn, Becomes
<1>2. CASE ~(k.left > 0 /\ k.num < 3)
  <2>1. PICK j : j = Reinit(Deconfigured(k), 0)
    OBVIOUS
  <2>2. Becomes(c, j) /\ inbox' = inbox
    BY <1>2, <2>1 DEF Rebind
  <2>3. Leaves(c, o, j)
    BY <1>0, <2>1, <2>2, ReinitLeaves DEF Still
  <2> QED BY <2>2, <2>3 DEF Turn, Becomes
<1> QED BY <1>1, <1>2

\* So does a renewal without an answer.
LEMMA RenewUnansweredTurn ==
  ASSUME NEW c \in Clients, NEW k, NEW o, Still(k, o), RenewUnanswered(c, k), mail' = mail
  PROVE  Turn(c, o)
<1>0. k \in ClientRecs /\ k.left \in Int /\ k.left >= 0 /\ Low \in Int
  BY ClientNumbers DEF Still, ClientRecs
<1>1. CASE k.left > Low
  <2>1. PICK j : j = BoundForHalfLease(k)
    OBVIOUS
  <2>2. Becomes(c, j) /\ inbox' = inbox
    BY <1>1, <2>1 DEF RenewUnanswered
  <2>3. /\ j.st = "BOUND" /\ j.xid = k.xid /\ j.req = k.req /\ j.left = k.left
        /\ j.timeout = k.left \div 2
    BY <1>0, <2>1 DEF BoundForHalfLease, ClientRecs
  <2>4. j.st \in Holding /\ j.timeout \in Int /\ j.timeout >= 0
    BY <1>0, <2>3 DEF Holding
  <2>5. Same(o, j) /\ Timed(j)
    BY <2>3, <2>4, StillSame
  <2> QED BY <2>2, <2>5 DEF Turn, GoesOn, Becomes, PostsRequest
<1>2. CASE ~(k.left > Low)
  <2>1. PICK j : j = [k EXCEPT !.num = 0]
    OBVIOUS
  <2>2. Still(j, o)
    BY <1>0, <2>1, ClientNumbers DEF Still, ClientRecs
  <2>3. Rebind(c, j)
    BY <1>2, <2>1 DEF RenewUnanswered
  <2> QED BY <2>2, <2>3, RebindTurn
<1> QED BY <1>1, <1>2

\* And a renewal.
LEMMA RenewTurn ==
  ASSUME NEW c \in Clients, NEW k, NEW o, Still(k, o), Renew(c, k), mail' = mail
  PROVE  Turn(c, o)
<1>0. k \in ClientRecs /\ k.left \in Int
  BY ClientNumbers DEF Still, ClientRecs
<1>1. CASE Send(RenewPacket(c, k))
           /\ Becomes(c, [k EXCEPT !.open = TRUE, !.num = 1, !.timeout = DiscoverTimeout])
  <2>1. PICK j : j = [k EXCEPT !.open = TRUE, !.num = 1, !.timeout = DiscoverTimeout]
    OBVIOUS
  <2>2. /\ j.st = k.st /\ j.xid = k.xid /\ j.req = k.req /\ j.left = k.left
        /\ j.timeout = DiscoverTimeout
    BY <1>0, <2>1 DEF ClientRecs
  <2>3. j.st \in Holding /\ j.timeout \in Int /\ j.timeout >= 0
    BY <2>2, ClientNumbers DEF Still
  <2>4. Same(o, j) /\ Timed(j)
    BY <2>2, <2>3, StillSame
  <2>5. PostsRequest(c, o.xid, o.req)
    BY <1>0, <1>1, RenewPosts DEF Still
  <2> QED BY <1>1, <2>1, <2>4, <2>5 DEF Turn, GoesOn, Becomes
<1>2. CASE RenewUnanswered(c, k)
  BY <1>2, RenewUnansweredTurn
<1> QED BY <1>1, <1>2 DEF Renew

\* The lease of a client, as a number.
LEMMA StillIs ==
  ASSUME Hosts, Exchanges, NEW c \in Clients, NEW k, k = client[c], k.st \in Holding
  PROVE  Still(k, k) /\ k.timeout \in Int /\ k.left \in Int /\ k.left >= 0
<1>1. k \in ClientRecs /\ Timed(k)
  BY DueIs DEF Exchanges
<1>2. k.timeout \in Int /\ k.left \in Int /\ k.left >= 0
  BY <1>1, ClientNumbers DEF ClientRecs
<1> QED BY <1>1, <1>2, TrustIs DEF Still, Timed

\* Half of the lease is over, a renewal or a rebinding was not answered.
LEMMA LeaseTurn ==
  ASSUME Hosts, Exchanges, NEW c \in Clients, HalfLeasePassed(c) \/ RenewTimedOut(c) \/ RebindTimedOut(c)
  PROVE  Turn(c, client[c])
<1>1. PICK k : k = client[c]
  OBVIOUS
<1>2. CASE HalfLeasePassed(c)
  <2>1. k.st = "BOUND" /\ k.timeout = 0 /\ mail' = mail
    BY <1>1, <1>2 DEF HalfLeasePassed, Due
  <2>2. Still(k, k) /\ k.left \in Int /\ k.left >= 0
    BY <1>1, <2>1, StillIs DEF Holding
  <2>4. PICK j : j = [k EXCEPT !.st = "RENEWING"]
    OBVIOUS
  <2>5. Still(j, k) /\ j.st = "RENEWING" /\ j.left = k.left
    BY <2>2, <2>4 DEF Still, ClientRecs, States, Holding
  <2>6. Renew(c, j)
    BY <1>1, <1>2, <2>4 DEF HalfLeasePassed
  <2> QED BY <1>1, <2>1, <2>5, <2>6, RenewTurn
<1>3. CASE RenewTimedOut(c)
  <2>1. k.st \in Holding /\ RenewUnanswered(c, k) /\ mail' = mail
    BY <1>1, <1>3 DEF RenewTimedOut, Due, Holding
  <2> QED BY <1>1, <2>1, StillIs, RenewUnansweredTurn
<1>4. CASE RebindTimedOut(c)
  <2>1. k.st \in Holding /\ Rebind(c, k) /\ mail' = mail
    BY <1>1, <1>4 DEF RebindTimedOut, Due, Holding
  <2> QED BY <1>1, <2>1, StillIs, RebindTurn
<1> QED BY <1>2, <1>3, <1>4

\* A DISCOVER is sent.
LEMMA SendDiscoverTurn ==
  ASSUME Hosts, NEW c \in Clients, SendDiscover(c)
  PROVE  Turn(c, client[c])
<1>1. PICK k : k = client[c]
  OBVIOUS
<1>2. k \in ClientRecs /\ k.xid \in Nat /\ k.num \in Nat
  BY <1>1, DueIs, ClientNumbers DEF ClientRecs, Xids, Nums
<1>3. PICK xid : xid = IF k.num = 0 THEN NextXid(k.xid) ELSE k.xid
  OBVIOUS
<1>4. xid \in Xids /\ (xid > k.xid \/ (xid = k.xid /\ k.num > 0))
  BY <1>2, <1>3 DEF NextXid, Xids
<1>5. k.st = "INIT_SELECTING" /\ mail' = mail
  BY <1>1 DEF SendDiscover, Due
<1>6. PICK no \in BOOLEAN : no = FALSE
  OBVIOUS
<1>7. PICK j : j = [k EXCEPT !.open = TRUE, !.xid = xid, !.num = k.num + 1, !.timeout = DiscoverTimeout]
  OBVIOUS
<1>8. Becomes(c, j)
  BY <1>1, <1>3, <1>7, Zenon DEF SendDiscover
<1>9. Send(Packet("DISCOVER", c, xid, k.req, NoIp, no, 0))
  BY <1>1, <1>3, <1>6, Zenon DEF SendDiscover
<1>10. j.st = "INIT_SELECTING" /\ j.xid = xid /\ j.num > 0
  BY <1>2, <1>5, <1>7 DEF ClientRecs
<1>11. k.req \in IpsOrNone /\ NoIp \in IpsOrNone
  BY <1>2, ClientNumbers DEF ClientRecs
<1>12. Posts(c, {"DISCOVER"}, xid)
  BY <1>4, <1>9, <1>11, SendPosts
<1>13. Discovers(c, k, j)
  BY <1>4, <1>5, <1>10, <1>12 DEF Discovers
<1> QED BY <1>1, <1>8, <1>13 DEF Turn, Becomes

\* A REQUEST for the offer is sent.
LEMMA SendSelectTurn ==
  ASSUME Hosts, NEW c \in Clients, SendSelect(c)
  PROVE  Turn(c, client[c])
<1>1. PICK k : k = client[c]
  OBVIOUS
<1>2. k \in ClientRecs /\ k.st = "REQUESTING" /\ mail' = mail
  BY <1>1, DueIs DEF SendSelect, Due
<1>3. PICK yes \in BOOLEAN : yes = TRUE
  OBVIOUS
<1>4. Send(Packet("REQUEST", c, k.xid, k.req, NoIp, yes, 0))
  BY <1>1, <1>3, Zenon DEF SendSelect
<1>5. PICK j : j = [k EXCEPT !.num = k.num + 1, !.timeout = DiscoverTimeout]
  OBVIOUS
<1>6. Becomes(c, j)
  BY <1>1, <1>5, Zenon DEF SendSelect
<1>7. /\ j.st = k.st /\ j.xid = k.xid /\ j.req = k.req /\ j.left = k.left
      /\ k.left \in Int
  BY <1>2, <1>5, ClientNumbers DEF ClientRecs
<1>8. k.xid \in Xids /\ k.req \in IpsOrNone /\ NoIp \in IpsOrNone
  BY <1>2, ClientNumbers DEF ClientRecs
<1>9. \A ip : ip = (IF k.req # NoIp THEN k.req ELSE NoIp) => PostsRequest(c, k.xid, ip)
  BY <1>4, <1>8, SendPosts
<1>10. k.req = IF k.req # NoIp THEN k.req ELSE NoIp
  OBVIOUS
<1>11. PostsRequest(c, k.xid, k.req)
  BY <1>9, <1>10
<1>12. Same(k, j) /\ Timed(j)
  <2>1. Trust(j) = Trust(k) /\ Trust(k) \in Int
    BY <1>2, <1>7, TrustIs
  <2> QED BY <1>2, <1>7, <2>1 DEF Same, Timed, Engaged, Lasting, Holding
<1>13. GoesOn(c, k, j)
  BY <1>2, <1>11, <1>12 DEF GoesOn
<1> QED BY <1>1, <1>6, <1>13 DEF Turn, Becomes

\* A client gives up for now, or is started.
LEMMA FailTurn ==
  ASSUME Hosts, NEW c \in Clients, LeaseFail(c) \/ Start(c)
  PROVE  Turn(c, client[c])
<1>1. PICK k : k = client[c]
  OBVIOUS
<1>2. k \in ClientRecs /\ k.xid \in Int
  BY <1>1, DueIs DEF ClientRecs, Xids
<1>3. CASE LeaseFail(c)
  <2>1. PICK j : j = Reinit(k, TryAgain)
    OBVIOUS
  <2>2. Becomes(c, j) /\ inbox' = inbox /\ mail' = mail
    BY <1>1, <1>3, <2>1 DEF LeaseFail
  <2>3. Leaves(c, k, j)
    BY <1>2, <2>1, <2>2, ReinitLeaves
  <2> QED BY <1>1, <2>2, <2>3 DEF Turn, Becomes
<1>4. CASE Start(c)
  <2>1. PICK j : j = Started(k)
    OBVIOUS
  <2>2. PICK no \in BOOLEAN : no = FALSE
    OBVIOUS
  <2>3. j = [k EXCEPT !.st = "INIT_SELECTING", !.num = 0, !.req = NoIp, !.timeout = 0,
                      !.left = 0, !.cfg = NoIp, !.open = no]
    BY <2>1, <2>2, Zenon DEF Started
  <2>4. Becomes(c, j) /\ inbox' = inbox /\ mail' = mail
    BY <1>1, <1>4, <2>1 DEF Start
  <2>5. j.st = "INIT_SELECTING" /\ j.num = 0 /\ j.open = no /\ j.xid = k.xid
    BY <1>2, <2>3 DEF ClientRecs
  <2>6. Leaves(c, k, j)
    BY <1>2, <2>2, <2>4, <2>5 DEF Leaves, Engaged, Lasting, Holding
  <2> QED BY <1>1, <2>4, <2>6 DEF Turn, Becomes
<1> QED BY <1>3, <1>4

\* SIGUSR1: renew now, or leave.
LEMMA SIGUSR1Turn ==
  ASSUME Hosts, Exchanges, NEW c \in Clients, SIGUSR1(c)
  PROVE  Turn(c, client[c])
<1>1. PICK o : o = client[c]
  OBVIOUS
<1>2. PICK k : k = Hurry(o)
  OBVIOUS
<1>3. o \in ClientRecs /\ o.left \in Int /\ o.left >= 0 /\ Low \in Nat /\ o.xid \in Int
  BY <1>1, DueIs, ClientNumbers DEF ClientRecs, Xids
<1>4. PICK left : left = IF o.left > Low THEN Low ELSE o.left
  OBVIOUS
<1>5. left \in 0 .. Longest /\ left <= o.left
  BY <1>1, <1>3, <1>4, DueIs, ClientNumbers DEF ClientRecs
<1>6. k = [o EXCEPT !.left = left, !.num = 0]
  BY <1>2, <1>4 DEF Hurry
<1>7. /\ k \in ClientRecs /\ k.st = o.st /\ k.req = o.req /\ k.xid = o.xid
      /\ k.left = left
  BY <1>3, <1>5, <1>6, ClientNumbers DEF ClientRecs
<1>8. mail' = mail
  BY DEF SIGUSR1, Signalled
<1>9. CASE k.st \in {"BOUND", "RENEWING"} /\ Renew(c, [k EXCEPT !.st = "RENEW_REQUESTED"])
  <2>1. PICK j : j = [k EXCEPT !.st = "RENEW_REQUESTED"]
    OBVIOUS
  <2>2. o.st \in Holding
    BY <1>7, <1>9 DEF Holding
  <2>3. Still(o, o) /\ o.timeout \in Int
    BY <1>1, <2>2, StillIs
  <2>4. j.st = "RENEW_REQUESTED" /\ j.left = left /\ Still(j, o)
    <3>1. /\ j \in ClientRecs /\ j.st = "RENEW_REQUESTED" /\ j.left = left /\ j.req = o.req
          /\ j.xid = o.xid
      BY <1>7, <2>1 DEF ClientRecs, States
    <3>2. left \in Int /\ MaxLease \in Int /\ o.left <= MaxLease /\ o.req # NoIp
      BY <1>3, <1>4, <2>3, LongestIs DEF Still
    <3>3. left <= MaxLease
      BY <1>3, <1>5, <3>2
    <3> QED BY <1>3, <1>5, <2>2, <3>1, <3>2, <3>3 DEF Still, Holding
  <2> QED BY <1>1, <1>8, <1>9, <2>1, <2>4, RenewTurn
<1>10. CASE \/ Becomes(c, Reinit(Deconfigured(k), 0)) /\ inbox' = inbox
            \/ Becomes(c, Reinit(k, 0)) /\ inbox' = inbox
  <2>1. PICK j : Becomes(c, j) /\ inbox' = inbox /\ (j = Reinit(k, 0) \/ j = Reinit(Deconfigured(k), 0))
    BY <1>10
  <2>2. Leaves(c, o, j)
    BY <1>7, <1>8, <2>1, ReinitLeaves
  <2> QED BY <1>1, <2>1, <2>2 DEF Turn, Becomes
<1> QED BY <1>1, <1>2, <1>9, <1>10 DEF SIGUSR1

\* SIGUSR2 and SIGTERM: the lease is released, or kept by nobody.
LEMMA ReleaseTurn ==
  ASSUME Hosts, NEW c \in Clients, SIGUSR2(c) \/ SIGTERM(c)
  PROVE  Turn(c, client[c])
<1>1. PICK k : k = client[c]
  OBVIOUS
<1>2. k \in ClientRecs /\ k.xid \in Nat
  BY <1>1, DueIs DEF ClientRecs, Xids
<1>3. mail' = mail
  BY DEF SIGUSR2, SIGTERM, Signalled
\* The RELEASE has an xid of its own.
<1>4. ASSUME SendRelease(c, k), NEW r, r = Released(k)
      PROVE  /\ r \in ClientRecs /\ r.st = "RELEASED" /\ r.xid \in Int /\ r.xid >= k.xid
             /\ inbox' = inbox \/ (r.xid > k.xid /\ Posts(c, {"DECLINE", "RELEASE"}, r.xid))
  <2>1. PICK xid : xid = IF k.st \in Holding THEN NextXid(k.xid) ELSE k.xid
    OBVIOUS
  <2>2. r \in ClientRecs /\ r.st = "RELEASED"
    BY <1>2, <1>4, ReleasedOK
  <2>3. r.xid = xid
    BY <1>2, <1>4, <2>1 DEF Released, ClientRecs
  <2>4. CASE k.st \in Holding
    <3>1. PICK yes \in BOOLEAN : yes = TRUE
      OBVIOUS
    <3>2. Send(Packet("RELEASE", c, xid, NoIp, k.req, yes, 0))
      BY <1>4, <2>1, <2>4, <3>1, Zenon DEF SendRelease
    <3>3. xid \in Xids /\ xid \in Int /\ xid > k.xid
      BY <1>2, <2>1, <2>4 DEF NextXid, Xids
    <3>4. k.req \in IpsOrNone /\ NoIp \in IpsOrNone
      BY <1>2, ClientNumbers DEF ClientRecs
    <3>5. Posts(c, {"DECLINE", "RELEASE"}, xid)
      BY <3>2, <3>3, <3>4, SendPosts
    <3> QED BY <1>2, <2>2, <2>3, <3>3, <3>5
  <2>5. CASE k.st \notin Holding
    BY <1>2, <1>4, <2>1, <2>2, <2>3, <2>5 DEF SendRelease
  <2> QED BY <2>4, <2>5
<1>5. CASE SIGUSR2(c)
  <2>1. PICK j : j = Released(k)
    OBVIOUS
  <2>2. SendRelease(c, k) /\ Becomes(c, j)
    BY <1>1, <1>5, <2>1 DEF SIGUSR2
  <2>3. Leaves(c, k, j)
    BY <1>3, <1>4, <2>1, <2>2 DEF Leaves, Engaged, Lasting, Holding
  <2> QED BY <1>1, <2>2, <2>3 DEF Turn, Becomes
<1>6. CASE SIGTERM(c) /\ ReleaseOnQuit
  <2>1. PICK r : r = Released(k)
    OBVIOUS
  <2>2. PICK j : j = [r EXCEPT !.st = "QUIT", !.req = NoIp]
    OBVIOUS
  <2>3. SendRelease(c, k) /\ Becomes(c, j)
    BY <1>1, <1>6, <2>1, <2>2 DEF SIGTERM
  <2>a. r \in ClientRecs
    BY <1>2, <2>1, ReleasedOK
  <2>4. j.st = "QUIT" /\ j.xid = r.xid
    BY <2>2, <2>a DEF ClientRecs
  <2>5. Leaves(c, k, j)
    BY <1>3, <1>4, <2>1, <2>3, <2>4 DEF Leaves, Engaged, Lasting, Holding
  <2> QED BY <1>1, <2>3, <2>5 DEF Turn, Becomes
<1>7. CASE SIGTERM(c) /\ ~ReleaseOnQuit
  <2>1. PICK j : j = [k EXCEPT !.st = "QUIT", !.open = FALSE, !.timeout = Forever]
    OBVIOUS
  <2>2. inbox' = inbox /\ Becomes(c, j)
    BY <1>1, <1>7, <2>1, Zenon DEF SIGTERM
  <2>3. j.st = "QUIT" /\ j.xid = k.xid
    BY <1>2, <2>1 DEF ClientRecs
  <2>4. Leaves(c, k, j)
    BY <1>2, <1>3, <2>2, <2>3 DEF Leaves, Engaged, Lasting, Holding
  <2> QED BY <1>1, <2>2, <2>4 DEF Turn, Becomes
<1> QED BY <1>5, <1>6, <1>7

\* The packets on their way, as sequences.
LEMMA NetworkIs ==
  ASSUME Network, NEW c \in Clients
  PROVE  inbox \in Seq(Requests) /\ mail[c] \in Seq(Replies)
<1>1. FromClients \subseteq Requests
  BY DEF FromClients
<1> QED BY <1>1, SeqMonotonic DEF Network

\* What a client that reads its mail finds at its head.
LEMMA MailIs ==
  ASSUME Network, Hosts, Exchanges, NEW c \in Clients, NEW states, NEW type, Reads(c, states, type)
  PROVE  /\ Reading(c) /\ client[c].st \in states /\ client[c].open /\ Head(mail[c]) = mail[c][1]
         /\ mail[c][1].type = type /\ mail[c][1].xid = client[c].xid
         /\ type = "ACK" => mail[c][1].yi # NoIp /\ mail[c][1].time = MaxLease
<1>1. PICK b \in Seq(Replies) : b = mail[c]
  BY DEF Network
<1>2. Reading(c) /\ client[c].st \in states /\ client[c].open /\ b # <<>>
  BY <1>1 DEF Reads, Reading
<1>3. Head(b) = b[1] /\ 1 \in 1 .. Len(b)
  BY <1>2, SuffixesAre
<1>4. b[1].type = type /\ b[1].xid = client[c].xid
  BY <1>1, <1>3 DEF Reads
<1>5. b[1].type = "ACK" => b[1].yi # NoIp /\ b[1].time = MaxLease
  BY <1>1, <1>3 DEF Exchanges, Ordered
<1> QED BY <1>1, <1>2, <1>3, <1>4, <1>5

\* An offer is chosen.
LEMMA ReceiveOfferTurn ==
  ASSUME Network, Hosts, Exchanges, NEW c \in Clients, ReceiveOffer(c)
  PROVE  Turn(c, client[c])
<1>1. PICK k : k = client[c]
  OBVIOUS
<1>2. k \in ClientRecs
  BY <1>1, DueIs
<1>3. Reading(c) /\ k.st \in {"INIT_SELECTING"} /\ k.open
  BY <1>1, MailIs DEF ReceiveOffer
<1>4. PICK j : j = [k EXCEPT !.st = "REQUESTING", !.req = Head(mail[c]).yi, !.timeout = 0, !.num = 0]
  OBVIOUS
<1>5. Becomes(c, j) /\ inbox' = inbox
  BY <1>1, <1>4 DEF ReceiveOffer
<1>6. j.st = "REQUESTING" /\ j.xid = k.xid
  BY <1>2, <1>4 DEF ClientRecs
<1>7. Chooses(c, k, j)
  BY <1>3, <1>5, <1>6 DEF Chooses
<1> QED BY <1>1, <1>5, <1>7 DEF Turn, Becomes

\* The lease of an ACK, field by field: MaxLease, which is no less than Low.
LEMMA ObtainedIs ==
  ASSUME Network, Hosts, Exchanges, NEW c \in Clients, Reads(c, Requested, "ACK"), NEW k, k = Obtained(c)
  PROVE  /\ k \in ClientRecs /\ k.req = mail[c][1].yi /\ k.xid = client[c].xid
         /\ k.left = MaxLease /\ mail[c][1].time = MaxLease /\ k.req # NoIp /\ k.cfg = client[c].cfg
         /\ client[c].st \in Engaged /\ Reading(c) /\ mail[c][1].type = "ACK" /\ mail[c][1].xid = k.xid
         /\ Low \in Nat /\ MaxLease \in Nat /\ Low <= MaxLease
<1>1. PICK o : o = client[c]
  OBVIOUS
<1>2. PICK yi : yi = Head(mail[c]).yi
  OBVIOUS
<1>3. /\ Reading(c) /\ o.st \in Requested /\ Head(mail[c]) = mail[c][1] /\ mail[c][1].type = "ACK"
      /\ mail[c][1].xid = o.xid /\ mail[c][1].yi # NoIp /\ mail[c][1].time = MaxLease
  BY <1>1, MailIs
<1>4. Low \in Nat /\ MaxLease \in Nat /\ Low <= MaxLease
  BY DhcpAssumption, LongestIs
<1>5. k = [o EXCEPT !.left = MaxLease, !.req = yi]
  <2>1. PICK left : left = IF Head(mail[c]).time < Low THEN Low ELSE Head(mail[c]).time
    OBVIOUS
  <2>2. left = MaxLease
    BY <1>3, <1>4, <2>1
  <2>3. k = [o EXCEPT !.left = left, !.req = yi]
    BY <1>1, <1>2, <2>1 DEF Obtained
  <2> QED BY <2>2, <2>3
<1>6. o \in ClientRecs /\ k \in ClientRecs
  BY <1>1, DueIs, ObtainedOK
<1>7. k.req = yi /\ k.left = MaxLease /\ k.xid = o.xid /\ k.cfg = o.cfg
  BY <1>5, <1>6 DEF ClientRecs
<1>8. o.st \in Engaged
  BY <1>3 DEF Requested, Engaged, Lasting, Holding
<1> QED BY <1>1, <1>2, <1>3, <1>4, <1>6, <1>7, <1>8

\* An ACK is taken.
LEMMA ReceiveAckTurn ==
  ASSUME Network, Hosts, Exchanges, NEW c \in Clients, ReceiveAck(c)
  PROVE  Turn(c, client[c])
<1>1. PICK k : k = Obtained(c)
  OBVIOUS
<1>2. PICK yi : yi = Head(mail[c]).yi
  OBVIOUS
<1>3. Reads(c, Requested, "ACK")
  BY DEF ReceiveAck
<1>4. /\ k \in ClientRecs /\ k.req = mail[c][1].yi /\ k.xid = client[c].xid
      /\ k.left = MaxLease /\ mail[c][1].time = MaxLease /\ k.req # NoIp
      /\ client[c].st \in Engaged /\ Reading(c) /\ mail[c][1].type = "ACK" /\ mail[c][1].xid = k.xid
      /\ Low \in Nat /\ MaxLease \in Nat /\ Low <= MaxLease
  BY <1>1, <1>3, ObtainedIs
<1>5. yi = k.req
  BY <1>2, <1>3, <1>4, MailIs
<1>6. PICK half \in Int : half = MaxLease \div 2 /\ half >= 0
  BY <1>4
<1>7. PICK b : b = BoundForHalfLease(k)
  OBVIOUS
<1>8. b = [k EXCEPT !.st = "BOUND", !.num = 0, !.open = FALSE, !.timeout = half]
  BY <1>4, <1>6, <1>7 DEF BoundForHalfLease
<1>9. b \in ClientRecs
  BY <1>4, <1>7, BoundOK
<1>10. b.st = "BOUND" /\ b.timeout = half /\ b.left = MaxLease /\ b.req = k.req /\ b.xid = k.xid
  BY <1>4, <1>8 DEF ClientRecs
<1>11. PICK j : j = [b EXCEPT !.cfg = yi]
  OBVIOUS
<1>12. j.st = "BOUND" /\ j.timeout = half /\ j.left = MaxLease /\ j.req = k.req /\ j.xid = k.xid
  BY <1>9, <1>10, <1>11 DEF ClientRecs
<1>13. Timed(j) /\ Trust(j) <= MaxLease
  <2>1. Trust(j) = MaxLease - ProbeTime /\ ProbeTime \in Nat
    BY <1>12, TrustIs
  <2> QED BY <1>4, <1>6, <1>12, <2>1 DEF Timed
<1>14. Becomes(c, j) /\ inbox' = inbox
  BY <1>1, <1>2, <1>7, <1>11 DEF ReceiveAck
<1>15. Binds(c, client[c], j)
  BY <1>4, <1>12, <1>13, <1>14 DEF Binds
<1> QED BY <1>14, <1>15 DEF Turn, Becomes

\* The address of an ACK is probed.
LEMMA ReceiveAckProbeTurn ==
  ASSUME Network, Hosts, Exchanges, NEW c \in Clients, ReceiveAckProbe(c)
  PROVE  Turn(c, client[c])
<1>1. PICK k : k = Obtained(c)
  OBVIOUS
<1>2. Reads(c, Requested, "ACK")
  BY DEF ReceiveAckProbe
<1>3. /\ k \in ClientRecs /\ k.req = mail[c][1].yi /\ k.xid = client[c].xid /\ k.cfg = client[c].cfg
      /\ k.left = MaxLease /\ mail[c][1].time = MaxLease /\ k.req # NoIp
      /\ client[c].st \in Engaged /\ Reading(c) /\ mail[c][1].type = "ACK" /\ mail[c][1].xid = k.xid
      /\ MaxLease \in Nat
  BY <1>1, <1>2, ObtainedIs
<1>4. PICK no \in BOOLEAN : no = FALSE
  OBVIOUS
<1>5. PICK j : j = [k EXCEPT !.st = "PROBING", !.num = 0, !.open = no, !.timeout = ProbeTime]
  OBVIOUS
<1>6. /\ j.st = "PROBING" /\ j.timeout = ProbeTime /\ j.left = MaxLease /\ j.req = k.req /\ j.xid = k.xid
      /\ j.cfg = client[c].cfg
  BY <1>3, <1>5 DEF ClientRecs
<1>7. Becomes(c, j) /\ inbox' = inbox
  BY <1>1, <1>4, <1>5, Zenon DEF ReceiveAckProbe
\* A client that renews is acknowledged the address it has.
<1>8. client[c].cfg \in {NoIp, k.req}
  <2>1. PICK o : o = client[c]
    OBVIOUS
  <2>2. o.st \in Requested
    BY <1>2, <2>1, ReadsIs
  <2>3. ClientOK(o)
    BY <2>1 DEF Hosts
  <2>4. CASE o.st = "REQUESTING"
    BY <2>1, <2>3, <2>4 DEF ClientOK, Fits, Holding
  <2>5. CASE o.st \in Holding
    <3>1. PICK b \in Seq(Replies) : b = mail[c]
      BY NetworkIs
    <3>2. 1 \in 1 .. Len(b)
      BY <1>3, <3>1, SuffixesAre DEF Reading
    <3>3. 1 \in Acking(o.xid, b)
      BY <1>3, <2>1, <3>1, <3>2 DEF Acking
    <3>4. b[1].yi = o.req
      BY <1>3, <2>1, <3>1, <3>3 DEF Exchanges, Matched
    <3> QED BY <1>3, <2>1, <2>3, <2>5, <3>1, <3>4 DEF ClientOK, Fits
  <2> QED BY <2>2, <2>4, <2>5 DEF Requested, Holding
<1>9. Timed(j)
  BY <1>3, <1>6, <1>8, TrustIs DEF Timed
<1>10. Trust(j) <= MaxLease
  BY <1>3, <1>6, TrustIs DEF Trust
<1>11. Binds(c, client[c], j)
  BY <1>3, <1>6, <1>7, <1>9, <1>10 DEF Binds
<1> QED BY <1>7, <1>11 DEF Turn, Becomes

\* Nobody answered the probe: the address is configured.
LEMMA ProbeUnansweredTurn ==
  ASSUME Hosts, Exchanges, NEW c \in Clients, ProbeUnanswered(c)
  PROVE  Turn(c, client[c])
<1>1. PICK k : k = client[c]
  OBVIOUS
<1>2. k \in ClientRecs /\ Timed(k)
  BY <1>1, DueIs DEF Exchanges
<1>3. k.st = "PROBING" /\ k.timeout = 0 /\ mail' = mail /\ inbox' = inbox
  BY <1>1 DEF ProbeUnanswered, Due
<1>4. k.left \in Int /\ k.left >= 0
  BY <1>2, ClientNumbers DEF ClientRecs
<1>5. PICK half \in Int : half = k.left \div 2 /\ half >= 0
  BY <1>4
<1>6. PICK b : b = BoundForHalfLease(k)
  OBVIOUS
<1>7. b \in ClientRecs
  BY <1>2, <1>6, BoundOK
<1>8. b.st = "BOUND" /\ b.timeout = half /\ b.left = k.left /\ b.req = k.req /\ b.xid = k.xid
  BY <1>2, <1>5, <1>6 DEF BoundForHalfLease, ClientRecs
<1>9. PICK j : j = [b EXCEPT !.cfg = k.req]
  OBVIOUS
<1>10. j.st = "BOUND" /\ j.timeout = half /\ j.left = k.left /\ j.req = k.req /\ j.xid = k.xid
  BY <1>7, <1>8, <1>9 DEF ClientRecs
<1>11. Becomes(c, j)
  BY <1>1, <1>6, <1>9 DEF ProbeUnanswered
<1>12. Trust(k) = k.left - ProbeTime /\ Trust(j) = k.left - ProbeTime /\ ProbeTime \in Int
  BY <1>3, <1>4, <1>10, TrustIs DEF Trust
<1>13. k.st \in Lasting /\ j.st \in Lasting
  BY <1>3, <1>10 DEF Lasting, Holding
<1>14. Timed(j)
  BY <1>2, <1>5, <1>10, <1>13 DEF Timed
<1>15. Trust(j) <= Trust(k)
  BY <1>4, <1>12
<1>16. Same(k, j)
  BY <1>10, <1>13, <1>15 DEF Same, Engaged
<1>17. GoesOn(c, k, j)
  BY <1>3, <1>14, <1>16 DEF GoesOn, PostsRequest
<1> QED BY <1>1, <1>11, <1>17 DEF Turn, Becomes

\* The probe is answered: the address is declined, with an xid of its own.
LEMMA ProbeAnsweredTurn ==
  ASSUME Hosts, NEW c \in Clients, ProbeAnswered(c)
  PROVE  Turn(c, client[c])
<1>1. PICK k : k = client[c]
  OBVIOUS
<1>2. PICK xid : xid = NextXid(k.xid)
  OBVIOUS
<1>3. k \in ClientRecs /\ mail' = mail
  BY <1>1, DueIs DEF ProbeAnswered
<1>4. k.xid \in Nat /\ xid \in Xids /\ xid \in Int /\ xid > k.xid
  BY <1>2, <1>3 DEF ClientRecs, Xids, NextXid
<1>5. PICK yes \in BOOLEAN : yes = TRUE
  OBVIOUS
<1>6. Send(Packet("DECLINE", c, xid, k.req, NoIp, yes, 0))
  BY <1>1, <1>2, <1>5, Zenon DEF ProbeAnswered
<1>7. k.req \in IpsOrNone /\ NoIp \in IpsOrNone
  BY <1>3, ClientNumbers DEF ClientRecs
<1>8. Posts(c, {"DECLINE", "RELEASE"}, xid)
  BY <1>4, <1>6, <1>7, SendPosts
<1>9. PICK r : r = Reinit(Deconfigured(k), TryAgain)
  OBVIOUS
<1>10. ClientOK(r) /\ r.st = "INIT_SELECTING" /\ r.num = 0 /\ ~r.open
  BY <1>3, <1>9, ClientNumbers, GivesUpLease, ReinitEnds
<1>11. PICK j : j = [r EXCEPT !.xid = xid, !.req = NoIp]
  OBVIOUS
<1>12. j.st = "INIT_SELECTING" /\ j.num = 0 /\ j.open = r.open /\ j.xid = xid
  BY <1>10, <1>11 DEF ClientOK, ClientRecs
<1>13. Becomes(c, j)
  BY <1>1, <1>2, <1>9, <1>11 DEF ProbeAnswered
<1>14. Leaves(c, k, j)
  BY <1>3, <1>4, <1>8, <1>10, <1>12 DEF Leaves, Engaged, Lasting, Holding
<1> QED BY <1>1, <1>13, <1>14 DEF Turn, Becomes

\* A NAK ends the exchange.
LEMMA ReceiveNakTurn ==
  ASSUME Network, Hosts, Exchanges, NEW c \in Clients, ReceiveNak(c)
  PROVE  Turn(c, client[c])
<1>1. PICK k : k = client[c]
  OBVIOUS
<1>2. k \in ClientRecs /\ k.xid \in Int
  BY <1>1, DueIs DEF ClientRecs, Xids
<1>3. Reading(c)
  BY ReadsIs DEF ReceiveNak
<1>4. PICK r : r = Reinit(Deconfigured(k), DiscoverTimeout)
  OBVIOUS
<1>5. ClientOK(r) /\ r.st = "INIT_SELECTING" /\ r.num = 0 /\ ~r.open /\ r.xid = k.xid
  BY <1>2, <1>4, ClientNumbers, GivesUpLease, ReinitEnds
<1>6. PICK j : j = [r EXCEPT !.req = NoIp]
  OBVIOUS
<1>7. j.st = "INIT_SELECTING" /\ j.num = 0 /\ j.open = r.open /\ j.xid = k.xid
  BY <1>5, <1>6 DEF ClientOK, ClientRecs
<1>8. Becomes(c, j) /\ inbox' = inbox
  BY <1>1, <1>4, <1>6 DEF ReceiveNak
<1>9. Leaves(c, k, j)
  BY <1>2, <1>3, <1>5, <1>7, <1>8 DEF Leaves, Engaged, Lasting, Holding
<1> QED BY <1>1, <1>8, <1>9 DEF Turn, Becomes

\* Every step of a client is one of the five.
LEMMA ClientTurn ==
  ASSUME Network, Hosts, Exchanges, NEW c \in Clients, ClientStep(c)
  PROVE  Turn(c, client[c])
BY LeaseTurn, SendDiscoverTurn, SendSelectTurn, FailTurn, SIGUSR1Turn, ReleaseTurn, ReceiveOfferTurn,
   ReceiveAckTurn, ReceiveAckProbeTurn, ProbeUnansweredTurn, ProbeAnsweredTurn, ReceiveNakTurn DEF ClientStep, TimedOut

\* What the mail of a client becomes when it reads, or when a reply is lost.
LEMMA ReadingIs ==
  ASSUME Network, NEW c \in Clients, mail' = mail \/ Reading(c)
  PROVE  /\ Suffix(mail'[c], mail[c]) /\ mail'[c] \in Seq(Replies)
         /\ \A e \in Clients : e # c => mail'[e] = mail[e]
<1>1. PICK b \in Seq(Replies) : b = mail[c]
  BY DEF Network
<1>2. CASE mail' = mail
  BY <1>1, <1>2, SuffixesAre
<1>3. CASE Reading(c)
  <2>1. b # <<>> /\ mail'[c] = Tail(b) /\ \A e \in Clients : e # c => mail'[e] = mail[e]
    BY <1>1, <1>3 DEF Reading, Network
  <2> QED BY <1>1, <2>1, SuffixesAre, HeadTailProperties
<1> QED BY <1>2, <1>3

\* A client's step leaves the exchanges of all other clients as they are.
LEMMA TurnElsewhere ==
  ASSUME Network, Exchanges, NEW c \in Clients, NEW e \in Clients, e # c,
         inbox' = inbox \/ \E p \in FromClients : p.mac = c /\ inbox' = Append(inbox, p)
  PROVE  Ordered(e, client[e].xid, inbox', mail[e]) /\ Matched(e, client[e], inbox', mail[e])
<1>1. PICK q \in Seq(Requests), b \in Seq(Replies) : q = inbox /\ b = mail[e]
  BY NetworkIs
<1>2. PICK k : k = client[e]
  OBVIOUS
<1>3. Ordered(e, k.xid, q, b) /\ Matched(e, k, q, b)
  BY <1>1, <1>2 DEF Exchanges
<1>4. CASE inbox' = inbox
  BY <1>1, <1>2, <1>3, <1>4
<1>5. CASE \E p \in FromClients : p.mac = c /\ inbox' = Append(inbox, p)
  <2>1. PICK p \in Requests : p.mac = c /\ inbox' = Append(q, p)
    BY <1>1, <1>5 DEF FromClients
  <2>2. PICK r : r = Append(q, p)
    OBVIOUS
  <2>3. Longer(r, q, p)
    BY <2>2, Longers
  <2>4. Ordered(e, k.xid, r, b) /\ Matched(e, k, r, b)
    BY <1>3, <2>1, <2>3, OrderedForeign, MatchedForeign
  <2> QED BY <1>1, <1>2, <2>1, <2>2, <2>4
<1> QED BY <1>4, <1>5

\* The client's own exchange stays in order, in each of the five steps.
LEMMA TurnHere ==
  ASSUME Network, Network', Exchanges, NEW c \in Clients, NEW k \in ClientRecs, k = client[c],
         NEW j \in ClientRecs,
         Leaves(c, k, j) \/ Discovers(c, k, j) \/ Chooses(c, k, j) \/ GoesOn(c, k, j) \/ Binds(c, k, j)
  PROVE  Ordered(c, j.xid, inbox', mail'[c]) /\ Matched(c, j, inbox', mail'[c]) /\ Timed(j)
<1>1. PICK q \in Seq(Requests), b \in Seq(Replies) : q = inbox /\ b = mail[c]
  BY NetworkIs
<1>2. PICK r, d : r = inbox' /\ d = mail'[c]
  OBVIOUS
<1>3. r \in Seq(Requests) /\ d \in Seq(Replies)
  <2>1. FromClients \subseteq Requests
    BY DEF FromClients
  <2> QED BY <1>2, <2>1, SeqMonotonic DEF Network
<1>4. Ordered(c, k.xid, q, b) /\ Matched(c, k, q, b)
  BY <1>1 DEF Exchanges
<1>5. k.xid \in Int /\ j.xid \in Int
  BY DEF ClientRecs, Xids
<1>6. mail' = mail \/ Reading(c)
  BY DEF Leaves, Discovers, Chooses, GoesOn, Binds
<1>7. Suffix(d, b)
  BY <1>1, <1>2, <1>6, ReadingIs
<1>8. Suffix(q, q) /\ Suffix(b, b)
  BY SuffixesAre
<1>9. CASE Leaves(c, k, j)
  <2>1. /\ j.st \notin Engaged /\ (j.st = "INIT_SELECTING" => j.num = 0 /\ ~j.open)
        /\ j.xid >= k.xid
    BY <1>9 DEF Leaves
  <2>2. Matched(c, j, r, d) /\ Timed(j)
    BY <2>1, MatchedEnd DEF Timed, Engaged, Lasting
  <2>3. Ordered(c, k.xid, q, d)
    BY <1>3, <1>4, <1>5, <1>7, <1>8, OrderedSuffix
  <2>4. CASE inbox' = inbox
    BY <1>1, <1>2, <1>3, <1>4, <1>5, <1>7, <1>8, <2>1, <2>2, <2>4, OrderedSuffix
  <2>5. CASE inbox' # inbox
    <3>1. j.xid > k.xid /\ Posts(c, {"DECLINE", "RELEASE"}, j.xid)
      BY <1>9, <2>5 DEF Leaves
    <3>2. PICK p \in Requests : /\ p.mac = c /\ p.xid = j.xid /\ p.ask = 0 /\ p.type \in {"DECLINE", "RELEASE"}
                                /\ r = Append(q, p)
      BY <1>1, <1>2, <2>5, <3>1 DEF Posts, FromClients
    <3>3. Longer(r, q, p)
      BY <3>2, Longers
    <3>4. Ordered(c, j.xid, r, d)
      BY <1>3, <1>5, <2>1, <2>3, <3>1, <3>2, <3>3, OrderedSend
    <3> QED BY <1>2, <2>2, <3>4
  <2> QED BY <2>4, <2>5
<1>10. CASE Discovers(c, k, j)
  <2>1. /\ k.st = "INIT_SELECTING" /\ j.st = "INIT_SELECTING" /\ j.num > 0
        /\ j.xid > k.xid \/ (j.xid = k.xid /\ k.num > 0)
        /\ d = b /\ Posts(c, {"DISCOVER"}, j.xid)
    BY <1>1, <1>2, <1>10 DEF Discovers
  <2>2. Timed(j)
    BY <2>1 DEF Timed, Lasting, Holding
  <2>3. Asking(c, j.xid, q) = {} /\ Acking(j.xid, b) = {}
    BY <1>4, <1>5, <2>1, ExchangeFresh
  <2>5. j.st \notin Engaged /\ j.st \notin Lasting
    BY <2>1 DEF Engaged, Lasting, Holding
  <2>6. CASE r = q
    <3>1. Ordered(c, j.xid, q, b)
      BY <1>4, <1>5, <1>8, <2>1, OrderedSuffix
    <3>2. Matched(c, j, q, b)
      BY <2>1, <2>3, <2>5 DEF Matched
    <3> QED BY <1>2, <2>1, <2>2, <2>6, <3>1, <3>2
  <2>7. CASE r # q
    <3>1. PICK t \in Requests : /\ t.mac = c /\ t.xid = j.xid /\ t.ask = 0 /\ t.type = "DISCOVER"
                                /\ r = Append(q, t)
      BY <1>1, <1>2, <2>1, <2>7 DEF Posts, FromClients
    <3>2. Longer(r, q, t)
      BY <3>1, Longers
    <3>3. Matched(c, j, r, b)
      BY <2>1, <2>3, <3>1, <3>2, MatchedDiscover
    <3>4. Ordered(c, j.xid, r, b)
      <4>1. PICK x \in Int, y \in Int : x = k.xid /\ y = j.xid /\ y >= x
        BY <1>5, <2>1
      <4>2. Ordered(c, x, q, b) /\ Asking(c, y, q) = {} /\ Acking(y, b) = {} /\ t.xid = y
        BY <1>4, <2>3, <3>1, <4>1
      <4>3. Ordered(c, y, r, b)
        BY <3>1, <3>2, <4>1, <4>2, OrderedSend
      <4> QED BY <4>1, <4>3
    <3> QED BY <1>2, <2>1, <2>2, <3>3, <3>4
  <2> QED BY <2>6, <2>7
<1>11. CASE Chooses(c, k, j)
  <2>1. k.st = "INIT_SELECTING" /\ k.open /\ j.st = "REQUESTING" /\ j.xid = k.xid /\ r = q
    BY <1>1, <1>2, <1>11 DEF Chooses
  <2>2. Matched(c, j, q, b)
    BY <1>4, <2>1, MatchedOffer
  <2>3. Matched(c, j, q, d) /\ Ordered(c, j.xid, q, d)
    BY <1>3, <1>4, <1>5, <1>7, <1>8, <2>1, <2>2, MatchedSuffix, OrderedSuffix
  <2>4. Timed(j)
    BY <2>1 DEF Timed, Lasting, Holding
  <2> QED BY <1>2, <2>1, <2>3, <2>4
<1>12. CASE GoesOn(c, k, j)
  <2>1. Same(k, j) /\ Timed(j) /\ d = b /\ PostsRequest(c, k.xid, k.req)
    BY <1>1, <1>2, <1>12 DEF GoesOn
  <2>2. /\ j.xid = k.xid /\ j.req = k.req /\ k.st \in Engaged /\ j.st \in Engaged
        /\ j.st \in Lasting => k.st \in Lasting
    BY <2>1 DEF Same
  <2>3. CASE r = q
    <3>1. Matched(c, j, q, b)
      BY <1>4, <2>2, MatchedSame
    <3> QED BY <1>2, <1>4, <2>1, <2>2, <2>3, <3>1
  <2>4. CASE r # q
    <3>1. PICK p \in Requests : /\ p.mac = c /\ p.xid = k.xid /\ p.ask = 0 /\ p.type = "REQUEST"
                                /\ WantedIp(p) = k.req /\ r = Append(q, p)
      BY <1>1, <1>2, <2>1, <2>4 DEF PostsRequest, FromClients
    <3>2. Longer(r, q, p)
      BY <3>1, Longers
    <3>3. Matched(c, j, r, b)
      BY <1>4, <2>2, <3>1, <3>2, MatchedRequest
    <3>4. Ordered(c, j.xid, r, b)
      <4>1. PICK x \in Int : x = k.xid /\ x >= x
        BY <1>5
      <4>2. Ordered(c, x, q, b) /\ p.xid = x
        BY <1>4, <3>1, <4>1
      <4>3. Ordered(c, x, r, b)
        BY <3>1, <3>2, <4>1, <4>2, OrderedSend
      <4> QED BY <2>2, <4>1, <4>3
    <3> QED BY <1>2, <2>1, <3>3, <3>4
  <2> QED BY <2>3, <2>4
<1>13. CASE Binds(c, k, j)
  <2>1. /\ k.st \in Engaged /\ b # <<>> /\ r = q /\ b[1].type = "ACK" /\ b[1].xid = k.xid
        /\ j.st \in {"BOUND", "PROBING"} /\ j.xid = k.xid /\ j.req = b[1].yi /\ Timed(j)
    BY <1>1, <1>2, <1>13 DEF Binds, Reading
  <2>2. Matched(c, j, q, b)
    BY <1>4, <1>5, <2>1, MatchedAck
  <2>3. Matched(c, j, q, d) /\ Ordered(c, j.xid, q, d)
    BY <1>3, <1>4, <1>5, <1>7, <1>8, <2>1, <2>2, MatchedSuffix, OrderedSuffix
  <2> QED BY <1>2, <2>1, <2>3
<1> QED BY <1>9, <1>10, <1>11, <1>12, <1>13

-----------------------------------------------------------------------------
(* What the server's answers do to the exchanges                           *)

\* An ACK answers an INFORM, or a REQUEST that is granted.
AckFor(m, a) == \/ m.type = "INFORM"
                \/ Acked(m) /\ a.yi = WantedIp(m) /\ a.time = LeaseTime(m.ask)

\* The sender of m, if it is a client, gets at most one reply.
Replied(m) ==
  /\ \A e \in Clients : e # m.mac => mail'[e] = mail[e]
  /\ m.mac \in Clients =>
       \/ mail'[m.mac] = mail[m.mac]
       \/ \E a \in Replies : /\ Longer(mail'[m.mac], mail[m.mac], a)
                             /\ a.xid = m.xid /\ (a.type = "ACK" => AckFor(m, a))

\* No reply is sent.
LEMMA Unreplied ==
  ASSUME Network, NEW m, mail' = mail \/ Answer(m, <<>>)
  PROVE  Replied(m)
<1>1. CASE mail' = mail
  BY <1>1 DEF Replied
<1>2. CASE Answer(m, <<>>) /\ m.mac \in Clients
  <2>1. PICK b \in Seq(Replies) : b = mail[m.mac]
    BY <1>2 DEF Network
  <2>2. b \o <<>> = b
    BY ConcatEmptySeq
  <2>3. mail' = [mail EXCEPT ![m.mac] = b]
    BY <1>2, <2>1, <2>2 DEF Answer
  <2> QED BY <1>2, <2>1, <2>3 DEF Replied, Network
<1>3. CASE Answer(m, <<>>) /\ m.mac \notin Clients
  BY <1>3 DEF Answer, Replied
<1> QED BY <1>1, <1>2, <1>3

\* One reply is sent.
LEMMA OneReply ==
  ASSUME Network, NEW m \in Requests, NEW type \in {"OFFER", "ACK", "NAK"}, NEW ip \in IpsOrNone,
         NEW time \in 0 .. Longest, Answer(m, <<Reply(type, m, ip, time)>>),
         type = "ACK" => m.type = "INFORM" \/ (Acked(m) /\ ip = WantedIp(m) /\ time = LeaseTime(m.ask))
  PROVE  Replied(m)
<1>1. PICK a : a = Reply(type, m, ip, time)
  OBVIOUS
<1>2. a \in Replies /\ a.type = type /\ a.xid = m.xid /\ a.yi = ip /\ a.time = time
  BY <1>1 DEF Reply, Requests, Replies
<1>3. a.type = "ACK" => AckFor(m, a)
  BY <1>2 DEF AckFor
<1>4. CASE m.mac \in Clients
  <2>1. PICK b \in Seq(Replies) : b = mail[m.mac]
    BY <1>4 DEF Network
  <2>2. PICK d : d = b \o <<a>>
    OBVIOUS
  <2>3. Longer(d, b, a)
    BY <1>2, <2>2, Longers
  <2>4. mail' = [mail EXCEPT ![m.mac] = d]
    BY <1>1, <1>4, <2>1, <2>2 DEF Answer
  <2>5. mail'[m.mac] = d /\ \A e \in Clients : e # m.mac => mail'[e] = mail[e]
    BY <1>4, <2>4 DEF Network
  <2> QED BY <1>2, <1>3, <2>1, <2>3, <2>5 DEF Replied
<1>5. CASE m.mac \notin Clients
  BY <1>5 DEF Answer, Replied
<1> QED BY <1>4, <1>5

\* send_ACK sends an ACK.
LEMMA GrantReplies ==
  ASSUME TableOK(table), Network, NEW m \in Requests, Acked(m), Grant(m)
  PROVE  Replied(m)
<1>1. PICK ip : ip = WantedIp(m)
  OBVIOUS
<1>2. PICK time : time = LeaseTime(m.ask)
  OBVIOUS
<1>3. time \in 0 .. Longest
  BY <1>2, LeaseTimeType DEF Requests
<1>4. ip \in IpsOrNone
  BY <1>1, OwnIpsAre DEF Acked, IpsOrNone
<1>5. Answer(m, <<Reply("ACK", m, ip, time)>>)
  BY <1>1, <1>2 DEF Grant
<1> QED BY <1>1, <1>2, <1>3, <1>4, <1>5, OneReply

\* Every packet is answered at most once, and only a REQUEST or an INFORM by
\* an ACK.
LEMMA ServeReplies ==
  ASSUME TableOK(table), Network, NEW m \in Requests,
         Discover(m) \/ send_ACK(m) \/ RequestRefused(m) \/ Decline(m) \/ Release(m) \/ Inform(m)
  PROVE  Replied(m)
<1>0. NoIp \in IpsOrNone /\ 0 \in 0 .. Longest
  BY ClientNumbers
<1>1. CASE Discover(m)
  <2>1. PICK time : time = LeaseTime(m.ask)
    OBVIOUS
  <2>2. time \in 0 .. Longest
    BY <2>1, LeaseTimeType DEF Requests
  <2>3. CASE StaticIp(m.mac) # NoIp
    <3>1. PICK ip : ip = StaticIp(m.mac)
      OBVIOUS
    <3>2. Answer(m, <<Reply("OFFER", m, ip, time)>>) /\ ip \in IpsOrNone
      BY <1>1, <2>1, <2>3, <3>1, StaticIpType DEF Discover
    <3> QED BY <2>2, <3>2, OneReply
  <2>4. CASE StaticIp(m.mac) = NoIp
    <3>1. PICK o \in OfferChoices(m) :
            \/ mail' = mail
            \/ Answer(m, IF LeaseByMac(table', m.mac) # {} THEN <<Reply("OFFER", m, o.nip, time)>> ELSE <<>>)
      BY <1>1, <2>1, <2>4 DEF Discover
    <3>2. PICK ip : ip = o.nip
      OBVIOUS
    <3>3. ip \in IpsOrNone
      BY <2>4, <3>2, OfferKeeps, ZeroNotInPool DEF IpsOrNone
    <3>4. mail' = mail \/ Answer(m, <<>>) \/ Answer(m, <<Reply("OFFER", m, ip, time)>>)
      BY <3>1, <3>2
    <3> QED BY <2>2, <3>3, <3>4, OneReply, Unreplied
  <2> QED BY <2>3, <2>4
<1>2. CASE send_ACK(m)
  BY <1>2, GrantReplies DEF send_ACK
<1>3. CASE RequestRefused(m)
  <2>1. Answer(m, <<>>) \/ Answer(m, <<Reply("NAK", m, NoIp, 0)>>)
    BY <1>3 DEF RequestRefused
  <2> QED BY <1>0, <2>1, OneReply, Unreplied
<1>4. CASE Decline(m) \/ Release(m)
  BY <1>4, Unreplied DEF Decline, Release
<1>5. CASE Inform(m)
  <2>1. Answer(m, <<Reply("ACK", m, NoIp, 0)>>) /\ m.type = "INFORM"
    BY <1>5 DEF Inform
  <2> QED BY <1>0, <2>1, OneReply
<1> QED BY <1>1, <1>2, <1>3, <1>4, <1>5

\* The next packet of a client is the first of the inbox.
LEMMA ClientArrival ==
  ASSUME Network, NEW m \in Arrivals, m.mac \in Clients
  PROVE  inbox # <<>> /\ m = inbox[1] /\ m \in Requests
<1>1. m \in Requests /\ inbox # <<>>
  BY ArrivalsType
<1>2. m \notin OtherPackets
  BY OtherPacketsType, DhcpAssumption
<1>3. m = Head(inbox)
  BY <1>1, <1>2 DEF Arrivals
<1>4. Head(inbox) = inbox[1]
  BY <1>1, SuffixesAre DEF Network
<1> QED BY <1>1, <1>3, <1>4

\* What Ordered says of the packet that is served.
LEMMA ServedIs ==
  ASSUME Network, Exchanges, NEW m \in Arrivals, m.mac \in Clients
  PROVE  /\ m.ask = 0 /\ m.type # "INFORM" /\ LeaseTime(m.ask) = MaxLease
         /\ m.xid \in Int /\ client[m.mac].xid >= m.xid
<1>1. PICK q \in Seq(Requests) : q = inbox
  BY NetworkIs
<1>2. q # <<>> /\ m = q[1] /\ m \in Requests
  BY <1>1, ClientArrival
<1>3. 1 \in 1 .. Len(q)
  BY <1>2, SuffixesAre
<1>4. q[1].xid <= client[m.mac].xid /\ m.ask = 0 /\ m.type # "INFORM"
  BY <1>1, <1>2, <1>3 DEF Exchanges, Ordered
<1>5. LeaseTime(m.ask) = MaxLease
  BY <1>4 DEF LeaseTime
<1> QED BY <1>2, <1>4, <1>5 DEF Requests, Xids

\* The exchanges after a packet was served, whatever else was lost.
LEMMA ServedExchanges ==
  ASSUME Network, Network', Hosts, Exchanges, NEW m \in Arrivals, Replied(m), NEW e \in Clients,
         Suffix(inbox', IF m.mac \in Clients THEN Tail(inbox) ELSE inbox)
  PROVE  Ordered(e, client[e].xid, inbox', mail'[e]) /\ Matched(e, client[e], inbox', mail'[e])
<1>1. PICK q \in Seq(Requests), b \in Seq(Replies) : q = inbox /\ b = mail[e]
  BY NetworkIs
<1>2. PICK r, d : r = inbox' /\ d = mail'[e]
  OBVIOUS
<1>3. r \in Seq(Requests) /\ d \in Seq(Replies)
  <2>1. FromClients \subseteq Requests
    BY DEF FromClients
  <2> QED BY <1>2, <2>1, SeqMonotonic DEF Network
<1>4. PICK k : k = client[e]
  OBVIOUS
<1>5. Ordered(e, k.xid, q, b) /\ Matched(e, k, q, b) /\ k.xid \in Int
  BY <1>1, <1>4, DueIs DEF Exchanges, ClientRecs, Xids
<1>6. PICK s \in Seq(Requests) : /\ s = IF m.mac \in Clients THEN Tail(inbox) ELSE inbox
                                 /\ Suffix(s, q) /\ Suffix(r, s)
  <2>1. CASE m.mac \in Clients
    <3>1. q # <<>>
      BY <1>1, <2>1, ClientArrival
    <3>2. Tail(q) \in Seq(Requests) /\ Suffix(Tail(q), q)
      BY <3>1, HeadTailProperties, SuffixesAre
    <3> QED BY <1>1, <1>2, <2>1, <3>2
  <2>2. CASE m.mac \notin Clients
    BY <1>1, <1>2, <2>2, SuffixesAre
  <2> QED BY <2>1, <2>2
<1>7. ASSUME Ordered(e, k.xid, s, d), Matched(e, k, s, d)
      PROVE  Ordered(e, k.xid, r, d) /\ Matched(e, k, r, d)
  <2>1. Suffix(d, d)
    BY <1>3, SuffixesAre
  <2>2. Matched(e, k, r, d)
    BY <1>3, <1>6, <1>7, <2>1, MatchedSuffix
  <2>3. PICK x \in Int : x = k.xid /\ x >= x
    BY <1>5
  <2>4. Ordered(e, x, s, d)
    BY <1>7, <2>3
  <2>5. Ordered(e, x, r, d)
    BY <1>3, <1>6, <2>1, <2>3, <2>4, OrderedSuffix
  <2> QED BY <2>2, <2>3, <2>5
<1>8. CASE d = b
  <2>1. Suffix(b, b)
    BY SuffixesAre
  <2>2. Matched(e, k, s, b)
    BY <1>5, <1>6, <2>1, MatchedSuffix
  <2>3. PICK x \in Int : x = k.xid /\ x >= x /\ Ordered(e, x, q, b)
    BY <1>5
  <2>4. Ordered(e, x, s, b)
    BY <1>6, <2>1, <2>3, OrderedSuffix
  <2> QED BY <1>2, <1>4, <1>7, <1>8, <2>2, <2>3, <2>4
<1>9. CASE d # b
  <2>1. m.mac = e /\ e \in Clients
    BY <1>1, <1>2, <1>9 DEF Replied
  <2>2. PICK a \in Replies : Longer(d, b, a) /\ a.xid = m.xid /\ (a.type = "ACK" => AckFor(m, a))
    BY <1>1, <1>2, <1>9, <2>1 DEF Replied
  <2>3. q # <<>> /\ m = q[1] /\ s = Tail(q)
    BY <1>1, <1>6, <2>1, ClientArrival
  <2>4. a.type = "ACK" => /\ q[1].type = "REQUEST" /\ a.yi = WantedIp(q[1]) /\ a.yi # NoIp
                          /\ a.time = MaxLease
    BY <2>1, <2>2, <2>3, ServedIs DEF AckFor, Acked
  <2>5. Ordered(e, k.xid, s, d)
    BY <1>5, <2>1, <2>2, <2>3, <2>4, OrderedReply
  <2>6. Matched(e, k, s, d)
    BY <1>5, <2>1, <2>2, <2>3, <2>4, MatchedReply
  <2> QED BY <1>2, <1>4, <1>7, <2>5, <2>6
<1> QED BY <1>8, <1>9

\* Packets are lost, and nothing else changes.
LEMMA LostExchanges ==
  ASSUME Network, Network', Hosts, Exchanges, client' = client, Suffix(inbox', inbox),
         \A c \in Clients : Suffix(mail'[c], mail[c])
  PROVE  Exchanges'
<1> SUFFICES ASSUME NEW c \in Clients
             PROVE  Ordered(c, client[c].xid, inbox', mail'[c]) /\ Matched(c, client[c], inbox', mail'[c])
  BY DEF Exchanges
<1>1. PICK q \in Seq(Requests), b \in Seq(Replies) : q = inbox /\ b = mail[c]
  BY NetworkIs
<1>2. PICK r, d : r = inbox' /\ d = mail'[c]
  OBVIOUS
<1>3. r \in Seq(Requests) /\ d \in Seq(Replies) /\ Suffix(r, q) /\ Suffix(d, b)
  <2>1. FromClients \subseteq Requests
    BY DEF FromClients
  <2> QED BY <1>1, <1>2, <2>1, SeqMonotonic DEF Network
<1>4. PICK x \in Int : x = client[c].xid /\ x >= x
  BY DueIs DEF ClientRecs, Xids
<1>5. Ordered(c, x, q, b) /\ Matched(c, client[c], q, b)
  BY <1>1, <1>4 DEF Exchanges
<1>6. Ordered(c, x, r, d)
  BY <1>3, <1>4, <1>5, OrderedSuffix
<1>7. Matched(c, client[c], r, d)
  BY <1>3, <1>5, MatchedSuffix
<1> QED BY <1>2, <1>4, <1>6, <1>7

\* Nothing is on its way.
LEMMA QuietExchange ==
  ASSUME NEW c, NEW x, NEW k, k.st = "INIT_SELECTING" /\ k.open => k.num > 0
  PROVE  Ordered(c, x, <<>>, <<>>) /\ Matched(c, k, <<>>, <<>>)
<1>1. Len(<<>>) = 0 /\ 1 .. 0 = {}
  OBVIOUS
<1>2. Ordered(c, x, <<>>, <<>>)
  BY <1>1 DEF Ordered
<1>3. \A y : Asking(c, y, <<>>) = {} /\ Acking(y, <<>>) = {}
  BY <1>1 DEF Asking, Acking
<1>4. Matched(c, k, <<>>, <<>>)
  BY <1>1, <1>3 DEF Matched
<1> QED BY <1>2, <1>4

\* What time does to a client, field by field.
LEMMA LaterIs ==
  ASSUME NEW k \in ClientRecs, NEW j, j = Later(k)
  PROVE  /\ j.st = k.st /\ j.open = k.open /\ j.num = k.num /\ j.cfg = k.cfg /\ j.req = k.req
         /\ j.timeout = IF k.timeout > 0 THEN k.timeout - 1 ELSE k.timeout
         /\ j.left = IF k.st = "PROBING" THEN k.left ELSE IF k.left > 0 THEN k.left - 1 ELSE 0
         /\ k.timeout \in Int /\ k.left \in Int /\ k.left >= 0
<1>1. PICK timeout, left :
        /\ timeout = IF k.timeout > 0 THEN k.timeout - 1 ELSE k.timeout
        /\ left = IF k.st = "PROBING" THEN k.left ELSE IF k.left > 0 THEN k.left - 1 ELSE 0
  OBVIOUS
<1>2. j = [k EXCEPT !.timeout = timeout, !.left = left, !.xid = 0]
  BY <1>1 DEF Later
<1>3. /\ j.st = k.st /\ j.open = k.open /\ j.num = k.num /\ j.cfg = k.cfg /\ j.req = k.req
      /\ j.timeout = timeout /\ j.left = left
  BY <1>2 DEF ClientRecs
<1>4. k.timeout \in Int /\ k.left \in Int /\ k.left >= 0
  BY ClientNumbers DEF ClientRecs
<1> QED BY <1>1, <1>3, <1>4

\* Time goes by only while no timeout is over.
LEMMA LaterTimed ==
  ASSUME NEW k \in ClientRecs, Timed(k), k.timeout # 0, NEW j, j = Later(k)
  PROVE  /\ Timed(j)
         /\ k.st \in Lasting /\ Trust(j) > 0 => Trust(j) = Trust(k) - 1 /\ Trust(k) \in Int
<1>1. /\ j.st = k.st /\ j.cfg = k.cfg /\ j.req = k.req
      /\ j.timeout = IF k.timeout > 0 THEN k.timeout - 1 ELSE k.timeout
      /\ j.left = IF k.st = "PROBING" THEN k.left ELSE IF k.left > 0 THEN k.left - 1 ELSE 0
      /\ k.timeout \in Int /\ k.left \in Int /\ k.left >= 0
  BY LaterIs
<1>2. MaxLease \in Nat /\ ProbeTime \in Nat
  BY LongestIs, TrustIs
<1>3. ASSUME k.st \in Lasting
      PROVE  /\ j.timeout >= 0 /\ j.left <= MaxLease /\ j.req # NoIp /\ j.timeout = k.timeout - 1
  <2>1. k.timeout >= 0 /\ k.left <= MaxLease /\ k.req # NoIp
    BY <1>3 DEF Timed
  <2>2. k.timeout >= 1 /\ j.timeout = k.timeout - 1
    BY <1>1, <2>1
  <2> QED BY <1>1, <1>2, <2>1, <2>2
<1>4. k.st = "PROBING" => k.timeout <= ProbeTime /\ k.cfg \in {NoIp, k.req}
  BY DEF Timed
<1>5. Timed(j)
  BY <1>1, <1>2, <1>3, <1>4 DEF Timed
<1>6. ASSUME k.st \in Lasting, Trust(j) > 0 PROVE Trust(j) = Trust(k) - 1 /\ Trust(k) \in Int
  <2>1. CASE k.st = "PROBING"
    BY <1>1, <1>2, <1>3, <1>6, <2>1 DEF Trust
  <2>2. CASE k.st # "PROBING"
    <3>1. Trust(k) = k.left - ProbeTime /\ Trust(j) = j.left - ProbeTime
      BY <1>1, <2>2 DEF Trust
    <3>2. k.left > 0 /\ j.left = k.left - 1
      BY <1>1, <1>2, <1>6, <2>2, <3>1
    <3> QED BY <1>1, <1>2, <3>1, <3>2
  <2> QED BY <2>1, <2>2
<1> QED BY <1>5, <1>6

\* Before anything happens no client is in an exchange.
LEMMA ExchangesInit == Init => Exchanges
<1> SUFFICES ASSUME Init, NEW c \in Clients
             PROVE  /\ Ordered(c, client[c].xid, inbox, mail[c]) /\ Matched(c, client[c], inbox, mail[c])
                    /\ Timed(client[c])
  BY DEF Exchanges
<1>1. client[c].st = "QUIT" /\ inbox = <<>> /\ mail[c] = <<>>
  BY DEF Init, Idle
<1>2. Timed(client[c])
  BY <1>1 DEF Timed, Lasting, Holding
<1> QED BY <1>1, <1>2, QuietExchange

\* Every step keeps the exchanges in order.
LEMMA ExchangesNext == IInv /\ Exchanges /\ [Next]_vars => Exchanges'
<1> SUFFICES ASSUME IInv, Exchanges, [Next]_vars PROVE Exchanges'
  OBVIOUS
<1>1. Network /\ Hosts /\ TableOK(table) /\ IInv'
  BY NextKeeps DEF IInv, Tables
<1>2. Network' /\ Hosts'
  BY <1>1 DEF IInv
<1>3. inbox \in Seq(FromClients) /\ mail \in [Clients -> Seq(Replies)]
  BY <1>1 DEF Network
<1>4. Suffix(inbox, inbox) /\ Suffix(<<>>, inbox) /\ \A c \in Clients : Suffix(mail[c], mail[c])
  BY <1>3, SuffixesAre
<1>5. CASE Serve
  <2>1. PICK m \in Arrivals :
          /\ Take(m)
          /\ Discover(m) \/ send_ACK(m) \/ RequestRefused(m) \/ Decline(m) \/ Release(m) \/ Inform(m)
    BY <1>5 DEF Serve
  <2>2. m \in Requests
    BY <1>1, ArrivalsType
  <2>3. Replied(m)
    BY <1>1, <2>1, <2>2, ServeReplies
  <2>4. inbox' = IF m.mac \in Clients THEN Tail(inbox) ELSE inbox
    BY <2>1 DEF Take
  <2>5. Suffix(inbox', IF m.mac \in Clients THEN Tail(inbox) ELSE inbox)
    BY <1>2, <2>4, SuffixesAre DEF Network
  <2>6. \A e \in Clients : Ordered(e, client[e].xid, inbox', mail'[e]) /\ Matched(e, client[e], inbox', mail'[e])
    BY <1>1, <1>2, <2>3, <2>5, ServedExchanges
  <2>7. client' = client
    BY <1>5 DEF Serve
  <2> QED BY <2>6, <2>7 DEF Exchanges
<1>6. CASE CrashInAck
  <2>1. PICK m \in Arrivals : Acked(m) /\ Grant(m)
    BY <1>6 DEF CrashInAck
  <2>2. m \in Requests
    BY <1>1, ArrivalsType
  <2>3. Replied(m)
    BY <1>1, <2>1, <2>2, GrantReplies
  <2>4. client' = client /\ inbox' = <<>>
    BY <1>6 DEF CrashInAck, Stopped
  <2>5. PICK s \in Seq(FromClients) : s = IF m.mac \in Clients THEN Tail(inbox) ELSE inbox
    <3>1. CASE m.mac \in Clients
      BY <1>1, <1>3, <3>1, ClientArrival, HeadTailProperties
    <3>2. CASE m.mac \notin Clients
      BY <1>3, <3>2
    <3> QED BY <3>1, <3>2
  <2>6. Suffix(inbox', IF m.mac \in Clients THEN Tail(inbox) ELSE inbox)
    BY <2>4, <2>5, SuffixesAre
  <2>7. \A e \in Clients : Ordered(e, client[e].xid, inbox', mail'[e]) /\ Matched(e, client[e], inbox', mail'[e])
    BY <1>1, <1>2, <2>3, <2>6, ServedExchanges
  <2> QED BY <2>4, <2>7 DEF Exchanges
<1>7. CASE Save \/ Restart \/ RestartUnread \/ UNCHANGED vars
  <2>1. client' = client /\ inbox' = inbox /\ mail' = mail
    BY <1>7 DEF Save, Restart, RestartUnread, vars
  <2> QED BY <1>1, <1>2, <1>4, <2>1, LostExchanges
<1>8. CASE Terminate \/ Crash
  <2>1. client' = client /\ inbox' = <<>> /\ mail' = mail
    BY <1>8 DEF Terminate, Crash, Stopped
  <2> QED BY <1>1, <1>2, <1>4, <2>1, LostExchanges
<1>9. CASE LoseRequest
  <2>1. client' = client /\ mail' = mail /\ inbox # <<>> /\ inbox' = Tail(inbox)
    BY <1>9 DEF LoseRequest
  <2>2. Suffix(inbox', inbox)
    BY <1>3, <2>1, SuffixesAre
  <2> QED BY <1>1, <1>2, <1>4, <2>1, <2>2, LostExchanges
<1>10. ASSUME NEW c \in Clients, LoseReply(c) PROVE Exchanges'
  <2>1. client' = client /\ inbox' = inbox /\ Reading(c)
    BY <1>10 DEF LoseReply, Reading
  <2>2. \A e \in Clients : Suffix(mail'[e], mail[e])
    BY <1>1, <1>4, <2>1, ReadingIs
  <2> QED BY <1>1, <1>2, <1>4, <2>1, <2>2, LostExchanges
<1>11. ASSUME NEW c \in Clients, ClientStep(c) PROVE Exchanges'
  <2>1. PICK k : k = client[c]
    OBVIOUS
  <2>2. Turn(c, k)
    BY <1>1, <1>11, <2>1, ClientTurn
  <2>3. PICK j : /\ client' = [client EXCEPT ![c] = j]
                 /\ \/ Leaves(c, k, j) \/ Discovers(c, k, j) \/ Chooses(c, k, j)
                    \/ GoesOn(c, k, j) \/ Binds(c, k, j)
    BY <2>2 DEF Turn
  <2>4. client'[c] = j /\ (\A e \in Clients : e # c => client'[e] = client[e]) /\ k \in ClientRecs
    BY <1>1, <2>1, <2>3 DEF Hosts
  <2>5. j \in ClientRecs
    BY <1>2, <2>4 DEF Hosts
  <2>6. Ordered(c, j.xid, inbox', mail'[c]) /\ Matched(c, j, inbox', mail'[c]) /\ Timed(j)
    BY <1>1, <1>2, <2>1, <2>3, <2>4, <2>5, TurnHere
  <2>7. mail' = mail \/ Reading(c)
    BY <2>3 DEF Leaves, Discovers, Chooses, GoesOn, Binds
  <2>8. inbox' = inbox \/ \E p \in FromClients : p.mac = c /\ inbox' = Append(inbox, p)
    BY <2>3 DEF Leaves, Discovers, Chooses, GoesOn, Binds, Posts, PostsRequest
  <2>9. ASSUME NEW e \in Clients, e # c
        PROVE  /\ Ordered(e, client'[e].xid, inbox', mail'[e]) /\ Matched(e, client'[e], inbox', mail'[e])
               /\ Timed(client'[e])
    <3>1. Ordered(e, client[e].xid, inbox', mail[e]) /\ Matched(e, client[e], inbox', mail[e])
      BY <1>1, <2>8, <2>9, TurnElsewhere
    <3>2. mail'[e] = mail[e] /\ client'[e] = client[e]
      BY <1>1, <2>4, <2>7, <2>9, ReadingIs
    <3>3. Timed(client[e])
      BY DEF Exchanges
    <3> QED BY <3>1, <3>2, <3>3
  <2> QED BY <2>4, <2>6, <2>9 DEF Exchanges
<1>12. CASE Tick
  <2> SUFFICES ASSUME NEW c \in Clients
               PROVE  /\ Ordered(c, client'[c].xid, inbox', mail'[c])
                      /\ Matched(c, client'[c], inbox', mail'[c]) /\ Timed(client'[c])
    BY DEF Exchanges
  <2>1. PICK k, j : k = client[c] /\ j = Later(k)
    OBVIOUS
  <2>2. client'[c] = j /\ inbox' = <<>> /\ mail'[c] = <<>> /\ k.timeout # 0
    BY <1>12, <2>1 DEF Tick
  <2>3. k \in ClientRecs /\ Timed(k) /\ (k.st = "INIT_SELECTING" /\ k.open => k.num > 0)
    BY <1>1, <2>1, DueIs DEF Exchanges, Matched
  <2>4. Timed(j)
    BY <2>1, <2>2, <2>3, LaterTimed
  <2>5. j.st = k.st /\ j.open = k.open /\ j.num = k.num
    BY <2>1, <2>3, LaterIs
  <2>6. j.st = "INIT_SELECTING" /\ j.open => j.num > 0
    BY <2>3, <2>5
  <2> QED BY <2>2, <2>4, <2>6, QuietExchange
<1> QED BY <1>5, <1>6, <1>7, <1>8, <1>9, <1>10, <1>11, <1>12 DEF Next

-----------------------------------------------------------------------------
(* What is acknowledged is reserved                                        *)

\* The lease a client may rely on, and the one an ACK gives.
Held(k)    == [nip |-> k.req, left |-> Trust(k)]
Offered(a) == [nip |-> a.yi, left |-> a.time]

\* The lease of the client is backed while it may rely on it, and so is the one
\* it is about to have.
HeldOK(c, k, f, t, on) == k.st \in Lasting /\ Trust(k) > 0 => GrantOK(c, Held(k), f, t, on)
AckOK(c, k, b, f, t, on) ==
  k.st \in Engaged => \A i \in Acking(k.xid, b) : GrantOK(c, Offered(b[i]), f, t, on)

ClientsKept ==
  \A c \in Clients \ forgot : /\ HeldOK(c, client[c], file, table, up)
                              /\ AckOK(c, client[c], mail[c], file, table, up)

\* What backs a lease backs a shorter one.
LEMMA GrantLess ==
  ASSUME NEW f, TableOK(f), NEW t, TableOK(t), NEW o, NEW on, NEW g, g.left \in Int,
         GrantOK(o, g, f, t, on), NEW h, h.nip = g.nip, h.left \in Int, h.left >= 0, h.left <= g.left
  PROVE  GrantOK(o, h, f, t, on)
<1>1. ASSUME NEW s, TableOK(s), Has(s, o, g) PROVE Has(s, o, h)
  <2>1. PICK l \in s : l.mac = o /\ l.nip = g.nip /\ l.left >= g.left
    BY <1>1 DEF Has
  <2>2. l.left \in Int
    BY <1>1, LeaseType DEF TableOK
  <2> QED BY <2>1, <2>2 DEF Has
<1> QED BY <1>1 DEF GrantOK

\* The packet of a client that is served next, and the client: its exchange,
\* the answers that wait for it and those that wait after the packet is served.
LEMMA ServedClient ==
  ASSUME Network, Hosts, Exchanges, NEW m \in Arrivals, Replied(m), NEW c \in Clients, m.mac = c,
         NEW k, k = client[c], NEW b, b = mail[c], NEW d, d = mail'[c]
  PROVE  /\ m \in Requests /\ m.xid \in Int /\ k.xid \in Int /\ m.xid <= k.xid
         /\ \A i \in Acking(k.xid, b) : m.xid = k.xid /\ m.type = "REQUEST"
         /\ \A i \in Acking(k.xid, d) :
              \/ i \in Acking(k.xid, b) /\ d[i] = b[i]
              \/ m.xid = k.xid /\ Acked(m)
         /\ k.st \in Engaged /\ m.xid = k.xid /\ m.type = "REQUEST" => WantedIp(m) = k.req
         /\ k.st \in Lasting => m.xid = k.xid /\ m.type = "REQUEST"
<1>1. PICK q \in Seq(Requests) : q = inbox
  BY NetworkIs
<1>2. q # <<>> /\ m = q[1] /\ m \in Requests /\ 1 \in 1 .. Len(q)
  BY <1>1, ClientArrival, SuffixesAre
<1>3. b \in Seq(Replies)
  BY NetworkIs
<1>4. Len(b) \in Nat /\ \A i \in 1 .. Len(b) : b[i].xid \in Int
  BY <1>3, <1>1, PacketTypes
<1>5. Ordered(c, k.xid, q, b) /\ Matched(c, k, q, b)
  BY <1>1 DEF Exchanges
<1>6. m.xid \in Int /\ k.xid \in Int /\ m.xid <= k.xid /\ m.type # "INFORM"
  <2>1. k.xid \in Int
    BY DueIs DEF ClientRecs, Xids
  <2> QED BY <2>1, ServedIs
<1>7. ASSUME NEW i \in Acking(k.xid, b) PROVE m.xid = k.xid /\ m.type = "REQUEST"
  <2>1. i \in 1 .. Len(b) /\ b[i].type = "ACK" /\ b[i].xid = k.xid
    BY DEF Acking
  <2>2. b[i].xid <= q[1].xid /\ (q[1].type # "REQUEST" => b[i].xid < q[1].xid)
    BY <1>2, <1>5, <2>1 DEF Ordered
  <2> QED BY <1>2, <1>6, <2>1, <2>2
<1>8. ASSUME NEW i \in Acking(k.xid, d)
      PROVE  (i \in Acking(k.xid, b) /\ d[i] = b[i]) \/ (m.xid = k.xid /\ Acked(m))
  <2>1. i \in 1 .. Len(d) /\ d[i].type = "ACK" /\ d[i].xid = k.xid
    BY DEF Acking
  <2>2. CASE d = b
    BY <2>1, <2>2 DEF Acking
  <2>3. CASE d # b
    <3>1. PICK a \in Replies : Longer(d, b, a) /\ a.xid = m.xid /\ (a.type = "ACK" => AckFor(m, a))
      BY <2>3 DEF Replied
    <3>2. (i \in 1 .. Len(b) /\ d[i] = b[i]) \/ d[i] = a
      BY <1>4, <2>1, <3>1 DEF Longer
    <3>3. CASE i \in 1 .. Len(b) /\ d[i] = b[i]
      BY <2>1, <3>3 DEF Acking
    <3>4. CASE d[i] = a
      BY <1>6, <2>1, <3>1, <3>4 DEF AckFor
    <3> QED BY <3>2, <3>3, <3>4
  <2> QED BY <2>2, <2>3
<1>9. m.xid = k.xid /\ m.type = "REQUEST" => 1 \in Asking(c, k.xid, q)
  BY <1>2 DEF Asking
<1>10. k.st \in Engaged /\ m.xid = k.xid /\ m.type = "REQUEST" => WantedIp(m) = k.req
  BY <1>2, <1>5, <1>9 DEF Matched
<1>11. ASSUME k.st \in Lasting PROVE m.xid = k.xid /\ m.type = "REQUEST"
  <2>1. 1 \in Asking(c, k.xid, q)
    BY <1>2, <1>5, <1>11 DEF Matched
  <2> QED BY <1>2, <2>1 DEF Asking
<1> QED BY <1>2, <1>6, <1>7, <1>8, <1>10, <1>11

\* A lease of the address a client chose, as long as the server's longest,
\* backs what the client has and every answer on its way to it.
LEMMA RequestBacks ==
  ASSUME Hosts', Network', Exchanges', NEW f, TableOK(f), NEW t, TableOK(t), NEW on,
         NEW c \in Clients, NEW k, k = client'[c], NEW d, d = mail'[c], NEW g, g.left = MaxLease, g.nip = k.req,
         GrantOK(c, g, f, t, on)
  PROVE  HeldOK(c, k, f, t, on) /\ AckOK(c, k, d, f, t, on)
<1>0. MaxLease \in Int /\ MaxLease >= 0
  BY LongestIs
<1>1. k \in ClientRecs
  BY DEF Hosts
<1>2. Ordered(c, k.xid, inbox', d) /\ Matched(c, k, inbox', d) /\ Timed(k)
  BY DEF Exchanges
<1>4. ASSUME k.st \in Lasting, Trust(k) > 0 PROVE GrantOK(c, Held(k), f, t, on)
  <2>1. PICK h : h = Held(k)
    OBVIOUS
  <2>2. h.nip = g.nip /\ h.left = Trust(k)
    BY <2>1 DEF Held
  <2>3. Trust(k) \in Int /\ Trust(k) <= k.left /\ k.left \in Int
    BY <1>1, <1>2, <1>4, TrustType
  <2>4. k.left <= MaxLease
    BY <1>2, <1>4 DEF Timed
  <2>5. h.left \in Int /\ h.left >= 0 /\ h.left <= g.left /\ g.left \in Int
    BY <1>0, <1>4, <2>2, <2>3, <2>4
  <2>6. GrantOK(c, h, f, t, on)
    BY <2>2, <2>5, GrantLess
  <2> QED BY <2>1, <2>6
<1>5. ASSUME k.st \in Engaged, NEW i \in Acking(k.xid, d) PROVE GrantOK(c, Offered(d[i]), f, t, on)
  <2>1. i \in 1 .. Len(d) /\ d[i].type = "ACK"
    BY DEF Acking
  <2>2. d[i].time = MaxLease
    BY <1>2, <2>1 DEF Ordered
  <2>3. d[i].yi = k.req
    BY <1>2, <1>5 DEF Matched
  <2>4. PICK h : h = Offered(d[i])
    OBVIOUS
  <2>5. h.nip = g.nip /\ h.left = g.left
    BY <2>2, <2>3, <2>4 DEF Offered
  <2>6. GrantOK(c, h, f, t, on)
    BY <1>0, <2>5, GrantLess
  <2> QED BY <2>4, <2>6
<1> QED BY <1>4, <1>5 DEF HeldOK, AckOK

\* What backed the answers on their way backs those that are left of them.
LEMMA AckLess ==
  ASSUME NEW b, NEW d, Suffix(d, b), NEW c, NEW k, NEW f, NEW t, NEW on, AckOK(c, k, b, f, t, on)
  PROVE  AckOK(c, k, d, f, t, on)
<1>1. PICK n \in Nat : Len(b) = Len(d) + n /\ \A i \in 1 .. Len(d) : i + n \in 1 .. Len(b) /\ d[i] = b[i + n]
  BY DEF Suffix
<1> SUFFICES ASSUME k.st \in Engaged, NEW i \in Acking(k.xid, d) PROVE GrantOK(c, Offered(d[i]), f, t, on)
  BY DEF AckOK
<1>2. i \in 1 .. Len(d) /\ d[i].type = "ACK" /\ d[i].xid = k.xid
  BY DEF Acking
<1>3. PICK e : e = i + n
  OBVIOUS
<1>4. e \in 1 .. Len(b) /\ d[i] = b[e]
  BY <1>1, <1>2, <1>3
<1>5. e \in Acking(k.xid, b)
  BY <1>2, <1>4 DEF Acking
<1>6. GrantOK(c, Offered(b[e]), f, t, on)
  BY <1>5 DEF AckOK
<1> QED BY <1>4, <1>6

\* Where every lease stays backed, those of the clients do.
LEMMA BackingKept ==
  ASSUME Network, Hosts, Exchanges, ClientsKept, NEW c \in Clients, c \notin forgot, NEW k, k = client[c],
         NEW b, b = mail[c], NEW f, NEW t, NEW on,
         \A g : g.left \in Int /\ GrantOK(c, g, file, table, up) => GrantOK(c, g, f, t, on)
  PROVE  HeldOK(c, k, f, t, on) /\ AckOK(c, k, b, f, t, on)
<1>1. HeldOK(c, k, file, table, up) /\ AckOK(c, k, b, file, table, up)
  BY DEF ClientsKept
<1>2. ASSUME k.st \in Lasting, GrantOK(c, Held(k), file, table, up) PROVE GrantOK(c, Held(k), f, t, on)
  <2>1. Trust(k) \in Int
    BY <1>2, DueIs, TrustType DEF Exchanges
  <2>2. PICK g : g = Held(k)
    OBVIOUS
  <2>3. g.left \in Int
    BY <2>1, <2>2 DEF Held
  <2> QED BY <1>2, <2>2, <2>3
<1>3. ASSUME NEW i \in Acking(k.xid, b), GrantOK(c, Offered(b[i]), file, table, up)
      PROVE  GrantOK(c, Offered(b[i]), f, t, on)
  <2>1. b \in Seq(Replies) /\ i \in 1 .. Len(b)
    BY NetworkIs DEF Acking
  <2>2. b[i] \in Replies
    BY <2>1, ElementOfSeq
  <2>3. PICK g : g = Offered(b[i])
    OBVIOUS
  <2>4. g.left \in Int
    BY <2>2, <2>3, LongestIs DEF Offered, Replies
  <2> QED BY <1>3, <2>3, <2>4
<1> QED BY <1>1, <1>2, <1>3 DEF HeldOK, AckOK

\* An ACK gives its client what the client asked for, and backs what it has.
LEMMA AckBacks ==
  ASSUME Network, Hosts, Exchanges, Network', Hosts', Exchanges', client' = client,
         NEW m \in Arrivals, Replied(m), Acked(m), NEW c \in Clients, m.mac = c,
         NEW f, TableOK(f), NEW t, TableOK(t), NEW on,
         NEW g, g = [nip |-> WantedIp(m), left |-> LeaseTime(m.ask)], GrantOK(c, g, f, t, on)
  PROVE  HeldOK(c, client'[c], f, t, on) /\ AckOK(c, client'[c], mail'[c], f, t, on)
<1>1. PICK k, b, d : k = client[c] /\ b = mail[c] /\ d = mail'[c]
  OBVIOUS
<1>2. /\ \A i \in Acking(k.xid, d) : m.xid = k.xid
      /\ k.st \in Engaged /\ m.xid = k.xid => WantedIp(m) = k.req
      /\ k.st \in Lasting => m.xid = k.xid
  <2>1. m.type = "REQUEST"
    BY DEF Acked
  <2>2. /\ \A i \in Acking(k.xid, b) : m.xid = k.xid
        /\ \A i \in Acking(k.xid, d) : i \in Acking(k.xid, b) \/ m.xid = k.xid
        /\ k.st \in Engaged /\ m.xid = k.xid /\ m.type = "REQUEST" => WantedIp(m) = k.req
        /\ k.st \in Lasting => m.xid = k.xid
    BY <1>1, ServedClient
  <2> QED BY <2>1, <2>2
<1>3. LeaseTime(m.ask) = MaxLease
  BY ServedIs
<1>4. CASE k.st \in Engaged /\ m.xid = k.xid
  <2>1. g.left = MaxLease /\ g.nip = k.req
    BY <1>2, <1>3, <1>4
  <2>2. k = client'[c]
    BY <1>1
  <2>3. HeldOK(c, k, f, t, on) /\ AckOK(c, k, d, f, t, on)
    BY <1>1, <2>1, <2>2, RequestBacks
  <2> QED BY <1>1, <2>2, <2>3
<1>5. CASE ~(k.st \in Engaged /\ m.xid = k.xid)
  <2>1. k.st \notin Lasting /\ (k.st \in Engaged => Acking(k.xid, d) = {})
    BY <1>2, <1>5 DEF Engaged
  <2>2. HeldOK(c, k, f, t, on) /\ AckOK(c, k, d, f, t, on)
    BY <2>1 DEF HeldOK, AckOK
  <2> QED BY <1>1, <2>2
<1> QED BY <1>4, <1>5

\* Serving a packet keeps the leases of the clients.
LEMMA ClientsServe ==
  ASSUME IInv, IInv', Exchanges, Exchanges', ClientsKept, Serve
  PROVE  ClientsKept'
<1>1. TableOK(table) /\ Network /\ Hosts /\ TableOK(table') /\ TableOK(file') /\ Network' /\ Hosts'
  BY DEF IInv, Tables
<1>2. PICK m \in Arrivals :
        Discover(m) \/ send_ACK(m) \/ RequestRefused(m) \/ Decline(m) \/ Release(m) \/ Inform(m)
  BY DEF Serve
<1>3. up /\ up' = up /\ client' = client
  BY DEF Serve
<1>4. m \in Requests
  BY <1>1, ArrivalsType
<1>5. Replied(m)
  BY <1>1, <1>2, <1>4, ServeReplies
<1> SUFFICES ASSUME NEW c \in Clients, c \notin forgot'
             PROVE  HeldOK(c, client'[c], file', table', up') /\ AckOK(c, client'[c], mail'[c], file', table', up')
  BY DEF ClientsKept
<1>6. forgot' = forgot \/ (forgot' = (forgot \ {m.mac}) \cup Forgets(table', file') /\ send_ACK(m))
  BY <1>2 DEF Discover, send_ACK, RequestRefused, Decline, Release, Inform
<1>7. PICK k, b, d : k = client[c] /\ b = mail[c] /\ d = mail'[c]
  OBVIOUS
<1>8. CASE c # m.mac
  <2>1. c \notin forgot /\ d = b
    BY <1>5, <1>6, <1>7, <1>8 DEF Replied
  <2>2. \A g : g.left \in Int /\ GrantOK(c, g, file, table, up) => GrantOK(c, g, file', table', up')
    <3>1. c \in Macs
      BY DEF Macs
    <3> QED BY <1>2, <1>3, <1>4, <1>8, <3>1, GrantServed
  <2>3. HeldOK(c, k, file', table', up') /\ AckOK(c, k, b, file', table', up')
    BY <1>1, <1>7, <2>1, <2>2, BackingKept
  <2> QED BY <1>3, <1>7, <2>1, <2>3
<1>9. CASE c = m.mac /\ send_ACK(m)
  <2>1. /\ Acked(m) /\ table' \in AddLease(table, m.mac, WantedIp(m), LeaseTime(m.ask))
        /\ c \notin Forgets(table', file')
    BY <1>9 DEF send_ACK
  <2>2. PICK g : g = [nip |-> WantedIp(m), left |-> LeaseTime(m.ask)]
    OBVIOUS
  <2>3. /\ g.left \in Int /\ g.left >= 0
        /\ StaticIp(c) # NoIp => g.nip = StaticIp(c)
        /\ StaticIp(c) = NoIp => g.nip \in Pool /\ Has(table', c, g)
    BY <1>1, <1>4, <1>9, <2>1, <2>2, NewGrantOK
  <2>4. StaticIp(c) = NoIp => Has(file', c, g)
    BY <1>1, <2>1, <2>3, NotForgotten DEF Macs, TableOK
  <2>5. GrantOK(c, g, file', table', up')
    BY <2>3, <2>4 DEF GrantOK
  <2> QED BY <1>1, <1>3, <1>5, <1>9, <2>1, <2>2, <2>5, AckBacks
<1>10. CASE c = m.mac /\ ~send_ACK(m)
  <2>1. c \notin forgot
    BY <1>6, <1>10
  <2>2. /\ \A i \in Acking(k.xid, b) : m.type = "REQUEST"
        /\ \A i \in Acking(k.xid, d) : (i \in Acking(k.xid, b) /\ d[i] = b[i]) \/ Acked(m)
        /\ k.st \in Lasting => m.type = "REQUEST"
    BY <1>1, <1>5, <1>7, <1>10, ServedClient
  <2>3. m.type # "INFORM"
    BY <1>1, <1>10, ServedIs
  <2>4. CASE RequestRefused(m)
    <3>1. file' = file /\ table' = table /\ ~Acked(m)
      BY <2>4 DEF RequestRefused
    <3>2. HeldOK(c, k, file, table, up) /\ AckOK(c, k, b, file, table, up)
      BY <1>7, <2>1 DEF ClientsKept
    <3>3. AckOK(c, k, d, file, table, up)
      BY <2>2, <3>1, <3>2 DEF AckOK
    <3> QED BY <1>3, <1>7, <3>1, <3>2, <3>3
  <2>5. CASE ~RequestRefused(m)
    <3>1. m.type # "REQUEST" /\ ~Acked(m)
      BY <1>2, <1>10, <2>3, <2>5 DEF Discover, Decline, Release, Inform, Acked
    <3>2. k.st \notin Lasting /\ Acking(k.xid, d) = {}
      BY <2>2, <3>1
    <3>3. HeldOK(c, k, file', table', up') /\ AckOK(c, k, d, file', table', up')
      BY <3>2 DEF HeldOK, AckOK
    <3> QED BY <1>3, <1>7, <3>3
  <2> QED BY <2>4, <2>5
<1> QED BY <1>8, <1>9, <1>10

\* So do writing the file, ending, crashing and starting again, or the loss is
\* recorded.
LEMMA ClientsLife ==
  ASSUME IInv, IInv', Exchanges, Exchanges', ClientsKept,
         Save \/ Terminate \/ Crash \/ CrashInAck \/ Restart \/ RestartUnread
  PROVE  ClientsKept'
<1>1. TableOK(table) /\ Network /\ Hosts /\ TableOK(table') /\ TableOK(file') /\ Network' /\ Hosts'
  BY DEF IInv, Tables
<1> SUFFICES ASSUME NEW c \in Clients, c \notin forgot'
             PROVE  HeldOK(c, client'[c], file', table', up') /\ AckOK(c, client'[c], mail'[c], file', table', up')
  BY DEF ClientsKept
<1>2. c \in Macs /\ client' = client
  BY DEF Macs, Save, Terminate, Crash, CrashInAck, Restart, RestartUnread
<1>3. PICK k, b, d : k = client[c] /\ b = mail[c] /\ d = mail'[c]
  OBVIOUS
<1>4. CASE Save \/ Terminate \/ Crash \/ Restart \/ RestartUnread
  <2>1. c \notin forgot /\ d = b
    BY <1>3, <1>4 DEF Save, Terminate, Crash, Restart, RestartUnread
  <2>2. \A g : g.left \in Int /\ GrantOK(c, g, file, table, up) => GrantOK(c, g, file', table', up')
    BY <1>2, <1>4, GrantLives
  <2>3. HeldOK(c, k, file', table', up') /\ AckOK(c, k, b, file', table', up')
    BY <1>1, <1>3, <2>1, <2>2, BackingKept
  <2> QED BY <1>2, <1>3, <2>1, <2>3
<1>5. CASE CrashInAck
  <2>1. PICK m \in Arrivals :
          /\ Acked(m) /\ Grant(m)
          /\ \E t \in AddLease(table, m.mac, WantedIp(m), LeaseTime(m.ask)) :
               forgot' = forgot \cup Forgets(t, file')
    BY <1>5 DEF CrashInAck
  <2>2. PICK t \in AddLease(table, m.mac, WantedIp(m), LeaseTime(m.ask)) :
          forgot' = forgot \cup Forgets(t, file')
    BY <2>1
  <2>3. m \in Requests
    BY <1>1, ArrivalsType
  <2>4. up /\ up' = FALSE /\ c \notin forgot /\ c \notin Forgets(t, file') /\ file' \subseteq Lease
    BY <1>1, <1>5, <2>2 DEF CrashInAck, Stopped, TableOK
  <2>5. Replied(m)
    BY <1>1, <2>1, <2>3, GrantReplies
  <2>6. CASE c # m.mac
    <3>1. d = b
      BY <1>3, <2>5, <2>6 DEF Replied
    <3>2. \A g : g.left \in Int /\ GrantOK(c, g, file, table, up) => GrantOK(c, g, file', table', up')
      BY <1>2, <2>1, <2>3, <2>4, <2>6, GrantOutlives
    <3>3. HeldOK(c, k, file', table', up') /\ AckOK(c, k, b, file', table', up')
      BY <1>1, <1>3, <2>4, <3>2, BackingKept
    <3> QED BY <1>2, <1>3, <3>1, <3>3
  <2>7. CASE c = m.mac
    <3>1. PICK g : g = [nip |-> WantedIp(m), left |-> LeaseTime(m.ask)]
      OBVIOUS
    <3>2. /\ g.left \in Int /\ g.left >= 0
          /\ StaticIp(c) # NoIp => g.nip = StaticIp(c)
          /\ StaticIp(c) = NoIp => g.nip \in Pool /\ Has(t, c, g)
      BY <1>1, <2>1, <2>3, <2>7, <3>1, NewGrantOK
    <3>3. TableOK(t)
      BY <1>1, <2>1, <2>3, AckKeeps
    <3>4. StaticIp(c) = NoIp => Has(file', c, g)
      BY <1>2, <2>4, <3>2, <3>3, NotForgotten
    <3>5. GrantOK(c, g, file', table', up')
      BY <2>4, <3>2, <3>4 DEF GrantOK
    <3> QED BY <1>1, <1>2, <2>1, <2>5, <2>7, <3>1, <3>5, AckBacks
  <2> QED BY <2>6, <2>7
<1> QED BY <1>4, <1>5

\* Time keeps them: what a client may rely on grows less as its lease does.
LEMMA ClientsTick ==
  ASSUME IInv, Exchanges, ClientsKept, Tick
  PROVE  ClientsKept'
<1> SUFFICES ASSUME NEW c \in Clients, c \notin forgot'
             PROVE  HeldOK(c, client'[c], file', table', up') /\ AckOK(c, client'[c], mail'[c], file', table', up')
  BY DEF ClientsKept
<1>1. PICK k, j : k = client[c] /\ j = Later(k)
  OBVIOUS
<1>2. client'[c] = j /\ mail'[c] = <<>> /\ k.timeout # 0 /\ c \notin forgot
  BY <1>1 DEF Tick
<1>3. k \in ClientRecs /\ Timed(k) /\ HeldOK(c, k, file, table, up)
  BY <1>1, <1>2, DueIs DEF IInv, Exchanges, ClientsKept
<1>4. AckOK(c, j, <<>>, file', table', up')
  BY DEF AckOK, Acking
<1>5. j.st = k.st /\ j.req = k.req
  BY <1>1, <1>3, LaterIs
<1>6. ASSUME j.st \in Lasting, Trust(j) > 0 PROVE GrantOK(c, Held(j), file', table', up')
  <2>1. PICK rely, less : rely = Trust(k) /\ less = Trust(j)
    OBVIOUS
  <2>2. rely \in Int /\ less = rely - 1 /\ less > 0 /\ k.st \in Lasting
    BY <1>1, <1>2, <1>3, <1>5, <1>6, <2>1, LaterTimed
  <2>3. rely \in -1 .. Longest /\ k.req \in IpsOrNone
    <3>1. rely <= k.left
      BY <1>3, <2>1, <2>2, TrustType
    <3>2. k.left \in 0 .. Longest /\ k.req \in IpsOrNone /\ Longest \in Nat
      BY <1>3, ClientNumbers, LongestIs DEF ClientRecs
    <3> QED BY <2>2, <3>1, <3>2
  <2>4. PICK g, h : g = [nip |-> k.req, left |-> rely] /\ h = [g EXCEPT !.left = g.left - 1]
    OBVIOUS
  <2>5. g \in Grants /\ g.left = rely /\ g.nip = k.req
    BY <2>3, <2>4 DEF Grants
  <2>6. GrantOK(c, g, file, table, up)
    <3>1. Trust(k) > 0
      BY <2>1, <2>2
    <3>2. g = Held(k)
      BY <2>1, <2>4 DEF Held
    <3> QED BY <1>3, <2>2, <3>1, <3>2 DEF HeldOK
  <2>7. GrantOK(c, h, file', table', up')
    BY <2>2, <2>4, <2>5, <2>6, GrantAges
  <2>8. h = [nip |-> k.req, left |-> less]
    BY <2>2, <2>4
  <2>9. h = Held(j)
    BY <1>5, <2>1, <2>8 DEF Held
  <2> QED BY <2>7, <2>9
<1> QED BY <1>2, <1>4, <1>6 DEF HeldOK

\* A step of the client itself: it gives its lease up, goes on with it or takes
\* the lease of an ACK.
LEMMA ClientsTurn ==
  ASSUME IInv, IInv', Exchanges, ClientsKept, NEW c \in Clients, ClientStep(c)
  PROVE  ClientsKept'
<1>1. Network /\ Hosts /\ Hosts' /\ TableOK(table) /\ TableOK(file)
  BY DEF IInv, Tables
<1>2. up' = up /\ table' = table /\ file' = file /\ forgot' = forgot
  BY <1>1, ClientStepIs DEF Stepped, server, IInv
<1>3. PICK k, b : k = client[c] /\ b = mail[c]
  OBVIOUS
<1>4. Turn(c, k)
  BY <1>1, <1>3, ClientTurn
<1>5. PICK j : /\ client' = [client EXCEPT ![c] = j]
               /\ \/ Leaves(c, k, j) \/ Discovers(c, k, j) \/ Chooses(c, k, j)
                  \/ GoesOn(c, k, j) \/ Binds(c, k, j)
  BY <1>4 DEF Turn
<1>6. client'[c] = j /\ \A e \in Clients : e # c => client'[e] = client[e]
  BY <1>1, <1>5 DEF Hosts
<1>7. mail' = mail \/ Reading(c)
  BY <1>5 DEF Leaves, Discovers, Chooses, GoesOn, Binds
<1>8. PICK d : d = mail'[c]
  OBVIOUS
<1>9. Suffix(d, b) /\ \A e \in Clients : e # c => mail'[e] = mail[e]
  BY <1>1, <1>3, <1>7, <1>8, ReadingIs
<1>10. k \in ClientRecs /\ j \in ClientRecs
  BY <1>1, <1>3, <1>6 DEF Hosts
<1>11. Timed(k)
  BY <1>3 DEF Exchanges
<1>12. Matched(c, k, inbox, b)
  BY <1>3 DEF Exchanges
<1>13. ASSUME c \notin forgot
       PROVE  HeldOK(c, j, file, table, up) /\ AckOK(c, j, d, file, table, up)
  <2>1. HeldOK(c, k, file, table, up) /\ AckOK(c, k, b, file, table, up)
    BY <1>3, <1>13 DEF ClientsKept
  <2>2. AckOK(c, j, b, file, table, up) => AckOK(c, j, d, file, table, up)
    BY <1>9, AckLess
  <2>3. CASE Leaves(c, k, j) \/ Discovers(c, k, j)
    <3>1. j.st \notin Engaged /\ j.st \notin Lasting
      BY <2>3 DEF Leaves, Discovers, Engaged, Lasting, Holding
    <3> QED BY <3>1 DEF HeldOK, AckOK
  <2>4. CASE Chooses(c, k, j)
    <3>1. k.st = "INIT_SELECTING" /\ k.open /\ j.st = "REQUESTING" /\ j.xid = k.xid
      BY <2>4 DEF Chooses
    <3>2. Acking(j.xid, b) = {}
      BY <1>12, <3>1, MatchedOffer
    <3>3. AckOK(c, j, b, file, table, up)
      BY <3>2 DEF AckOK
    <3>4. HeldOK(c, j, file, table, up)
      BY <3>1 DEF HeldOK, Lasting, Holding
    <3> QED BY <2>2, <3>3, <3>4
  <2>5. CASE GoesOn(c, k, j)
    <3>1. /\ j.xid = k.xid /\ j.req = k.req /\ Trust(j) <= Trust(k) /\ k.st \in Engaged /\ Timed(j)
          /\ j.st \in Lasting => k.st \in Lasting
      BY <2>5 DEF GoesOn, Same
    <3>2. AckOK(c, j, b, file, table, up)
      BY <2>1, <3>1 DEF AckOK
    <3>3. ASSUME j.st \in Lasting, Trust(j) > 0 PROVE GrantOK(c, Held(j), file, table, up)
      <4>1. Trust(k) \in Int /\ Trust(j) \in Int
        BY <1>10, <1>11, <3>1, <3>3, TrustType
      <4>2. GrantOK(c, Held(k), file, table, up)
        BY <2>1, <3>1, <3>3, <4>1 DEF HeldOK
      <4>3. PICK g, h : g = Held(k) /\ h = Held(j)
        OBVIOUS
      <4>4. h.nip = g.nip /\ h.left = Trust(j) /\ g.left = Trust(k)
        BY <3>1, <4>3 DEF Held
      <4>5. g.left \in Int /\ h.left \in Int /\ h.left >= 0 /\ h.left <= g.left
        BY <3>1, <3>3, <4>1, <4>4
      <4>6. GrantOK(c, h, file, table, up)
        BY <1>1, <4>2, <4>3, <4>4, <4>5, GrantLess
      <4> QED BY <4>3, <4>6
    <3> QED BY <2>2, <3>2, <3>3 DEF HeldOK
  <2>6. CASE Binds(c, k, j)
    <3>1. /\ k.st \in Engaged /\ b # <<>> /\ b[1].type = "ACK" /\ b[1].xid = k.xid
          /\ j.st \in Lasting /\ j.xid = k.xid /\ j.req = b[1].yi /\ Trust(j) <= b[1].time /\ Timed(j)
      BY <1>3, <2>6 DEF Binds, Reading, Lasting, Holding
    <3>2. 1 \in 1 .. Len(b)
      BY <1>1, <1>3, <3>1, NetworkIs, SuffixesAre
    <3>3. GrantOK(c, Offered(b[1]), file, table, up)
      BY <2>1, <3>1, <3>2 DEF AckOK, Acking
    <3>4. ASSUME Trust(j) > 0 PROVE GrantOK(c, Held(j), file, table, up)
      <4>1. PICK g, h : g = Offered(b[1]) /\ h = Held(j)
        OBVIOUS
      <4>2. h.nip = g.nip /\ h.left = Trust(j) /\ g.left = b[1].time
        BY <3>1, <4>1 DEF Held, Offered
      <4>3. Trust(j) \in Int
        BY <1>10, <3>1, TrustType
      <4>4. b[1].time \in Int
        <5>1. b[1] \in Replies
          BY <1>1, <1>3, <3>2, NetworkIs, ElementOfSeq
        <5> QED BY <5>1, LongestIs DEF Replies
      <4>5. GrantOK(c, h, file, table, up)
        BY <1>1, <3>1, <3>3, <3>4, <4>1, <4>2, <4>3, <4>4, GrantLess
      <4> QED BY <4>1, <4>5
    <3>5. HeldOK(c, j, file, table, up)
      BY <3>4 DEF HeldOK
    <3>6. AckOK(c, j, b, file, table, up)
      BY <2>1, <3>1 DEF AckOK
    <3> QED BY <2>2, <3>5, <3>6
  <2> QED BY <1>5, <2>3, <2>4, <2>5, <2>6
<1>14. ASSUME NEW e \in Clients, e \notin forgot'
       PROVE  HeldOK(e, client'[e], file', table', up') /\ AckOK(e, client'[e], mail'[e], file', table', up')
  <2>1. CASE e = c
    BY <1>2, <1>6, <1>8, <1>13, <1>14, <2>1
  <2>2. CASE e # c
    <3>1. client'[e] = client[e] /\ mail'[e] = mail[e] /\ e \notin forgot
      BY <1>2, <1>6, <1>9, <1>14, <2>2
    <3>2. HeldOK(e, client[e], file, table, up) /\ AckOK(e, client[e], mail[e], file, table, up)
      BY <3>1 DEF ClientsKept
    <3> QED BY <1>2, <3>1, <3>2
  <2> QED BY <2>1, <2>2
<1> QED BY <1>14 DEF ClientsKept

\* Replies are lost, and nothing else that a lease depends on changes.
LEMMA ClientsLose ==
  ASSUME ClientsKept, client' = client, up' = up, table' = table, file' = file, forgot' = forgot,
         \A c \in Clients : Suffix(mail'[c], mail[c])
  PROVE  ClientsKept'
<1> SUFFICES ASSUME NEW c \in Clients, c \notin forgot
             PROVE  HeldOK(c, client[c], file, table, up) /\ AckOK(c, client[c], mail'[c], file, table, up)
  BY DEF ClientsKept
<1>1. HeldOK(c, client[c], file, table, up) /\ AckOK(c, client[c], mail[c], file, table, up)
  BY DEF ClientsKept
<1> QED BY <1>1, AckLess

\* No client has anything yet.
LEMMA ClientsInit == Init => ClientsKept
<1> SUFFICES ASSUME Init, NEW c \in Clients
             PROVE  HeldOK(c, client[c], file, table, up) /\ AckOK(c, client[c], mail[c], file, table, up)
  BY DEF ClientsKept
<1>1. client[c].st = "QUIT"
  BY DEF Init, Idle
<1>2. client[c].st \notin Lasting /\ client[c].st \notin Engaged
  BY <1>1 DEF Engaged, Lasting, Holding
<1> QED BY <1>2 DEF HeldOK, AckOK

\* Every step keeps ClientsKept.
LEMMA ClientsNext == IInv /\ Exchanges /\ ClientsKept /\ [Next]_vars => ClientsKept'
<1> SUFFICES ASSUME IInv, Exchanges, ClientsKept, [Next]_vars PROVE ClientsKept'
  OBVIOUS
<1>1. IInv' /\ Exchanges' /\ Network
  BY NextKeeps, ExchangesNext DEF IInv
<1>2. \A c \in Clients : Suffix(mail[c], mail[c])
  BY <1>1, SuffixesAre DEF Network
<1>3. CASE Serve
  BY <1>1, <1>3, ClientsServe
<1>4. CASE Save \/ Terminate \/ Crash \/ CrashInAck \/ Restart \/ RestartUnread
  BY <1>1, <1>4, ClientsLife
<1>5. ASSUME NEW c \in Clients, ClientStep(c) PROVE ClientsKept'
  BY <1>1, <1>5, ClientsTurn
<1>6. ASSUME NEW c \in Clients, LoseReply(c) PROVE ClientsKept'
  <2>1. client' = client /\ UNCHANGED server /\ Reading(c)
    BY <1>6 DEF LoseReply, Reading
  <2>2. \A e \in Clients : Suffix(mail'[e], mail[e])
    BY <1>1, <1>2, <2>1, ReadingIs
  <2> QED BY <2>1, <2>2, ClientsLose DEF server
<1>7. CASE LoseRequest \/ UNCHANGED vars
  <2>1. client' = client /\ mail' = mail /\ UNCHANGED server
    BY <1>7 DEF LoseRequest, vars, server
  <2> QED BY <1>2, <2>1, ClientsLose DEF server
<1>8. CASE Tick
  BY <1>8, ClientsTick
<1> QED BY <1>3, <1>4, <1>5, <1>6, <1>7, <1>8 DEF Next

-----------------------------------------------------------------------------
(* What clients and other hosts may rely on                                *)

\* An address that a client uses is the one it was given, and it may rely on it.
LEMMA UsedIsHeld ==
  ASSUME Hosts, Exchanges, NEW c \in Clients, NEW k, k = client[c], Uses(c) # NoIp
  PROVE  /\ k.st \in Lasting /\ Uses(c) = k.req
         /\ Trust(k) \in Int /\ Trust(k) > 0 /\ Trust(k) >= k.left - ProbeTime
<1>1. c \notin Others
  BY DhcpAssumption
<1>2. k.st # "QUIT" /\ k.left > ProbeTime /\ Uses(c) = k.cfg /\ k.cfg # NoIp
  BY <1>1 DEF Uses
<1>3. k \in ClientRecs /\ ClientOK(k) /\ Timed(k)
  BY DEF Hosts, Exchanges
<1>4. k.st \in Lasting
  BY <1>2, <1>3 DEF ClientOK, Fits, Lasting
<1>5. k.cfg = k.req
  BY <1>2, <1>3, <1>4 DEF ClientOK, Fits, Lasting, Timed
<1>6. Trust(k) \in Int /\ k.left \in Int /\ Trust(k) >= k.left - ProbeTime /\ ProbeTime \in Nat
  BY <1>3, <1>4, TrustType, TrustIs
<1>7. Trust(k) > 0
  BY <1>2, <1>6
<1> QED BY <1>2, <1>4, <1>5, <1>6, <1>7

\* The lease of a client is in the table.
LEMMA HeldHas ==
  ASSUME IInv, Exchanges, ClientsKept, up, NEW c \in Clients, c \notin forgot, Uses(c) # NoIp,
         StaticIp(c) = NoIp, ~Contested(Uses(c))
  PROVE  \E l \in table : l.mac = c /\ l.nip = Uses(c) /\ l.left >= client[c].left - ProbeTime
<1>1. PICK k, ip : k = client[c] /\ ip = Uses(c)
  OBVIOUS
<1>2. /\ k.st \in Lasting /\ ip = k.req
      /\ Trust(k) \in Int /\ Trust(k) > 0 /\ Trust(k) >= k.left - ProbeTime
  BY <1>1, UsedIsHeld DEF IInv
<1>3. PICK g : g = Held(k)
  OBVIOUS
<1>4. g.nip = ip /\ g.left = Trust(k)
  BY <1>2, <1>3 DEF Held
<1>5. GrantOK(c, g, file, table, up)
  BY <1>1, <1>2, <1>3 DEF ClientsKept, HeldOK
<1>6. Has(table, c, g)
  BY <1>1, <1>4, <1>5 DEF GrantOK
<1>7. PICK l \in table : l.mac = c /\ l.nip = ip /\ l.left >= Trust(k)
  BY <1>4, <1>6 DEF Has
<1>8. l.left \in Int
  BY LeaseType DEF IInv, Tables, TableOK
<1>9. k.left - ProbeTime \in Int
  BY <1>1, ClientNumbers, DueIs, TrustIs DEF IInv, ClientRecs
<1>10. l.left >= k.left - ProbeTime
  BY <1>2, <1>7, <1>8, <1>9
<1> QED BY <1>1, <1>7, <1>10

\* The address a host uses is backed.
LEMMA UsedIsBacked ==
  ASSUME IInv, Exchanges, GrantsKept, ClientsKept, NEW o \in Macs \ forgot, Uses(o) # NoIp
  PROVE  \E g : g.nip = Uses(o) /\ GrantOK(o, g, file, table, up)
<1>1. CASE o \in Others
  BY <1>1 DEF GrantsKept, Uses
<1>2. CASE o \in Clients
  <2>1. PICK k : k = client[o]
    OBVIOUS
  <2>2. k.st \in Lasting /\ Uses(o) = k.req /\ Trust(k) > 0
    BY <1>2, <2>1, UsedIsHeld DEF IInv
  <2>3. GrantOK(o, Held(k), file, table, up)
    BY <1>2, <2>1, <2>2 DEF ClientsKept, HeldOK
  <2>4. Held(k).nip = Uses(o)
    BY <2>2 DEF Held
  <2> QED BY <2>3, <2>4
<1> QED BY <1>1, <1>2 DEF Macs

(***************************************************************************)
(* Whatever is lost and whenever the server crashes or clients start, stop *)
(* and renew: the packets of a client and the answers on their way to it   *)
(* stay in the order of its exchanges, no answer names an address other    *)
(* than the one the client chose, and nothing is on its way to the server  *)
(* that could end a lease the client still has (random_xid, and the xid    *)
(* test of udhcpc_main).                                                   *)
(***************************************************************************)
THEOREM ExchangesInOrder == Spec => []Exchanges
BY Inductive, ExchangesInit, ExchangesNext, PTL DEF Spec

(***************************************************************************)
(* In every reachable state the interface and the socket of each client    *)
(* fit its state, also while a renewed address is probed, and neither the  *)
(* server's table nor its file outgrows its slots (udhcpc_main, add_lease, *)
(* read_leases).                                                           *)
(***************************************************************************)
THEOREM DhcpCorrect == Spec => []DhcpInv
<1>1. ASSUME IInv, Exchanges PROVE ConfiguredWhileHeld
  <2> SUFFICES ASSUME NEW c \in Clients, NEW k, k = client[c]
               PROVE  /\ k.st \in Holding => k.cfg = k.req
                      /\ k.st = "PROBING" => k.cfg \in {NoIp, k.req}
                      /\ k.st \notin Holding \cup {"PROBING", "QUIT"} => k.cfg = NoIp
    BY DEF ConfiguredWhileHeld
  <2>1. ClientOK(k) /\ Timed(k)
    BY <1>1 DEF IInv, Hosts, Exchanges
  <2> QED BY <2>1 DEF ClientOK, Fits, Timed
<1>2. IInv /\ Exchanges => DhcpInv
  BY <1>1, IInvSays DEF DhcpInv
<1> QED BY <1>2, Inductive, ExchangesInOrder, PTL

\* Everything a client holds or is about to be given is backed.
LEMMA ClientsBacked == Spec => []ClientsKept
BY ClientsNext, Inductive, ExchangesInOrder, ClientsInit, PTL DEF Spec

\* So is everything another host was given.
LEMMA OthersBacked == Spec => []GrantsKept
BY GrantsNext, Inductive, GrantsInit, PTL DEF Spec

(***************************************************************************)
(* For any timeouts, any time of the ARP probe and any number of clients:  *)
(* while the server runs, the address a udhcpc uses is reserved for it in  *)
(* the server's table for at least as long as the client believes, less    *)
(* the time of the probe; unless its lease was not written or not read     *)
(* back, or is static or contested by a static one (send_ACK,              *)
(* write_leases, read_leases, udhcpc_main).                                *)
(***************************************************************************)
THEOREM HeldAreReserved == Spec => []HeldIsReserved
<1>1. IInv /\ Exchanges /\ ClientsKept => HeldIsReserved
  BY HeldHas DEF HeldIsReserved
<1> QED BY <1>1, Inductive, ExchangesInOrder, ClientsBacked, PTL

(***************************************************************************)
(* For any clients, other hosts and static leases: no address is used by   *)
(* two hosts at the same time, unless the lease of one was not written or  *)
(* not read back, or the address is a static one inside the pool or of two *)
(* macs (send_offer, send_ACK, write_leases, read_leases, udhcpc_main).    *)
(***************************************************************************)
THEOREM AllExclusive == Spec => []Exclusive
<1>1. ASSUME IInv, Exchanges, GrantsKept, ClientsKept PROVE Exclusive
  <2> SUFFICES ASSUME NEW m \in Macs \ forgot, NEW n \in Macs \ forgot, m # n,
                      Uses(m) # NoIp, ~Contested(Uses(m)), Uses(m) = Uses(n)
               PROVE  FALSE
    BY DEF Exclusive
  <2>1. PICK g : g.nip = Uses(m) /\ GrantOK(m, g, file, table, up)
    BY <1>1, UsedIsBacked
  <2>2. PICK h : h.nip = Uses(n) /\ GrantOK(n, h, file, table, up)
    BY <1>1, UsedIsBacked
  <2>3. g.nip # NoIp /\ ~Contested(g.nip) /\ g.nip = h.nip
    BY <2>1, <2>2
  <2> QED BY <1>1, <2>1, <2>2, <2>3, BackedApart
<1> QED BY <1>1, Inductive, ExchangesInOrder, OthersBacked, ClientsBacked, PTL
=============================================================================
