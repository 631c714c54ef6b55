----------------------------- MODULE SyslogProofs -----------------------------
(***************************************************************************)
(* Proofs about Syslog, for any size of the buffer, any messages and any   *)
(* finite number of logread processes.                                     *)
(***************************************************************************)
EXTENDS Syslog, FiniteSetTheorems, SequenceTheorems, WellFoundedInduction, TLAPS

-----------------------------------------------------------------------------
(* Arithmetic                                                              *)

\* Quotient and remainder, and that they are the only ones.
LEMMA DivMod ==
  ASSUME NEW a \in Int, NEW b \in Int, b > 0, NEW q, q = a \div b, NEW m, m = a % b
  PROVE  q \in Int /\ m \in 0 .. b - 1 /\ a = q * b + m
<1>1. q \in Int /\ m \in 0 .. b - 1
  OBVIOUS
<1>2. m = a - b * q
  OBVIOUS
<1> QED BY <1>1, <1>2

\* Quotient and remainder are unique.
LEMMA DivUnique ==
  ASSUME NEW b \in Int, b > 0, NEW q \in Int, NEW r \in 0 .. b - 1
  PROVE  (q * b + r) \div b = q /\ (q * b + r) % b = r
OBVIOUS

\* Multiples of b are b apart.
LEMMA MulLess ==
  ASSUME NEW b \in Int, b > 0, NEW p \in Int, NEW q \in Int, p < q
  PROVE  p * b + b <= q * b
OBVIOUS

\* Products that the provers have to be told of.
LEMMA MulDistributes ==
  ASSUME NEW b \in Int, NEW p \in Int, NEW q \in Int
  PROVE  (p + q) * b = p * b + q * b /\ (p - 1) * b = p * b - b
OBVIOUS

\* A quotient of a number that is not negative is not negative.
LEMMA DivNat ==
  ASSUME NEW b \in Int, b > 0, NEW q \in Int, NEW m \in 0 .. b - 1, q * b + m >= 0
  PROVE  q \in Nat /\ q * b >= 0
<1>1. ASSUME q < 0 PROVE FALSE
  <2>1. q * b + b <= 0 * b
    BY <1>1, MulLess
  <2> QED BY <2>1
<1>2. CASE q = 0
  BY <1>2
<1>3. CASE q > 0
  <2>1. 0 * b + b <= q * b
    BY <1>3, MulLess
  <2> QED BY <1>3, <2>1
<1> QED BY <1>1, <1>2, <1>3

\* Every set of naturals that is not empty has a least element.
LEMMA NatMin ==
  ASSUME NEW T \in SUBSET Nat, T # {}
  PROVE  Min(T) \in T /\ \A y \in T : Min(T) <= y
<1> DEFINE R == {ss \in Nat \X Nat : ss[1] < ss[2]}
<1>1. IsWellFoundedOn(R, Nat)
  BY NatLessThanWellFounded DEF OpToRel
<1> HIDE DEF R
<1>2. PICK x \in T : \A y \in T : ~(<<y, x>> \in R)
  BY <1>1, WFMin
<1>3. \A y \in T : ~(y < x)
  BY <1>2 DEF R
<1>4. \A y \in T : x <= y
  BY <1>3
<1> QED BY <1>4 DEF Min

-----------------------------------------------------------------------------
(* The buffer: what is at a place, and what is copied from one to the tail *)

\* The buffer has at least one byte.
LEMMA SizeType == Size \in Nat /\ Size \in Int /\ Size > 0
BY SyslogAssumption

\* Each of the last Size bytes of the stream is at its place.
LEMMA ByteOfPlace ==
  ASSUME total \in Nat, NEW b \in Nat, 1 <= b, b <= total, total - b < Size,
         NEW i, i = (b - 1) % Size
  PROVE  i \in 0 .. Size - 1 /\ ByteAt(i) = b
<1> DEFINE q == (b - 1) \div Size
<1>0. Size \in Int /\ Size > 0 /\ b - 1 \in Int
  BY SizeType
<1>1. q \in Int /\ i \in 0 .. Size - 1 /\ b - 1 = q * Size + i
  BY <1>0, DivMod
<1> HIDE DEF q
<1>2. q \in Nat /\ q * Size >= 0
  BY <1>0, <1>1, DivNat
<1>3. q * Size \in Int
  BY <1>0, <1>1
<1>4. total - 1 - i = q * Size + (total - b) /\ ~(i >= total)
  BY <1>0, <1>1, <1>2, <1>3
<1>5. total - b \in 0 .. Size - 1
  BY <1>0
<1>6. (q * Size + (total - b)) \div Size = q
  BY <1>0, <1>1, <1>5, DivUnique
<1>7. (total - 1 - i) \div Size = q
  BY <1>4, <1>6
<1>8. ByteAt(i) = i + 1 + q * Size
  BY <1>4, <1>7 DEF ByteAt
<1> QED BY <1>0, <1>1, <1>3, <1>8

\* At every place there is a byte of the stream, or a NUL that was always there.
LEMMA ByteRange ==
  ASSUME total \in Nat, NEW i \in 0 .. Size - 1
  PROVE  ByteAt(i) \in 0 .. total
<1>1. CASE i >= total
  BY <1>1 DEF ByteAt
<1>2. CASE i < total
  <2> DEFINE q == (total - 1 - i) \div Size
  <2> DEFINE m == (total - 1 - i) % Size
  <2>0. Size \in Int /\ Size > 0 /\ total - 1 - i \in Int /\ i \in Int /\ total - 1 - i >= 0
    BY <1>2, SizeType
  <2>1. q \in Int /\ m \in 0 .. Size - 1 /\ total - 1 - i = q * Size + m
    BY <2>0, DivMod
  <2>2. ByteAt(i) = i + 1 + q * Size
    BY <1>2, <2>0 DEF ByteAt
  <2> HIDE DEF q, m
  <2>3. q * Size >= 0 /\ q * Size \in Int
    BY <2>0, <2>1, DivNat
  <2>4. i + 1 + q * Size = total - m
    BY <2>0, <2>1, <2>3
  <2> QED BY <2>0, <2>1, <2>2, <2>3, <2>4
<1> QED BY <1>1, <1>2, SizeType

\* From place c to the tail: how many bytes that is.
Behind(c) == IF tail >= c THEN tail - c ELSE tail - c + Size

\* What is copied from place c to the tail is the end of the stream, after NULs
\* where the stream is shorter than that.
LEMMA CopiedIs ==
  ASSUME total \in Nat, tail = total % Size, NEW c \in 0 .. Size - 1
  PROVE  /\ Behind(c) \in 0 .. Size - 1
         /\ Copied(c) = [k \in 1 .. Behind(c) |->
              IF total - Behind(c) + k >= 1 THEN total - Behind(c) + k ELSE 0]
<1> DEFINE n == Behind(c)
<1> DEFINE Q == total \div Size
<1>0. Size \in Int /\ Size > 0 /\ total \in Int /\ c \in Int /\ 0 <= c /\ c < Size
  BY SizeType
<1>1. Q \in Int /\ tail \in 0 .. Size - 1 /\ total = Q * Size + tail
  BY <1>0, DivMod
<1> HIDE DEF Q
<1>1a. Q \in Nat /\ Q * Size >= 0 /\ Q * Size \in Int
  BY <1>0, <1>1, DivNat
<1>2. n \in 0 .. Size - 1 /\ (n = tail - c \/ (n = tail - c + Size /\ tail < c))
  BY <1>0, <1>1 DEF Behind
<1>3. Copied(c) = [k \in 1 .. n |-> ByteAt((c + k - 1) % Size)]
  BY DEF Copied, Behind
<1> HIDE DEF n
<1>4. ASSUME NEW k \in 1 .. n
      PROVE  ByteAt((c + k - 1) % Size) = IF total - n + k >= 1 THEN total - n + k ELSE 0
  <2> DEFINE e == (c + k - 1) \div Size
  <2> DEFINE p == (c + k - 1) % Size
  <2> DEFINE b == total - n + k
  <2>0. k \in Int /\ n \in Int /\ 1 <= k /\ k <= n /\ c + k - 1 \in Int /\ c + k - 1 >= 0
    BY <1>0, <1>2
  <2>1. e \in Int /\ p \in 0 .. Size - 1 /\ c + k - 1 = e * Size + p
    BY <1>0, <2>0, DivMod
  <2>2. ByteAt((c + k - 1) % Size) = ByteAt(p)
    OBVIOUS
  <2> HIDE DEF e, p
  <2>3. e * Size \in Int /\ p \in Int
    BY <1>0, <2>1
  <2>4. CASE b >= 1
    <3>1. b \in Nat /\ b <= total /\ total - b < Size
      BY <1>0, <1>2, <2>0, <2>4
    <3>2. (b - 1) % Size = p
      <4>1. CASE n = tail - c
        <5>1. b - 1 = Q * Size + e * Size + p
          BY <1>0, <1>1, <1>1a, <2>0, <2>1, <2>3, <4>1
        <5>2. (Q + e) * Size = Q * Size + e * Size /\ Q + e \in Int
          BY <1>0, <1>1, <2>1, MulDistributes
        <5>3. ((Q + e) * Size + p) % Size = p
          BY <1>0, <2>1, <5>2, DivUnique
        <5> QED BY <5>1, <5>2, <5>3
      <4>2. CASE n = tail - c + Size
        <5>1. b - 1 = Q * Size - Size + e * Size + p
          BY <1>0, <1>1, <1>1a, <2>0, <2>1, <2>3, <4>2
        <5>2. (Q - 1) * Size = Q * Size - Size /\ Q - 1 \in Int
          BY <1>0, <1>1, MulDistributes
        <5>3. ((Q - 1) + e) * Size = (Q - 1) * Size + e * Size /\ (Q - 1) + e \in Int
          BY <1>0, <2>1, <5>2, MulDistributes
        <5>4. (((Q - 1) + e) * Size + p) % Size = p
          BY <1>0, <2>1, <5>3, DivUnique
        <5> QED BY <5>1, <5>2, <5>3, <5>4
      <4> QED BY <1>2, <4>1, <4>2
    <3>3. ByteAt(p) = b
      BY <2>4, <3>1, <3>2, ByteOfPlace
    <3> QED BY <2>2, <2>4, <3>3
  <2>5. CASE ~(b >= 1)
    <3>1. total < Size
      BY <1>0, <1>2, <2>0, <2>5
    <3>2. Q = 0
      <4> SUFFICES ASSUME Q > 0 PROVE FALSE
        BY <1>1a
      <4>1. 0 * Size + Size <= Q * Size
        BY <1>0, <1>1, MulLess
      <4> QED BY <1>0, <1>1, <1>1a, <3>1, <4>1
    <3>3. total = tail
      BY <1>0, <1>1, <3>2
    <3>4. n = tail - c + Size /\ tail < c
      BY <1>0, <1>1, <1>2, <2>0, <2>5, <3>3
    <3>5. c + k - 1 < Size
      BY <1>0, <1>1, <2>0, <2>5, <3>3, <3>4
    <3>6. p = c + k - 1
      <4>1. (0 * Size + (c + k - 1)) % Size = c + k - 1
        BY <1>0, <2>0, <3>5, DivUnique
      <4>2. (c + k - 1) % Size = c + k - 1
        BY <4>1, <1>0, <2>0
      <4> QED BY <4>2 DEF p
    <3>7. p >= total
      BY <1>0, <1>1, <2>0, <3>3, <3>4, <3>6
    <3>8. ByteAt(p) = 0
      BY <3>7 DEF ByteAt
    <3> QED BY <2>2, <2>5, <3>8
  <2> QED BY <2>4, <2>5
<1>5. Copied(c) = [k \in 1 .. n |-> IF total - n + k >= 1 THEN total - n + k ELSE 0]
  BY <1>3, <1>4
<1> QED BY <1>2, <1>5 DEF n


\* Copied bytes are a sequence of bytes of the stream and NULs.
LEMMA CopiedType ==
  ASSUME total \in Nat, tail = total % Size, NEW c \in 0 .. Size - 1
  PROVE  /\ Copied(c) \in Seq(0 .. total) /\ Len(Copied(c)) = Behind(c) /\ Behind(c) \in 0 .. Size - 1
         /\ \A k \in 1 .. Behind(c) : Copied(c)[k] =
              IF total - Behind(c) + k >= 1 THEN total - Behind(c) + k ELSE 0
<1> DEFINE n == Behind(c)
<1> DEFINE f == Copied(c)
<1>1. n \in 0 .. Size - 1 /\ n \in Nat
  BY CopiedIs, SizeType
<1>2. f = [k \in 1 .. n |-> IF total - n + k >= 1 THEN total - n + k ELSE 0]
  BY CopiedIs
<1> HIDE DEF n, f
<1>3. \A k \in 1 .. n : (IF total - n + k >= 1 THEN total - n + k ELSE 0) \in 0 .. total
  BY <1>1
<1>4. f \in [1 .. n -> 0 .. total]
  BY <1>2, <1>3
<1>5. f \in Seq(0 .. total) /\ Len(f) = n
  BY <1>1, <1>4
<1>6. \A k \in 1 .. n : f[k] = IF total - n + k >= 1 THEN total - n + k ELSE 0
  BY <1>2
<1> QED BY <1>1, <1>5, <1>6 DEF n, f

\* strlen and strnlen come to the first NUL.
LEMMA StrlenIs ==
  ASSUME NEW i \in 0 .. Size - 1
  PROVE  LET nul == i + Strlen(i)
         IN  /\ nul \in i .. Size /\ IsNul(nul)
             /\ \A k \in i .. Size : IsNul(k) => nul <= k
<1> DEFINE T == {k \in i .. Size : IsNul(k)}
<1>1. T \in SUBSET Nat /\ Size \in T
  BY SizeType DEF IsNul
<1> DEFINE m == Min(T)
<1>2. m \in T /\ \A y \in T : m <= y
  BY <1>1, NatMin
<1>3. Strlen(i) = m - i
  BY DEF Strlen
<1> HIDE DEF m
<1>4. m \in i .. Size /\ IsNul(m) /\ \A k \in i .. Size : IsNul(k) => m <= k
  BY <1>2
<1>5. i + Strlen(i) = m
  BY <1>3, <1>4
<1> QED BY <1>4, <1>5

\* strnlen finds the first NUL, or the limit.
LEMMA StrnlenIs ==
  ASSUME NEW most \in 0 .. Size - 1
  PROVE  LET beg == Strnlen(0, most)
         IN  /\ beg \in 0 .. most /\ (beg # most => IsNul(beg))
             /\ \A k \in 0 .. most : IsNul(k) => beg <= k
<1> DEFINE T == {k \in 0 .. Size : IsNul(k)} \cup {0 + most}
<1>1. T \in SUBSET Nat /\ most \in T /\ most \in Nat
  BY SizeType
<1> DEFINE m == Min(T)
<1>2. m \in T /\ \A y \in T : m <= y
  BY <1>1, NatMin
<1>3. Strnlen(0, most) = m - 0
  BY DEF Strnlen
<1> HIDE DEF m
<1>4. m \in Nat /\ m <= most /\ (m # most => IsNul(m))
  BY <1>1, <1>2
<1>5. \A k \in 0 .. most : IsNul(k) => m <= k
  BY <1>2, SizeType
<1>6. Strnlen(0, most) = m
  BY <1>3, <1>4
<1> QED BY <1>1, <1>4, <1>5, <1>6

-----------------------------------------------------------------------------
(* The inductive invariant                                                 *)

Reader(m) == [pc : {"open", "lock", "in", "up", "done"}, follow : 0 .. 2, cur : 0 .. Size - 1,
              next : Nat, got : Seq(0 .. m), bad : BOOLEAN]

\* The semaphores: the writer's is up exactly when syslogd is inside or was killed
\* there, and then nobody else is.
Locks ==
  /\ readers = Cardinality(Inside) /\ (writer = 1 => Inside = {})
  /\ wpc \in {"in", "up"} => writer = 1
  /\ wpc \in {"idle", "wait"} => writer = 0

\* The stream ends with the end of a message whenever the buffer is not locked.
StreamWhole ==
  /\ wpc = "up" => total \in ends
  /\ writer = 0 => total = 0 \/ total \in ends
  /\ wpc \in {"wait", "in"} => wlen + total > 0

\* A reader's place is that of the byte it is to read next.
Cursor(c) == 1 <= c.next /\ c.next <= total + 1 /\ c.cur = (c.next - 1) % Size

IInv ==
  /\ TypeOK /\ Locks /\ TailIsOldest /\ StreamWhole
  /\ \A r \in Readers : Cursor(rd[r]) /\ ~rd[r].bad

\* The tail after so many times around the buffer.
LEMMA TotalLaps ==
  ASSUME total \in Nat, tail = total % Size
  PROVE  \E Q \in Int : tail \in 0 .. Size - 1 /\ total = Q * Size + tail
<1>1. Size \in Int /\ Size > 0 /\ total \in Int
  BY SizeType
<1> DEFINE Q == total \div Size
<1>2. Q \in Int /\ tail \in 0 .. Size - 1 /\ total = Q * Size + tail
  BY <1>1, DivMod
<1> HIDE DEF Q
<1> QED BY <1>2

\* The first pass finds a message whatever its place was.
LEMMA FirstPassFinds ==
  ASSUME total \in Nat, tail = total % Size, total = 0 \/ total \in ends,
         NEW c \in 0 .. Size - 1, c + Strlen(c) >= Size
  PROVE  Strnlen(0, tail) # tail
<1>0. Size \in Int /\ Size > 0 /\ total \in Int
  BY SizeType
<1>1. PICK Q \in Int : tail \in 0 .. Size - 1 /\ total = Q * Size + tail
  BY TotalLaps
<1>2. \A k \in c .. Size : IsNul(k) => c + Strlen(c) <= k
  BY StrlenIs
<1>2a. c + Strlen(c) \in Int
  BY StrlenIs, <1>0
<1>3. \A k \in c .. Size - 1 : ~IsNul(k)
  <2> SUFFICES ASSUME NEW k \in c .. Size - 1, IsNul(k) PROVE FALSE  OBVIOUS
  <2>1. k \in c .. Size /\ k \in Int /\ k < Size
    BY <1>0
  <2>2. c + Strlen(c) <= k
    BY <1>2, <2>1
  <2> QED BY <1>0, <1>2a, <2>1, <2>2
<1>4. total # 0
  <2> SUFFICES ASSUME total = 0 PROVE FALSE  OBVIOUS
  <2>1. ByteAt(c) = 0
    BY DEF ByteAt
  <2> QED BY <1>3, <2>1, <1>0 DEF IsNul
<1>5. CASE tail = 0
  <2>0. (Q - 1) * Size = Q * Size - Size /\ Q * Size \in Int
    BY <1>0, <1>1, MulDistributes
  <2>1. total - 1 = (Q - 1) * Size + (Size - 1) /\ Q - 1 \in Int
    BY <1>0, <1>1, <1>5, <2>0
  <2>2. ((Q - 1) * Size + (Size - 1)) % Size = Size - 1
    BY <1>0, <2>1, DivUnique
  <2>3. (total - 1) % Size = Size - 1
    BY <2>1, <2>2
  <2>4. ByteAt(Size - 1) = total
    BY <1>0, <1>4, <2>3, ByteOfPlace
  <2>5. IsNul(Size - 1)
    BY <1>4, <2>4 DEF IsNul
  <2>6. Size - 1 \in c .. Size - 1
    BY <1>0
  <2> QED BY <1>3, <2>5, <2>6
<1>6. CASE tail > 0
  <2>1. total - 1 = Q * Size + (tail - 1)
    BY <1>0, <1>1
  <2>2. (Q * Size + (tail - 1)) % Size = tail - 1
    BY <1>0, <1>1, <1>6, DivUnique
  <2>3. (total - 1) % Size = tail - 1
    BY <2>1, <2>2
  <2>4. ByteAt(tail - 1) = total
    BY <1>0, <1>4, <2>3, ByteOfPlace
  <2>5. IsNul(tail - 1)
    BY <1>4, <2>4 DEF IsNul
  <2>6. Strnlen(0, tail) <= tail - 1 /\ Strnlen(0, tail) \in Int
    BY <1>1, <1>6, <2>5, StrnlenIs
  <2> QED BY <1>1, <2>6
<1> QED BY <1>1, <1>5, <1>6


-----------------------------------------------------------------------------
(* Steps of a reader                                                       *)

\* TypeOK with the readers' types named.
LEMMA TypeParts ==
  TypeOK <=> /\ readers \in 0 .. Cardinality(Readers) /\ writer \in {0, 1}
             /\ tail \in 0 .. Size - 1 /\ total \in Nat /\ ends \subseteq 1 .. total
             /\ wpc \in {"idle", "wait", "in", "up", "dead"} /\ wlen \in 0 .. Size
             /\ msgs \in 0 .. MaxMsgs /\ rd \in [Readers -> Reader(total)]
BY DEF TypeOK, Reader

\* Reader r goes from rd[r] to c, and the count of the semaphore goes with it.
LEMMA ReaderKeeps ==
  ASSUME IInv, NEW r \in Readers, NEW c \in Reader(total), rd' = [rd EXCEPT ![r] = c],
         UNCHANGED <<writer, tail, total, ends, wpc, wlen, msgs>>,
         Cursor(c), ~c.bad, c.pc \in {"in", "up"} => r \in Inside \/ writer = 0,
         readers' = IF c.pc \in {"in", "up"}
                    THEN IF r \in Inside THEN readers ELSE readers + 1
                    ELSE IF r \in Inside THEN readers - 1 ELSE readers
  PROVE  IInv'
<1>0. /\ TypeOK /\ Locks /\ TailIsOldest /\ StreamWhole
      /\ \A q \in Readers : Cursor(rd[q]) /\ ~rd[q].bad
      /\ rd \in [Readers -> Reader(total)]
  BY TypeParts DEF IInv
<1>1. rd' \in [Readers -> Reader(total)] /\ rd'[r] = c /\ \A q \in Readers : q # r => rd'[q] = rd[q]
  BY <1>0
<1>2. Inside' = IF c.pc \in {"in", "up"} THEN Inside \cup {r} ELSE Inside \ {r}
  BY <1>1 DEF Inside
<1>3. Inside \in SUBSET Readers /\ Inside' \in SUBSET Readers
  BY DEF Inside
<1>4. IsFiniteSet(Inside) /\ IsFiniteSet(Readers) /\ IsFiniteSet(Inside')
  BY <1>3, SyslogAssumption, FS_Subset
<1>5. readers' = Cardinality(Inside')
  <2>0. readers = Cardinality(Inside) /\ Cardinality(Inside) \in Nat
    BY <1>0, <1>4, FS_CardinalityType DEF Locks
  <2>1. CASE c.pc \in {"in", "up"}
    <3>1. Cardinality(Inside \cup {r}) = IF r \in Inside THEN Cardinality(Inside) ELSE Cardinality(Inside) + 1
      BY <1>4, FS_AddElement
    <3> QED BY <1>2, <2>0, <2>1, <3>1
  <2>2. CASE ~(c.pc \in {"in", "up"})
    <3>1. Cardinality(Inside \ {r}) = IF r \in Inside THEN Cardinality(Inside) - 1 ELSE Cardinality(Inside)
      BY <1>4, FS_RemoveElement
    <3> QED BY <1>2, <2>0, <2>2, <3>1
  <2> QED BY <2>1, <2>2
<1>6. readers' \in 0 .. Cardinality(Readers)
  <2>1. Cardinality(Inside') \in Nat /\ Cardinality(Readers) \in Nat
        /\ Cardinality(Inside') <= Cardinality(Readers)
    BY <1>3, <1>4, FS_Subset, FS_CardinalityType
  <2> QED BY <1>5, <2>1
<1>7. TypeOK'
  <2>1. rd' \in [Readers -> Reader(total')]
    BY <1>1
  <2> QED BY <1>0, <1>6, <2>1 DEF TypeOK, Reader
<1>8. Locks'
  <2>1. writer' = 1 => Inside' = {}
    BY <1>0, <1>2 DEF Locks
  <2> QED BY <1>0, <1>5, <2>1 DEF Locks
<1>9. TailIsOldest' /\ StreamWhole'
  BY <1>0 DEF TailIsOldest, StreamWhole
<1>10. \A q \in Readers : Cursor(rd[q])' /\ ~rd'[q].bad
  BY <1>0, <1>1 DEF Cursor
<1> QED BY <1>7, <1>8, <1>9, <1>10 DEF IInv

\* What every step of a reader starts from.
LEMMA ReaderStart ==
  ASSUME IInv, NEW r \in Readers
  PROVE  /\ rd \in [Readers -> Reader(total)] /\ rd[r] \in Reader(total)
         /\ total \in Nat /\ tail \in 0 .. Size - 1 /\ tail = total % Size
         /\ Cursor(rd[r]) /\ ~rd[r].bad /\ writer \in {0, 1} /\ readers \in Nat
         /\ r \in Inside <=> rd[r].pc \in {"in", "up"}
         /\ r \in Inside => writer = 0 /\ (total = 0 \/ total \in ends)
<1>1. /\ rd \in [Readers -> Reader(total)] /\ total \in Nat /\ tail \in 0 .. Size - 1
      /\ writer \in {0, 1} /\ readers \in 0 .. Cardinality(Readers)
  BY TypeParts DEF IInv
<1>2. r \in Inside <=> rd[r].pc \in {"in", "up"}
  BY DEF Inside
<1>3. r \in Inside => writer = 0 /\ (total = 0 \/ total \in ends)
  BY <1>1 DEF IInv, Locks, StreamWhole
<1>4. readers \in Nat
  BY <1>1, SyslogAssumption, FS_CardinalityType
<1> QED BY <1>1, <1>2, <1>3, <1>4 DEF IInv, TailIsOldest

\* A reader whose place is the tail is to read the next byte of the stream.
LEMMA AtTail ==
  ASSUME total \in Nat, tail = total % Size, NEW c, c.cur = tail, c.next = total + 1
  PROVE  Cursor(c)
BY DEF Cursor

\* logread reads the tail, before it has the lock.
LEMMA OpenKeeps ==
  ASSUME IInv, NEW r \in Readers, Open(r)
  PROVE  IInv'
<1> DEFINE c == [rd[r] EXCEPT !.pc = "lock", !.cur = tail, !.next = total + 1]
<1>0. /\ rd \in [Readers -> Reader(total)] /\ rd[r] \in Reader(total)
      /\ total \in Nat /\ tail \in 0 .. Size - 1 /\ tail = total % Size /\ ~rd[r].bad
      /\ r \in Inside <=> rd[r].pc \in {"in", "up"}
  BY ReaderStart
<1>1. c \in Reader(total) /\ c.pc = "lock" /\ c.cur = tail /\ c.next = total + 1 /\ c.bad = rd[r].bad
  <2>1. rd[r] \in Reader(total) /\ tail \in 0 .. Size - 1 /\ total + 1 \in Nat
    BY <1>0
  <2>2. c \in Reader(total)
    BY <2>1 DEF Reader
  <2>3. c.pc = "lock" /\ c.cur = tail /\ c.next = total + 1
    BY <2>1 DEF Reader
  <2>4. c.bad = rd[r].bad
    BY <2>1 DEF Reader
  <2> QED BY <2>2, <2>3, <2>4
<1>2. rd' = [rd EXCEPT ![r] = c] /\ UNCHANGED <<readers, writer, tail, total, ends, wpc, wlen, msgs>>
      /\ rd[r].pc = "open"
  BY <1>0 DEF Open, ring, At
<1> HIDE DEF c
<1>3. Cursor(c)
  BY <1>0, <1>1, AtTail
<1> QED BY <1>0, <1>1, <1>2, <1>3, ReaderKeeps

\* logread gets through its semop, with no writer inside.
LEMMA ReaderDownKeeps ==
  ASSUME IInv, NEW r \in Readers, ReaderDown(r)
  PROVE  IInv'
<1> DEFINE c == [rd[r] EXCEPT !.pc = "in"]
<1>0. /\ rd \in [Readers -> Reader(total)] /\ rd[r] \in Reader(total)
      /\ Cursor(rd[r]) /\ ~rd[r].bad /\ (r \in Inside <=> rd[r].pc \in {"in", "up"})
  BY ReaderStart
<1>1. c \in Reader(total) /\ c.pc = "in" /\ c.cur = rd[r].cur /\ c.next = rd[r].next /\ c.bad = rd[r].bad
  BY <1>0 DEF Reader
<1>2. rd' = [rd EXCEPT ![r] = c] /\ UNCHANGED <<writer, tail, total, ends, wpc, wlen, msgs>>
      /\ rd[r].pc = "lock" /\ writer = 0 /\ readers' = readers + 1
  BY <1>0 DEF ReaderDown, At
<1> HIDE DEF c
<1>3. Cursor(c)
  BY <1>0, <1>1 DEF Cursor
<1> QED BY <1>0, <1>1, <1>2, <1>3, ReaderKeeps

\* A pass that ends with what it copied.
LEMMA PassKeeps ==
  ASSUME IInv, NEW r \in Readers, rd[r].pc = "in", NEW f \in 0 .. 2,
         NEW got \in Seq(0 .. total), PassEnds(r, f, got, FALSE),
         UNCHANGED <<ring, wpc, wlen, msgs>>
  PROVE  IInv' /\ rd'[r].got = got
<1> DEFINE c == [rd[r] EXCEPT !.pc = "up", !.follow = f, !.cur = tail, !.next = total + 1,
                              !.got = got, !.bad = FALSE]
<1>0. /\ rd \in [Readers -> Reader(total)] /\ rd[r] \in Reader(total)
      /\ total \in Nat /\ tail \in 0 .. Size - 1 /\ tail = total % Size
      /\ (r \in Inside <=> rd[r].pc \in {"in", "up"})
  BY ReaderStart
<1>1. c \in Reader(total) /\ c.pc = "up" /\ c.cur = tail /\ c.next = total + 1 /\ ~c.bad /\ c.got = got
  <2>1. rd[r] \in Reader(total) /\ tail \in 0 .. Size - 1 /\ total + 1 \in Nat
    BY <1>0
  <2>2. c \in Reader(total)
    BY <2>1 DEF Reader
  <2>3. c.pc = "up" /\ c.cur = tail /\ c.next = total + 1 /\ c.got = got
    BY <2>1 DEF Reader
  <2>4. ~c.bad
    BY <2>1 DEF Reader
  <2> QED BY <2>2, <2>3, <2>4
<1>2. rd' = [rd EXCEPT ![r] = c] /\ UNCHANGED <<readers, writer, tail, total, ends, wpc, wlen, msgs>>
  BY <1>0 DEF PassEnds, ring
<1> HIDE DEF c
<1>3. Cursor(c)
  BY <1>0, <1>1, AtTail
<1>4. IInv'
  BY <1>0, <1>1, <1>2, <1>3, ReaderKeeps
<1>5. rd'[r].got = got
  BY <1>0, <1>1, <1>2
<1> QED BY <1>4, <1>5


\* The first pass, from a place of a NUL.
LEMMA FirstPassIs ==
  ASSUME IInv, NEW r \in Readers, FirstPass(r)
  PROVE  \E i \in 0 .. Size - 1 :
           IsNul(i) /\ PassEnds(r, rd[r].follow \div 2, Copied(AfterNul(i)), FALSE)
<1> DEFINE c == rd[r].cur
<1> DEFINE nul == c + Strlen(c)
<1> DEFINE beg == Strnlen(0, tail)
<1>0. /\ rd[r] \in Reader(total) /\ total \in Nat /\ tail \in 0 .. Size - 1 /\ tail = total % Size
      /\ rd[r].pc = "in" /\ (total = 0 \/ total \in ends)
  BY ReaderStart DEF FirstPass, At
<1>1. c \in 0 .. Size - 1 /\ Size \in Nat
  BY <1>0, SizeType DEF Reader
<1>2. \/ nul < Size /\ PassEnds(r, rd[r].follow \div 2, Copied(AfterNul(nul)), FALSE)
      \/ nul >= Size /\ beg # tail /\ PassEnds(r, rd[r].follow \div 2, Copied(AfterNul(beg)), FALSE)
      \/ nul >= Size /\ beg = tail
  <2>1. nul \in c .. Size
    BY <1>1, StrlenIs
  <2>2. nul < Size \/ nul >= Size
    BY <1>1, <2>1
  <2> HIDE DEF nul, beg
  <2> QED BY <2>2 DEF FirstPass, nul, beg
<1>3. nul \in c .. Size /\ IsNul(nul)
  BY <1>1, StrlenIs
<1>4. beg \in 0 .. tail /\ (beg # tail => IsNul(beg))
  BY <1>0, StrnlenIs
<1>5. nul >= Size => beg # tail
  BY <1>0, <1>1, FirstPassFinds
<1> HIDE DEF nul, beg, c
<1>6. CASE nul < Size /\ PassEnds(r, rd[r].follow \div 2, Copied(AfterNul(nul)), FALSE)
  <2>1. nul \in 0 .. Size - 1
    BY <1>1, <1>3, <1>6
  <2> QED BY <1>3, <1>6, <2>1
<1>7. CASE beg # tail /\ PassEnds(r, rd[r].follow \div 2, Copied(AfterNul(beg)), FALSE)
  <2>1. beg \in 0 .. Size - 1
    BY <1>0, <1>1, <1>4
  <2> QED BY <1>4, <1>7, <2>1
<1> QED BY <1>2, <1>5, <1>6, <1>7

\* The place behind a NUL is in the buffer.
LEMMA AfterNulType ==
  ASSUME NEW i \in 0 .. Size - 1
  PROVE  AfterNul(i) \in 0 .. Size - 1
BY SizeType DEF AfterNul

\* follow >>= 1 keeps the option a small number.
LEMMA HalfFollow ==
  ASSUME NEW f \in 0 .. 2
  PROVE  f \div 2 \in 0 .. 2
<1>1. f = 0 \/ f = 1 \/ f = 2
  OBVIOUS
<1> QED BY <1>1

\* The first pass ends with its cursor at the tail.
LEMMA FirstPassKeeps ==
  ASSUME IInv, NEW r \in Readers, FirstPass(r)
  PROVE  IInv'
<1>0. /\ rd[r] \in Reader(total) /\ total \in Nat /\ tail = total % Size
      /\ rd[r].pc = "in" /\ UNCHANGED <<ring, wpc, wlen, msgs>>
  BY ReaderStart DEF FirstPass, At
<1>1. PICK i \in 0 .. Size - 1 :
        IsNul(i) /\ PassEnds(r, rd[r].follow \div 2, Copied(AfterNul(i)), FALSE)
  BY FirstPassIs
<1>2. Copied(AfterNul(i)) \in Seq(0 .. total)
  BY <1>0, AfterNulType, CopiedType
<1>3. rd[r].follow \div 2 \in 0 .. 2
  BY <1>0, HalfFollow DEF Reader
<1> QED BY <1>0, <1>1, <1>2, <1>3, PassKeeps

\* A later pass ends with its cursor at the tail too.
LEMMA FollowPassKeeps ==
  ASSUME IInv, NEW r \in Readers, FollowPass(r)
  PROVE  IInv'
<1>0. /\ rd \in [Readers -> Reader(total)] /\ rd[r] \in Reader(total)
      /\ total \in Nat /\ tail = total % Size /\ Cursor(rd[r]) /\ ~rd[r].bad
      /\ rd[r].pc = "in" /\ UNCHANGED <<ring, wpc, wlen, msgs>>
      /\ (r \in Inside <=> rd[r].pc \in {"in", "up"})
  BY ReaderStart DEF FollowPass, At
<1>1. CASE rd[r].cur = tail
  <2> DEFINE c == [rd[r] EXCEPT !.pc = "up", !.got = <<>>]
  <2>1. rd[r] \in Reader(total) /\ <<>> \in Seq(0 .. total)
    BY <1>0
  <2>2. c \in Reader(total)
    BY <2>1 DEF Reader
  <2>3. c.pc = "up" /\ c.cur = rd[r].cur /\ c.next = rd[r].next
    BY <2>1 DEF Reader
  <2>4. c.bad = rd[r].bad
    BY <2>1 DEF Reader
  <2>5. rd' = [rd EXCEPT ![r] = c] /\ UNCHANGED <<readers, writer, tail, total, ends, wpc, wlen, msgs>>
    BY <1>0, <1>1 DEF FollowPass, ring
  <2> HIDE DEF c
  <2>6. Cursor(c)
    BY <1>0, <2>3 DEF Cursor
  <2> QED BY <1>0, <2>2, <2>3, <2>4, <2>5, <2>6, ReaderKeeps
<1>2. CASE rd[r].cur # tail
  <2>1. rd[r].cur \in 0 .. Size - 1 /\ rd[r].follow \in 0 .. 2
    BY <1>0 DEF Reader
  <2>2. Copied(rd[r].cur) \in Seq(0 .. total)
    BY <1>0, <2>1, CopiedType
  <2>3. PassEnds(r, rd[r].follow, Copied(rd[r].cur), FALSE)
    BY <1>2 DEF FollowPass
  <2> QED BY <1>0, <2>1, <2>2, <2>3, PassKeeps
<1> QED BY <1>1, <1>2

\* A reader that ends, printed out or killed, is not counted any more.
LEMMA EndedKeeps ==
  ASSUME IInv, NEW r \in Readers, rd' = Ended(r),
         readers' = IF rd[r].pc \in {"in", "up"} THEN readers - 1 ELSE readers,
         UNCHANGED <<writer, tail, total, ends, wpc, wlen, msgs>>
  PROVE  IInv'
<1> DEFINE c == [rd[r] EXCEPT !.pc = "done", !.cur = 0, !.next = 1, !.got = <<>>]
<1>0. /\ rd \in [Readers -> Reader(total)] /\ rd[r] \in Reader(total) /\ ~rd[r].bad /\ total \in Nat
      /\ (r \in Inside <=> rd[r].pc \in {"in", "up"})
  BY ReaderStart
<1>1. rd[r] \in Reader(total) /\ <<>> \in Seq(0 .. total) /\ 0 \in 0 .. Size - 1
  BY <1>0, SizeType
<1>2. c \in Reader(total)
  BY <1>1 DEF Reader
<1>3. c.pc = "done" /\ c.cur = 0 /\ c.next = 1
  BY <1>1 DEF Reader
<1>4. c.bad = rd[r].bad
  BY <1>1 DEF Reader
<1>5. rd' = [rd EXCEPT ![r] = c]
  BY <1>0 DEF Ended
<1> HIDE DEF c
<1>6. Cursor(c)
  <2>1. (0 * Size + 0) % Size = 0
    BY SizeType, DivUnique
  <2>2. (1 - 1) % Size = 0
    BY <2>1, SizeType
  <2> QED BY <1>0, <1>3, <2>2 DEF Cursor
<1> QED BY <1>0, <1>2, <1>3, <1>4, <1>5, <1>6, ReaderKeeps

\* logread leaves the lock, and ends or goes on following.
LEMMA ReaderUpKeeps ==
  ASSUME IInv, NEW r \in Readers, ReaderUp(r)
  PROVE  IInv'
<1>0. /\ rd \in [Readers -> Reader(total)] /\ rd[r] \in Reader(total)
      /\ total \in Nat /\ tail = total % Size /\ Cursor(rd[r]) /\ ~rd[r].bad
      /\ rd[r].pc = "up" /\ UNCHANGED <<writer, tail, total, ends, wpc, wlen, msgs>>
      /\ (r \in Inside <=> rd[r].pc \in {"in", "up"}) /\ readers' = readers - 1
  BY ReaderStart DEF ReaderUp, At
<1>1. CASE rd[r].follow = 0
  <2>1. rd' = Ended(r)
    BY <1>1 DEF ReaderUp
  <2> QED BY <1>0, <2>1, EndedKeeps
<1>2. CASE rd[r].follow # 0
  <2> DEFINE c == [rd[r] EXCEPT !.pc = "lock", !.got = <<>>]
  <2>1. rd[r] \in Reader(total) /\ <<>> \in Seq(0 .. total)
    BY <1>0
  <2>2. c \in Reader(total)
    BY <2>1 DEF Reader
  <2>3. c.pc = "lock" /\ c.cur = rd[r].cur /\ c.next = rd[r].next
    BY <2>1 DEF Reader
  <2>4. c.bad = rd[r].bad
    BY <2>1 DEF Reader
  <2>5. rd' = [rd EXCEPT ![r] = c]
    BY <1>0, <1>2 DEF ReaderUp
  <2> HIDE DEF c
  <2>6. Cursor(c)
    BY <1>0, <2>3 DEF Cursor
  <2> QED BY <1>0, <2>2, <2>3, <2>4, <2>5, <2>6, ReaderKeeps
<1> QED BY <1>1, <1>2

\* The kernel's SEM_UNDO gives a killed logread's count back.
LEMMA KillLogreadKeeps ==
  ASSUME IInv, NEW r \in Readers, KillLogread(r)
  PROVE  IInv'
BY EndedKeeps DEF KillLogread

-----------------------------------------------------------------------------
(* Steps of syslogd                                                        *)

\* The readers do not move, and the stream only gets longer.
LEMMA WriterKeeps ==
  ASSUME IInv, UNCHANGED <<readers, rd>>, total' \in Nat, total <= total',
         tail' \in 0 .. Size - 1, tail' = total' % Size, ends' \subseteq 1 .. total',
         writer' \in {0, 1}, wpc' \in {"idle", "wait", "in", "up", "dead"}, wlen' \in 0 .. Size,
         msgs' \in 0 .. MaxMsgs, StreamWhole',
         writer' = 1 => Inside = {}, wpc' \in {"in", "up"} => writer' = 1,
         wpc' \in {"idle", "wait"} => writer' = 0
  PROVE  IInv'
<1>0. /\ TypeOK /\ Locks /\ \A q \in Readers : Cursor(rd[q]) /\ ~rd[q].bad
      /\ rd \in [Readers -> Reader(total)] /\ total \in Nat
  BY TypeParts DEF IInv
<1>1. \A q \in Readers : rd[q] \in Reader(total')
  <2> SUFFICES ASSUME NEW q \in Readers PROVE rd[q] \in Reader(total')  OBVIOUS
  <2>1. rd[q] \in Reader(total)
    BY <1>0
  <2>2. 0 .. total \subseteq 0 .. total'
    BY <1>0
  <2>3. rd[q].got \in Seq(0 .. total)
    BY <2>1 DEF Reader
  <2>4. rd[q].got \in Seq(0 .. total')
    BY <2>2, <2>3, SeqMonotonic
  <2> QED BY <2>1, <2>4 DEF Reader
<1>2. rd' \in [Readers -> Reader(total')]
  BY <1>0, <1>1
<1>3. TypeOK'
  BY <1>0, <1>2 DEF TypeOK, Reader
<1>4. Inside' = Inside
  BY DEF Inside
<1>5. Locks'
  BY <1>0, <1>4 DEF Locks
<1>6. \A q \in Readers : Cursor(rd[q])' /\ ~rd'[q].bad
  <2> SUFFICES ASSUME NEW q \in Readers PROVE Cursor(rd[q])' /\ ~rd'[q].bad  OBVIOUS
  <2>1. Cursor(rd[q]) /\ ~rd[q].bad /\ rd[q].next \in Nat /\ rd' = rd
    BY <1>0 DEF Reader
  <2> QED BY <1>0, <2>1 DEF Cursor
<1> QED BY <1>3, <1>5, <1>6 DEF IInv, TailIsOldest

\* syslogd gets a message to store.
LEMMA LogKeeps ==
  ASSUME IInv, NEW len \in Lens, Log(len)
  PROVE  IInv'
<1>0. /\ TypeOK /\ Locks /\ StreamWhole /\ TailIsOldest
  BY DEF IInv
<1>1. /\ UNCHANGED <<readers, rd, writer, tail, total, ends>> /\ wpc = "idle" /\ wpc' = "wait"
      /\ wlen' = len /\ msgs < MaxMsgs /\ msgs' = msgs + 1
  BY DEF Log, ring
<1>2. len \in Nat /\ 2 <= len /\ len <= Size /\ Size \in Nat /\ MaxMsgs \in Nat
  BY SyslogAssumption
<1>3. /\ total \in Nat /\ tail \in 0 .. Size - 1 /\ ends \subseteq 1 .. total
      /\ msgs \in 0 .. MaxMsgs
  BY <1>0 DEF TypeOK
<1>4. writer = 0 /\ tail = total % Size
  BY <1>0, <1>1 DEF Locks, TailIsOldest
<1>5. StreamWhole'
  BY <1>0, <1>1, <1>2, <1>3, <1>4 DEF StreamWhole
<1>6. msgs' \in 0 .. MaxMsgs /\ wlen' \in 0 .. Size /\ total <= total' /\ total' \in Nat
  BY <1>1, <1>2, <1>3
<1> QED BY <1>1, <1>3, <1>4, <1>5, <1>6, WriterKeeps

\* syslogd gets through its semop, with no reader inside.
LEMMA WriterDownKeeps ==
  ASSUME IInv, WriterDown
  PROVE  IInv'
<1>0. /\ TypeOK /\ Locks /\ StreamWhole /\ TailIsOldest
  BY DEF IInv
<1>1. /\ UNCHANGED <<readers, rd, tail, total, ends, wlen, msgs>> /\ wpc = "wait" /\ wpc' = "in"
      /\ readers = 0 /\ writer' = 1
  BY DEF WriterDown
<1>2. /\ total \in Nat /\ tail \in 0 .. Size - 1 /\ ends \subseteq 1 .. total
      /\ msgs \in 0 .. MaxMsgs /\ wlen \in 0 .. Size
  BY <1>0 DEF TypeOK
<1>3. Inside = {}
  <2>1. Inside \in SUBSET Readers
    BY DEF Inside
  <2>2. IsFiniteSet(Inside)
    BY <2>1, SyslogAssumption, FS_Subset
  <2> QED BY <1>0, <1>1, <2>2, FS_EmptySet DEF Locks
<1>4. StreamWhole'
  BY <1>0, <1>1 DEF StreamWhole
<1>5. tail = total % Size /\ total <= total
  BY <1>0, <1>2 DEF TailIsOldest
<1> QED BY <1>1, <1>2, <1>3, <1>4, <1>5, WriterKeeps

\* syslogd leaves the lock.
LEMMA WriterUpKeeps ==
  ASSUME IInv, WriterUp
  PROVE  IInv'
<1>0. /\ TypeOK /\ Locks /\ StreamWhole /\ TailIsOldest
  BY DEF IInv
<1>1. /\ UNCHANGED <<readers, rd, tail, total, ends, wlen, msgs>> /\ wpc = "up" /\ wpc' = "idle"
      /\ writer' = 0
  BY DEF WriterUp
<1>2. /\ total \in Nat /\ tail \in 0 .. Size - 1 /\ ends \subseteq 1 .. total
      /\ msgs \in 0 .. MaxMsgs /\ wlen \in 0 .. Size
  BY <1>0 DEF TypeOK
<1>4. StreamWhole'
  BY <1>0, <1>1 DEF StreamWhole
<1>5. tail = total % Size /\ total <= total
  BY <1>0, <1>2 DEF TailIsOldest
<1> QED BY <1>1, <1>2, <1>4, <1>5, WriterKeeps

\* A killed syslogd keeps the lock it has: there is no SEM_UNDO for it.
LEMMA KillSyslogdKeeps ==
  ASSUME IInv, KillSyslogd
  PROVE  IInv'
<1>0. /\ TypeOK /\ Locks /\ StreamWhole /\ TailIsOldest
  BY DEF IInv
<1>1. UNCHANGED <<readers, writer, rd, tail, total, ends, wlen, msgs>> /\ wpc' = "dead"
  BY DEF KillSyslogd, ring
<1>2. /\ total \in Nat /\ tail \in 0 .. Size - 1 /\ ends \subseteq 1 .. total
      /\ msgs \in 0 .. MaxMsgs /\ wlen \in 0 .. Size /\ writer \in {0, 1}
  BY <1>0 DEF TypeOK
<1>3. writer = 1 => Inside = {}
  BY <1>0 DEF Locks
<1>4. StreamWhole'
  BY <1>0, <1>1 DEF StreamWhole
<1>5. tail = total % Size /\ total <= total
  BY <1>0, <1>2 DEF TailIsOldest
<1> QED BY <1>1, <1>2, <1>3, <1>4, <1>5, WriterKeeps

\* A message that fits before the end of the buffer, or the part of it that does:
\* the tail stays where the stream goes on.
LEMMA StoreKeeps ==
  ASSUME IInv, Store
  PROVE  IInv'
<1>0. /\ TypeOK /\ Locks /\ StreamWhole /\ TailIsOldest
  BY DEF IInv
<1>1. UNCHANGED <<readers, writer, rd, msgs>> /\ wpc = "in"
  BY DEF Store
<1>2. /\ total \in Nat /\ tail \in 0 .. Size - 1 /\ ends \subseteq 1 .. total
      /\ msgs \in 0 .. MaxMsgs /\ wlen \in 0 .. Size /\ Size \in Int /\ Size > 0
  BY <1>0, SizeType DEF TypeOK
<1>3. writer = 1 /\ Inside = {} /\ wlen + total > 0 /\ tail = total % Size
  BY <1>0, <1>1 DEF Locks, StreamWhole, TailIsOldest
<1>4. PICK Q \in Int : total = Q * Size + tail
  BY <1>2, <1>3, TotalLaps
<1>5. Q * Size \in Int
  BY <1>2
<1>6. CASE tail + wlen < Size
  <2>1. /\ tail' = tail + wlen /\ total' = total + wlen /\ ends' = ends \cup {total + wlen}
        /\ wlen' = 0 /\ wpc' = "up"
    BY <1>6 DEF Store
  <2>2. tail + wlen \in 0 .. Size - 1 /\ total + wlen = Q * Size + (tail + wlen)
    BY <1>2, <1>4, <1>5, <1>6
  <2>3. (Q * Size + (tail + wlen)) % Size = tail + wlen
    BY <1>2, <2>2, DivUnique
  <2>4. tail' = total' % Size /\ tail' \in 0 .. Size - 1
    BY <2>1, <2>2, <2>3
  <2>5. total' \in Nat /\ total <= total' /\ 1 <= total' /\ wlen' \in 0 .. Size
    BY <1>2, <1>3, <2>1
  <2>6. ends' \subseteq 1 .. total' /\ total' \in ends'
    BY <1>2, <2>1, <2>5
  <2>7. StreamWhole'
    BY <1>1, <1>3, <2>1, <2>6 DEF StreamWhole
  <2> QED BY <1>1, <1>2, <1>3, <2>1, <2>4, <2>5, <2>6, <2>7, WriterKeeps
<1>7. CASE ~(tail + wlen < Size)
  <2>1. /\ tail' = 0 /\ total' = total + (Size - tail) /\ wlen' = wlen - (Size - tail)
        /\ UNCHANGED <<ends, wpc>>
    BY <1>7 DEF Store
  <2>2. (Q + 1) * Size = Q * Size + 1 * Size /\ Q + 1 \in Int
    BY <1>2, <1>4, MulDistributes
  <2>3. total + (Size - tail) = (Q + 1) * Size + 0
    BY <1>2, <1>4, <1>5, <2>2
  <2>4. ((Q + 1) * Size + 0) % Size = 0
    BY <1>2, <2>2, DivUnique
  <2>5. tail' = total' % Size /\ tail' \in 0 .. Size - 1
    BY <1>2, <2>1, <2>3, <2>4
  <2>6. total' \in Nat /\ total <= total' /\ 1 <= total' /\ wlen' \in 0 .. Size
    BY <1>2, <1>7, <2>1
  <2>7. ends' \subseteq 1 .. total'
    BY <1>2, <2>1, <2>6
  <2>8. StreamWhole'
    BY <1>1, <1>3, <2>1, <2>6 DEF StreamWhole
  <2> QED BY <1>1, <1>2, <1>3, <2>1, <2>5, <2>6, <2>7, <2>8, WriterKeeps
<1> QED BY <1>6, <1>7

-----------------------------------------------------------------------------
(* The theorems                                                            *)

\* syslogd has just made the buffer and the semaphores.
LEMMA InitIInv == Init => IInv
<1> SUFFICES ASSUME Init PROVE IInv  OBVIOUS
<1>0. /\ readers = 0 /\ writer = 0 /\ tail = 0 /\ total = 0 /\ ends = {}
      /\ wpc = "idle" /\ wlen = 0 /\ msgs = 0
      /\ rd \in [Readers -> [pc : {"open"}, follow : 0 .. 2, cur : {0}, next : {1},
                             got : {<<>>}, bad : {FALSE}]]
  BY DEF Init
<1>1. Size \in Nat /\ Size > 0 /\ MaxMsgs \in Nat /\ IsFiniteSet(Readers)
  BY SyslogAssumption
<1>2. (1 - 1) % Size = 0 /\ 0 % Size = 0
  <2>1. (0 * Size + 0) % Size = 0
    BY SizeType, DivUnique
  <2> QED BY <2>1, <1>1
<1>3. Inside = {}
  BY <1>0 DEF Inside
<1>4. Cardinality(Inside) = 0 /\ Cardinality(Readers) \in Nat
  BY <1>1, <1>3, FS_EmptySet, FS_CardinalityType
<1>5. \A r \in Readers : rd[r] \in Reader(0) /\ Cursor(rd[r]) /\ ~rd[r].bad
  <2> SUFFICES ASSUME NEW r \in Readers PROVE rd[r] \in Reader(0) /\ Cursor(rd[r]) /\ ~rd[r].bad
    OBVIOUS
  <2>1. rd[r] \in [pc : {"open"}, follow : 0 .. 2, cur : {0}, next : {1}, got : {<<>>}, bad : {FALSE}]
    BY <1>0
  <2>2. <<>> \in Seq(0 .. 0) /\ 0 \in 0 .. Size - 1
    BY <1>1
  <2>3. rd[r] \in Reader(0)
    <3>1. PICK f \in 0 .. 2 :
            rd[r] = [pc |-> "open", follow |-> f, cur |-> 0, next |-> 1, got |-> <<>>, bad |-> FALSE]
      BY <2>1
    <3> DEFINE c == [pc |-> "open", follow |-> f, cur |-> 0, next |-> 1, got |-> <<>>, bad |-> FALSE]
    <3>2. c \in Reader(0)
      BY <2>2 DEF Reader
    <3> QED BY <3>1, <3>2
  <2>4. rd[r].cur = 0 /\ rd[r].next = 1 /\ ~rd[r].bad
    BY <2>1
  <2>5. Cursor(rd[r])
    BY <1>0, <1>2, <2>4 DEF Cursor
  <2> QED BY <2>3, <2>4, <2>5
<1>6. rd \in [Readers -> Reader(total)]
  BY <1>0, <1>5
<1>7. TypeOK
  <2>1. /\ readers \in 0 .. Cardinality(Readers) /\ writer \in {0, 1}
        /\ tail \in 0 .. Size - 1 /\ total \in Nat /\ ends \subseteq 1 .. total
        /\ wlen \in 0 .. Size /\ msgs \in 0 .. MaxMsgs
    BY <1>0, <1>1, <1>4
  <2> QED BY <1>0, <1>6, <2>1, TypeParts
<1>8. Locks /\ StreamWhole /\ TailIsOldest
  BY <1>0, <1>2, <1>3, <1>4 DEF Locks, StreamWhole, TailIsOldest
<1> QED BY <1>5, <1>7, <1>8 DEF IInv

\* A step that changes nothing keeps IInv.
LEMMA StutterKeeps == IInv /\ UNCHANGED vars => IInv'
BY DEF IInv, vars, ring, TypeOK, Locks, Inside, TailIsOldest, StreamWhole, Cursor

\* Every step keeps IInv.
LEMMA NextIInv == IInv /\ [Next]_vars => IInv'
<1> SUFFICES ASSUME IInv, [Next]_vars PROVE IInv'  OBVIOUS
<1>1. ASSUME NEW len \in Lens, Log(len) PROVE IInv'
  BY <1>1, LogKeeps
<1>2. CASE WriterDown
  BY <1>2, WriterDownKeeps
<1>3. CASE Store
  BY <1>3, StoreKeeps
<1>4. CASE WriterUp
  BY <1>4, WriterUpKeeps
<1>5. CASE KillSyslogd
  BY <1>5, KillSyslogdKeeps
<1>6. ASSUME NEW r \in Readers, Open(r) PROVE IInv'
  BY <1>6, OpenKeeps
<1>7. ASSUME NEW r \in Readers, FirstPass(r) PROVE IInv'
  BY <1>7, FirstPassKeeps
<1>8. ASSUME NEW r \in Readers, FollowPass(r) PROVE IInv'
  BY <1>8, FollowPassKeeps
<1>9. ASSUME NEW r \in Readers, ReaderUp(r) PROVE IInv'
  BY <1>9, ReaderUpKeeps
<1>10. ASSUME NEW r \in Readers, ReaderDown(r) PROVE IInv'
  BY <1>10, ReaderDownKeeps
<1>11. ASSUME NEW r \in Readers, KillLogread(r) PROVE IInv'
  BY <1>11, KillLogreadKeeps
<1>12. CASE UNCHANGED vars
  BY <1>12, StutterKeeps
<1> QED BY <1>1, <1>2, <1>3, <1>4, <1>5, <1>6, <1>7, <1>8, <1>9, <1>10, <1>11, <1>12 DEF Next, Step

\* The locks, the tail, the stream and every reader's place are as syslogd and
\* logread need them at every step (log_to_shmem, logread_main).
THEOREM Inductive == Spec => []IInv
BY InitIInv, NextIInv, PTL DEF Spec

\* Readers and the writer of the shared buffer exclude each other, the tail is
\* the oldest byte, and logread never prints from what it did not set
\* (log_to_shmem, logread_main; SMwdn, SMrdn).
THEOREM SyslogCorrect == Spec => []SyslogInv
<1>1. IInv => SyslogInv
  <2>1. Locks => Exclusion
    BY DEF Locks, Exclusion
  <2> QED BY <2>1 DEF IInv, SyslogInv, NothingUninitialised
<1> QED BY <1>1, Inductive, PTL

-----------------------------------------------------------------------------
(* What a pass prints                                                      *)

\* Only a pass takes a reader from inside the lock to its way out of it.
LEMMA PassIs ==
  ASSUME IInv, [Next]_vars, NEW r \in Readers, rd[r].pc = "in", rd'[r].pc = "up"
  PROVE  FirstPass(r) \/ FollowPass(r)
<1>0. rd \in [Readers -> Reader(total)]
  BY ReaderStart
<1>1. ASSUME rd' = rd PROVE FALSE
  BY <1>1
<1>2. ASSUME NEW q \in Readers, q # r, Step(q) \/ ReaderDown(q) \/ KillLogread(q) PROVE FALSE
  <2> SUFFICES rd'[r] = rd[r]
    OBVIOUS
  <2>1. CASE Open(q)
    BY <1>0, <1>2, <2>1 DEF Open
  <2>2. CASE FirstPass(q)
    <3>1. PICK i \in 0 .. Size - 1 :
            PassEnds(q, rd[q].follow \div 2, Copied(AfterNul(i)), FALSE)
      BY <2>2, FirstPassIs
    <3> QED BY <1>0, <1>2, <3>1 DEF PassEnds
  <2>3. CASE FollowPass(q)
    BY <1>0, <1>2, <2>3 DEF FollowPass, PassEnds
  <2>4. CASE ReaderUp(q)
    BY <1>0, <1>2, <2>4 DEF ReaderUp, Ended
  <2>5. CASE ReaderDown(q)
    BY <1>0, <1>2, <2>5 DEF ReaderDown
  <2>6. CASE KillLogread(q)
    BY <1>0, <1>2, <2>6 DEF KillLogread, Ended
  <2> QED BY <1>2, <2>1, <2>2, <2>3, <2>4, <2>5, <2>6 DEF Step
<1>3. ASSUME Open(r) \/ ReaderDown(r) \/ ReaderUp(r) PROVE FALSE
  BY <1>3 DEF Open, ReaderDown, ReaderUp, At
<1>4. ASSUME KillLogread(r) PROVE FALSE
  <2>1. rd' = Ended(r)
    BY <1>4 DEF KillLogread
  <2>2. rd'[r] = [rd[r] EXCEPT !.pc = "done", !.cur = 0, !.next = 1, !.got = <<>>]
    BY <1>0, <2>1 DEF Ended
  <2>3. rd[r] \in Reader(total)
    BY <1>0
  <2>4. rd'[r].pc = "done"
    BY <2>2, <2>3 DEF Reader
  <2> QED BY <2>4
<1>5. ASSUME (\E len \in Lens : Log(len)) \/ WriterDown \/ Store \/ WriterUp \/ KillSyslogd
      PROVE  rd' = rd
  BY <1>5 DEF Log, WriterDown, Store, WriterUp, KillSyslogd
<1>6. CASE UNCHANGED vars
  BY <1>1, <1>6 DEF vars
<1>7. CASE Next
  BY <1>1, <1>2, <1>3, <1>4, <1>5, <1>7 DEF Next, Step
<1> QED BY <1>6, <1>7

\* What is copied from the place after a NUL is whole messages.
LEMMA CopiedWhole ==
  ASSUME total \in Nat, tail = total % Size, ends \subseteq 1 .. total,
         NEW i \in 0 .. Size - 1, IsNul(i), NEW got, got = Copied(AfterNul(i))
  PROVE  WholeMessages(got)
<1> DEFINE c == AfterNul(i)
<1> DEFINE n == Behind(c)
<1>0. Size \in Nat /\ Size \in Int /\ Size > 0 /\ c \in 0 .. Size - 1 /\ i \in Int
  BY SizeType, AfterNulType
<1>1. /\ got \in Seq(0 .. total) /\ Len(got) = n /\ n \in 0 .. Size - 1
      /\ \A k \in 1 .. n : got[k] = IF total - n + k >= 1 THEN total - n + k ELSE 0
  BY <1>0, CopiedType
<1>2. tail \in 0 .. Size - 1
  BY <1>0, TotalLaps
<1>3. n = IF tail >= c THEN tail - c ELSE tail - c + Size
  BY DEF Behind
<1>4. n >= 1 /\ total - n >= 1 => (total - n - 1) % Size = i
  <2> SUFFICES ASSUME n >= 1, total - n >= 1 PROVE (total - n - 1) % Size = i  OBVIOUS
  <2>1. PICK Q \in Int : total = Q * Size + tail
    BY TotalLaps
  <2>2. (Q - 1) * Size = Q * Size - Size /\ Q - 1 \in Int /\ Q * Size \in Int
    BY <1>0, <2>1, MulDistributes
  <2>3. c = IF i + 1 >= Size THEN 0 ELSE i + 1
    BY DEF AfterNul
  <2> HIDE DEF c, n
  <2>4. \/ total - n - 1 = Q * Size + i
        \/ total - n - 1 = (Q - 1) * Size + i
    BY <1>0, <1>2, <1>3, <2>1, <2>2, <2>3
  <2>5. (Q * Size + i) % Size = i /\ ((Q - 1) * Size + i) % Size = i
    BY <1>0, <2>1, <2>2, DivUnique
  <2> QED BY <2>4, <2>5
<1> HIDE DEF c, n
<1>5. n >= 1 /\ total - n >= 1 => total - n \in ends
  <2> SUFFICES ASSUME n >= 1, total - n >= 1 PROVE total - n \in ends  OBVIOUS
  <2>1. total - n \in Nat /\ total - n <= total /\ total - (total - n) < Size
    BY <1>0, <1>1
  <2>2. ByteAt(i) = total - n
    BY <1>4, <2>1, ByteOfPlace
  <2> QED BY <1>0, <2>2 DEF IsNul
<1>6. ASSUME NEW k \in 1 .. Len(got), got[k] # 0
      PROVE  /\ k = 1 \/ got[k - 1] = 0 => got[k] - 1 \in ends \cup {0}
             /\ IF k = Len(got) THEN got[k] = total ELSE got[k + 1] = got[k] + 1
  <2>1. k \in 1 .. n /\ k \in Int /\ n \in Int /\ 1 <= k /\ k <= n
    BY <1>1
  <2>2. got[k] = total - n + k /\ total - n + k >= 1
    BY <1>1, <1>6, <2>1
  <2>3. k = 1 => got[k] - 1 \in ends \cup {0}
    <3> SUFFICES ASSUME k = 1 PROVE got[k] - 1 \in ends \cup {0}  OBVIOUS
    <3>1. got[k] - 1 = total - n /\ total - n >= 0
      BY <2>1, <2>2
    <3>2. total - n >= 1 \/ total - n = 0
      BY <2>1, <3>1
    <3> QED BY <1>5, <2>1, <3>1, <3>2
  <2>4. k # 1 /\ got[k - 1] = 0 => got[k] - 1 \in ends \cup {0}
    <3> SUFFICES ASSUME k # 1, got[k - 1] = 0 PROVE got[k] - 1 \in ends \cup {0}  OBVIOUS
    <3>1. k - 1 \in 1 .. n
      BY <2>1
    <3>2. got[k - 1] = IF total - n + (k - 1) >= 1 THEN total - n + (k - 1) ELSE 0
      BY <1>1, <3>1
    <3>3. total - n + (k - 1) < 1
      BY <2>1, <3>2
    <3>4. got[k] - 1 = 0
      BY <2>1, <2>2, <3>3
    <3> QED BY <3>4
  <2>5. k = Len(got) => got[k] = total
    BY <1>1, <2>1, <2>2
  <2>6. k # Len(got) => got[k + 1] = got[k] + 1
    <3> SUFFICES ASSUME k # Len(got) PROVE got[k + 1] = got[k] + 1  OBVIOUS
    <3>1. k + 1 \in 1 .. n
      BY <1>1, <2>1
    <3>2. got[k + 1] = IF total - n + (k + 1) >= 1 THEN total - n + (k + 1) ELSE 0
      BY <1>1, <3>1
    <3> QED BY <2>1, <2>2, <3>2
  <2> QED BY <2>3, <2>4, <2>5, <2>6
<1> QED BY <1>6 DEF WholeMessages

\* What a first pass copies is whole messages, up to the newest.
LEMMA FirstPassStep ==
  ASSUME IInv, [Next]_vars, NEW r \in Readers,
         rd[r].follow % 2 = 0, rd[r].pc = "in", rd'[r].pc = "up"
  PROVE  WholeMessages(rd'[r].got)
<1>0. FollowPass(r) => rd[r].follow % 2 = 1
  BY DEF FollowPass
<1>1. FirstPass(r)
  BY <1>0, PassIs
<1>2. PICK i \in 0 .. Size - 1 :
        IsNul(i) /\ PassEnds(r, rd[r].follow \div 2, Copied(AfterNul(i)), FALSE)
  BY <1>1, FirstPassIs
<1>3. total \in Nat /\ tail = total % Size /\ ends \subseteq 1 .. total /\ rd[r] \in Reader(total)
  BY ReaderStart DEF IInv, TypeOK
<1>4. Copied(AfterNul(i)) \in Seq(0 .. total)
  BY <1>3, AfterNulType, CopiedType
<1>5. rd[r].follow \div 2 \in 0 .. 2 /\ UNCHANGED <<ring, wpc, wlen, msgs>>
  BY <1>1, <1>3, HalfFollow DEF Reader, FirstPass
<1>6. rd'[r].got = Copied(AfterNul(i))
  BY <1>2, <1>4, <1>5, PassKeeps
<1> QED BY <1>2, <1>3, <1>6, CopiedWhole

\* What the first pass of logread prints starts at the start of a message and is
\* the end of the stream (logread_main, `advance to oldest complete message').
THEOREM FirstPassPrintsMessages == Spec => FirstPassWhole
<1>1. IInv /\ [Next]_vars =>
        [\A r \in Readers :
           rd[r].follow % 2 = 0 /\ rd[r].pc = "in" /\ rd'[r].pc = "up"
           => WholeMessages(rd'[r].got)]_vars
  BY FirstPassStep
<1> QED BY <1>1, Inductive, PTL DEF Spec, FirstPassWhole

\* A reader less than a buffer behind: its place and the tail tell how far.
LEMMA BytesBehind ==
  ASSUME total \in Nat, tail = total % Size, NEW x \in Nat, 1 <= x, x <= total + 1,
         total + 1 - x < Size, NEW c, c = (x - 1) % Size
  PROVE  total + 1 - x = Behind(c)
<1>0. Size \in Int /\ Size > 0 /\ x - 1 \in Int /\ total \in Int /\ x \in Int
  BY SizeType
<1>1. PICK Q \in Int : tail \in 0 .. Size - 1 /\ total = Q * Size + tail
  BY TotalLaps
<1> DEFINE P == (x - 1) \div Size
<1>2. P \in Int /\ c \in 0 .. Size - 1 /\ x - 1 = P * Size + c
  BY <1>0, DivMod
<1> HIDE DEF P
<1> DEFINE A == P * Size
<1> DEFINE B == Q * Size
<1>3. A \in Int /\ B \in Int /\ x - 1 = A + c /\ total = B + tail
  BY <1>0, <1>1, <1>2
<1>4. Q < P => B + Size <= A
  BY <1>0, <1>1, <1>2, MulLess
<1>5. P + 1 < Q => A + Size + Size <= B
  <2>1. (P + 1) * Size = P * Size + 1 * Size
    BY <1>0, <1>2, MulDistributes
  <2>2. P + 1 < Q => (P + 1) * Size + Size <= Q * Size
    BY <1>0, <1>1, <1>2, MulLess
  <2> QED BY <1>0, <2>1, <2>2
<1>6. Q = P + 1 => B = A + Size
  <2>1. (P + 1) * Size = P * Size + 1 * Size
    BY <1>0, <1>2, MulDistributes
  <2> QED BY <1>0, <2>1
<1>7. Q = P => B = A
  OBVIOUS
<1> HIDE DEF A, B
<1>8. Q = P \/ Q = P + 1
  BY <1>0, <1>1, <1>2, <1>3, <1>4, <1>5
<1> QED BY <1>0, <1>1, <1>2, <1>3, <1>6, <1>7, <1>8 DEF Behind

\* What a later pass copies is every byte from its cursor on, in order.
LEMMA FollowPassStep ==
  ASSUME IInv, [Next]_vars, NEW r \in Readers,
         rd[r].follow % 2 = 1, rd[r].pc = "in", rd'[r].pc = "up",
         total + 1 - rd[r].next < Size
  PROVE  rd'[r].got = [k \in 1 .. total + 1 - rd[r].next |-> rd[r].next + k - 1]
<1> DEFINE c == rd[r].cur
<1> DEFINE x == rd[r].next
<1> DEFINE n == Behind(c)
<1>0. FirstPass(r) => rd[r].follow % 2 = 0
  BY DEF FirstPass
<1>1. FollowPass(r)
  BY <1>0, PassIs
<1>2. /\ rd \in [Readers -> Reader(total)] /\ rd[r] \in Reader(total)
      /\ total \in Nat /\ tail = total % Size /\ Cursor(rd[r])
  BY ReaderStart
<1>3. x \in Nat /\ c \in 0 .. Size - 1 /\ 1 <= x /\ x <= total + 1 /\ c = (x - 1) % Size
      /\ Size \in Int /\ Size > 0 /\ total \in Int /\ rd[r].follow \in 0 .. 2
  BY <1>2, SizeType DEF Reader, Cursor
<1> HIDE DEF c, x
<1>4. tail \in 0 .. Size - 1
  BY <1>2, TotalLaps
<1>5. total + 1 - x < Size
  BY DEF x
<1>6. total + 1 - x = n
  BY <1>2, <1>3, <1>5, BytesBehind
<1>7. n \in 0 .. Size - 1 /\ Copied(c) =
        [k \in 1 .. n |-> IF total - n + k >= 1 THEN total - n + k ELSE 0]
  BY <1>2, <1>3, CopiedIs
<1>7a. n = 0 <=> c = tail
  BY <1>3, <1>4 DEF Behind
<1> HIDE DEF n
<1>8. [k \in 1 .. n |-> IF total - n + k >= 1 THEN total - n + k ELSE 0]
        = [k \in 1 .. n |-> x + k - 1]
  <2>1. \A k \in 1 .. n : (IF total - n + k >= 1 THEN total - n + k ELSE 0) = x + k - 1
    BY <1>3, <1>6, <1>7
  <2> QED BY <2>1
<1>9. rd'[r].got = Copied(c)
  <2>1. CASE c = tail
    <3>1. rd' = [rd EXCEPT ![r].pc = "up", ![r].got = <<>>]
      BY <1>1, <2>1 DEF FollowPass, c
    <3>2. rd'[r].got = <<>>
      BY <1>2, <3>1 DEF Reader
    <3>3. Copied(c) \in Seq(0 .. total) /\ Len(Copied(c)) = n
      BY <1>2, <1>3, CopiedType DEF n
    <3>4. Copied(c) = <<>>
      BY <1>7a, <2>1, <3>3, EmptySeq
    <3> QED BY <3>2, <3>4
  <2>2. CASE c # tail
    <3>1. PassEnds(r, rd[r].follow, Copied(c), FALSE) /\ UNCHANGED <<ring, wpc, wlen, msgs>>
      BY <1>1, <2>2 DEF FollowPass, c
    <3>2. Copied(c) \in Seq(0 .. total)
      BY <1>2, <1>3, CopiedType
    <3> QED BY <1>3, <3>1, <3>2, PassKeeps
  <2> QED BY <2>1, <2>2
<1> QED BY <1>6, <1>7, <1>8, <1>9 DEF x

\* A follower less than a buffer behind prints exactly what was logged since its
\* last pass, once (logread_main, `Read from cur to tail').
THEOREM FollowerPrintsOnce == Spec => FollowerExact
<1>1. IInv /\ [Next]_vars =>
        [\A r \in Readers :
           rd[r].follow % 2 = 1 /\ rd[r].pc = "in" /\ rd'[r].pc = "up"
             /\ total + 1 - rd[r].next < Size
           => rd'[r].got = [k \in 1 .. total + 1 - rd[r].next |-> rd[r].next + k - 1]]_vars
  BY FollowPassStep
<1> QED BY <1>1, Inductive, PTL DEF Spec, FollowerExact

=============================================================================
