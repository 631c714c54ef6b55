-------------------------------- MODULE Syslog --------------------------------
(***************************************************************************)
(* The circular log buffer that syslogd -C writes (sysklogd/syslogd.c) and *)
(* logread reads (sysklogd/logread.c), in shared memory under a pair of    *)
(* System V semaphores: one counts the readers inside, the other the       *)
(* writer.                                                                 *)
(*                                                                         *)
(* What was logged is one long stream of bytes, of which byte k lands at   *)
(* place (k - 1) % Size.  The buffer is modelled by how much of the stream *)
(* is in it: ByteAt gives the byte at a place, or 0 for a NUL that         *)
(* memset left there.                                                      *)
(***************************************************************************)
EXTENDS Integers, Sequences, FiniteSets, FiniteSetsExt

CONSTANTS
  Size,          \* shbuf->size
  Lens,          \* lengths of messages, with their NUL
  Readers,       \* the logread processes
  MaxFollowers,  \* bound: how many of them follow
  MaxMsgs        \* bound: messages that are logged

ASSUME SyslogAssumption ==
  /\ Size \in Nat \ {0} /\ Lens \subseteq 2 .. Size - 1 /\ IsFiniteSet(Readers)
  /\ MaxFollowers \in Nat /\ MaxMsgs \in Nat

VARIABLES
  readers,  \* semaphore 0
  writer,   \* semaphore 1
  tail,     \* shbuf->tail
  total,    \* bytes of the stream in the buffer or overwritten
  ends,     \* which of them are the NUL of a message
  wpc,      \* syslogd: "idle", "wait", "in", "up", "dead"
  wlen,     \* bytes of its message left to store
  rd,       \* per logread: pc, follow, cur, and for the properties
            \* next: the byte of the stream that cur stood for when it was set
            \* got: the bytes of the stream copied in the last pass
            \* bad: the pass used len_total and copy without setting them
  msgs      \* messages logged so far

ring == <<readers, writer, tail, total, ends>>
vars == <<ring, wpc, wlen, rd, msgs>>

-----------------------------------------------------------------------------
ByteAt(i) == LET lap == (total - 1 - i) \div Size IN IF i >= total THEN 0 ELSE i + 1 + lap * Size

\* A NUL at place i: the last byte of the buffer, never written, or of a message.
IsNul(i) == i = Size \/ ByteAt(i) = 0 \/ ByteAt(i) \in ends

Strlen(i)        == Min({k \in i .. Size : IsNul(k)}) - i
Strnlen(i, most) == Min({k \in i .. Size : IsNul(k)} \cup {i + most}) - i

-----------------------------------------------------------------------------
(* syslogd: log_to_shmem                                                   *)

\* A message comes, and semop(SMwdn) waits.
Log(len) ==
  /\ wpc = "idle" /\ msgs < MaxMsgs
  /\ wpc' = "wait" /\ wlen' = len /\ msgs' = msgs + 1
  /\ UNCHANGED <<ring, rd>>

\* Mutant: only the writer's semaphore is looked at.
WriterDown_hasty ==
  /\ wpc = "wait" /\ writer = 0
  /\ writer' = 1 /\ wpc' = "in"
  /\ UNCHANGED <<readers, tail, total, ends, wlen, rd, msgs>>

\* SMwdn: no reader, no writer, and then one writer, in one operation.
WriterDown ==
  /\ wpc = "wait" /\ readers = 0 /\ writer = 0
  /\ writer' = 1 /\ wpc' = "in"
  /\ UNCHANGED <<readers, tail, total, ends, wlen, rd, msgs>>

\* The message, or what fits to the end of the buffer; tail goes to 0 and the
\* rest, which may be nothing, is next.
Store ==
  /\ wpc = "in"
  /\ IF tail + wlen < Size
     THEN /\ tail' = tail + wlen /\ total' = total + wlen
          /\ ends' = ends \cup {total + wlen}
          /\ wlen' = 0 /\ wpc' = "up"
     ELSE /\ tail' = 0 /\ total' = total + (Size - tail)
          /\ wlen' = wlen - (Size - tail) /\ UNCHANGED <<ends, wpc>>
  /\ UNCHANGED <<readers, writer, rd, msgs>>

\* Mutant: the lock is kept.
WriterUp_keeps ==
  /\ wpc = "up" /\ wpc' = "idle"
  /\ UNCHANGED <<ring, wlen, rd, msgs>>

WriterUp ==
  /\ wpc = "up"
  /\ writer' = 0 /\ wpc' = "idle"
  /\ UNCHANGED <<readers, tail, total, ends, wlen, rd, msgs>>

\* SIGKILL: the writer's semaphore has no SEM_UNDO.
KillSyslogd ==
  /\ wpc # "dead" /\ wpc' = "dead"
  /\ UNCHANGED <<ring, wlen, rd, msgs>>

-----------------------------------------------------------------------------
(* logread                                                                 *)

At(r, label) == rd[r].pc = label

Ended(r) == [rd EXCEPT ![r] = [@ EXCEPT !.pc = "done", !.cur = 0, !.next = 1, !.got = <<>>]]

\* The tail is read before the lock is taken.
Open(r) ==
  /\ At(r, "open")
  /\ rd' = [rd EXCEPT ![r].pc = "lock", ![r].cur = tail, ![r].next = total + 1]
  /\ UNCHANGED <<ring, wpc, wlen, msgs>>

\* SMrdn: no writer, and one reader more.
ReaderDown(r) ==
  /\ At(r, "lock") /\ writer = 0
  /\ readers' = readers + 1
  /\ rd' = [rd EXCEPT ![r].pc = "in"]
  /\ UNCHANGED <<writer, tail, total, ends, wpc, wlen, msgs>>

\* What memcpy takes from cur to tail, around the end of the buffer.
Copied(cur) ==
  LET n == IF tail >= cur THEN tail - cur ELSE tail - cur + Size
  IN  [k \in 1 .. n |-> ByteAt((cur + k - 1) % Size)]

AfterNul(i) == IF i + 1 >= Size THEN 0 ELSE i + 1

PassEnds(r, f, got, isBad) ==
  rd' = [rd EXCEPT ![r].pc = "up", ![r].follow = f, ![r].cur = IF isBad THEN @ ELSE tail,
                   ![r].next = IF isBad THEN @ ELSE total + 1, ![r].got = got, ![r].bad = isBad]

\* Mutant: the byte after the oldest is taken for the start of a message.
FirstPass_blind(r) ==
  /\ At(r, "in") /\ rd[r].follow % 2 = 0
  /\ PassEnds(r, rd[r].follow \div 2, Copied(AfterNul(rd[r].cur)), FALSE)
  /\ UNCHANGED <<ring, wpc, wlen, msgs>>

\* Without -f, or the first time with -F: from the NUL after cur, or, if the
\* message there goes around the end of the buffer, from the first NUL before
\* tail; without one it jumps to unlock.
FirstPass(r) ==
  /\ At(r, "in") /\ rd[r].follow % 2 = 0
  /\ LET nul == rd[r].cur + Strlen(rd[r].cur)
         beg == Strnlen(0, tail)
     IN  CASE nul < Size             -> PassEnds(r, rd[r].follow \div 2, Copied(AfterNul(nul)), FALSE)
           [] nul >= Size /\ beg # tail -> PassEnds(r, rd[r].follow \div 2, Copied(AfterNul(beg)), FALSE)
           [] nul >= Size /\ beg = tail -> PassEnds(r, rd[r].follow \div 2, <<>>, TRUE)
  /\ UNCHANGED <<ring, wpc, wlen, msgs>>

\* Mutant: the part after the end of the buffer is left out.
FollowPass_unwrapped(r) ==
  /\ At(r, "in") /\ rd[r].follow % 2 = 1
  /\ IF rd[r].cur = tail
     THEN rd' = [rd EXCEPT ![r].pc = "up", ![r].got = <<>>]
     ELSE PassEnds(r, rd[r].follow,
            IF tail > rd[r].cur THEN Copied(rd[r].cur)
            ELSE SubSeq(Copied(rd[r].cur), 1, Size - rd[r].cur), FALSE)
  /\ UNCHANGED <<ring, wpc, wlen, msgs>>

\* With -f: what is new since the last pass; nothing when cur is at tail.
FollowPass(r) ==
  /\ At(r, "in") /\ rd[r].follow % 2 = 1
  /\ IF rd[r].cur = tail
     THEN rd' = [rd EXCEPT ![r].pc = "up", ![r].got = <<>>]
     ELSE PassEnds(r, rd[r].follow, Copied(rd[r].cur), FALSE)
  /\ UNCHANGED <<ring, wpc, wlen, msgs>>

\* sem_up, print what was copied, and go on if following.
ReaderUp(r) ==
  /\ At(r, "up")
  /\ readers' = readers - 1
  /\ rd' = IF rd[r].follow = 0 THEN Ended(r)
           ELSE [rd EXCEPT ![r].pc = "lock", ![r].got = <<>>]
  /\ UNCHANGED <<writer, tail, total, ends, wpc, wlen, msgs>>

\* A signal kills logread; SEM_UNDO takes it out of the count.
KillLogread(r) ==
  /\ ~At(r, "done")
  /\ readers' = IF rd[r].pc \in {"in", "up"} THEN readers - 1 ELSE readers
  /\ rd' = Ended(r)
  /\ UNCHANGED <<writer, tail, total, ends, wpc, wlen, msgs>>

-----------------------------------------------------------------------------
Init ==
  /\ readers = 0 /\ writer = 0 /\ tail = 0 /\ total = 0 /\ ends = {}
  /\ wpc = "idle" /\ wlen = 0 /\ msgs = 0
  /\ rd \in [Readers -> [pc : {"open"}, follow : 0 .. 2, cur : {0}, next : {1},
                         got : {<<>>}, bad : {FALSE}]]
  /\ Cardinality({r \in Readers : rd[r].follow # 0}) <= MaxFollowers

Step(r) == Open(r) \/ FirstPass(r) \/ FollowPass(r) \/ ReaderUp(r)

Next ==
  \/ \E len \in Lens : Log(len)
  \/ WriterDown \/ Store \/ WriterUp \/ KillSyslogd
  \/ \E r \in Readers : Step(r) \/ ReaderDown(r) \/ KillLogread(r)

Spec == Init /\ [][Next]_vars

\* Both sides go on; a semop that waits is tried again at every change of the
\* semaphores, so it gets through when it can again and again.
FairSpec ==
  /\ Spec /\ WF_vars(Store \/ WriterUp) /\ SF_vars(WriterDown)
  /\ \A r \in Readers : WF_vars(Step(r)) /\ SF_vars(ReaderDown(r))

-----------------------------------------------------------------------------
(* Properties                                                              *)

\* The types; tail is a place in the buffer.
TypeOK ==
  /\ readers \in 0 .. Cardinality(Readers) /\ writer \in {0, 1}
  /\ tail \in 0 .. Size - 1 /\ total \in Nat /\ ends \subseteq 1 .. total
  /\ wpc \in {"idle", "wait", "in", "up", "dead"} /\ wlen \in 0 .. Size /\ msgs \in 0 .. MaxMsgs
  /\ rd \in [Readers -> [pc : {"open", "lock", "in", "up", "done"}, follow : 0 .. 2,
                         cur : 0 .. Size - 1, next : Nat, got : Seq(0 .. total), bad : BOOLEAN]]

Inside == {r \in Readers : rd[r].pc \in {"in", "up"}}

\* Nobody reads while syslogd writes, and the count of readers is true, however
\* many of them were killed inside (SMwdn, SMrdn, SEM_UNDO).
Exclusion == readers = Cardinality(Inside) /\ (wpc \in {"in", "up"} => Inside = {} /\ writer = 1)

\* The byte where the stream goes on is at tail: what a reader takes for the
\* oldest byte is the oldest (log_to_shmem, wrapping).
TailIsOldest == tail = total % Size

\* logread never comes to print from len_total and copy that it did not set,
\* although the tail it starts from is older than the lock (logread, unlock).
NothingUninitialised == \A r \in Readers : ~rd[r].bad

\* What holds at every step of log_to_shmem and logread_main: readers and writer
\* exclude each other, tail is the oldest byte, and no reader prints from what
\* it did not set.
SyslogInv == TypeOK /\ Exclusion /\ TailIsOldest /\ NothingUninitialised

\* Bytes of the stream as they were logged: NULs of the empty buffer, then one
\* byte after the other from the start of a message to the end of the stream.
WholeMessages(got) ==
  \A k \in 1 .. Len(got) : got[k] # 0 =>
    /\ k = 1 \/ got[k - 1] = 0 => got[k] - 1 \in ends \cup {0}
    /\ IF k = Len(got) THEN got[k] = total ELSE got[k + 1] = got[k] + 1

\* What the first pass prints is empty lines of a buffer that was never full,
\* and then the end of the stream from the start of a message: no half message
\* and none out of order (logread, `advance to oldest complete message').
FirstPassWhole ==
  [][\A r \in Readers :
       rd[r].follow % 2 = 0 /\ rd[r].pc = "in" /\ rd'[r].pc = "up" => WholeMessages(rd'[r].got)]_vars

\* A follower that is less than a buffer behind prints exactly what was logged
\* since its last pass, once (logread, `Read from cur to tail').
FollowerExact ==
  [][\A r \in Readers :
       rd[r].follow % 2 = 1 /\ rd[r].pc = "in" /\ rd'[r].pc = "up"
         /\ total + 1 - rd[r].next < Size
       => rd'[r].got = [k \in 1 .. total + 1 - rd[r].next |-> rd[r].next + k - 1]]_vars

\* syslogd gets to write, whatever happens to the readers (SEM_UNDO).
LogWritten == wpc = "wait" ~> wpc \in {"idle", "dead"}

\* logread without -f ends, unless syslogd was killed with the lock: that lock
\* is never free again (SMwdn has no SEM_UNDO).
LogreadEnds ==
  \A r \in Readers : rd[r].follow = 0 ~> (At(r, "done") \/ (wpc = "dead" /\ writer = 1))

=============================================================================
