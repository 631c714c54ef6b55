-------------------------------- MODULE Dhcp --------------------------------
(***************************************************************************)
(* udhcpd and udhcpc (networking/udhcp/dhcpd.c, dhcpc.c) on one network    *)
(* segment: a server that may crash and restart, clients that run the      *)
(* whole state machine of udhcpc_main, and other hosts that send the       *)
(* server any DHCP packet at any time.                                     *)
(*                                                                         *)
(* Time is counted in units.  The segment loses packets but neither        *)
(* duplicates nor reorders them, and what is not handled in the unit in    *)
(* which it was sent is lost.                                              *)
(***************************************************************************)
EXTENDS Leases

CONSTANTS Clients,          \* the macs of the hosts that run udhcpc
          Others,           \* the macs of all other hosts
          Asks,             \* the lease times the other hosts ask for; 0 is none
          DiscoverTimeout,  \* -T: the time to wait for an answer
          DiscoverRetries,  \* -t: the number of DISCOVERs in a row
          TryAgain,         \* -A: the time to wait after that
          Low,              \* the 30 seconds of udhcpc_main
          ProbeTime,        \* -a: how long the ARP probe of an address takes; 0 is no -a
          ReleaseOnQuit,    \* -R
          MaxSignals        \* bound: signals the clients receive

ASSUME DhcpAssumption ==
    /\ Clients \cap Others = {} /\ ZeroMac \notin Clients \cup Others
    /\ NULL \notin Clients \cup Others \cup {ZeroMac}   \* a mac is no null pointer
    /\ Asks \subseteq Nat
    /\ {DiscoverTimeout, DiscoverRetries, TryAgain} \subseteq Nat \ {0}
    /\ {Low, MaxSignals, ProbeTime} \subseteq Nat
    /\ ReleaseOnQuit \in BOOLEAN
    /\ Low <= MaxLease   \* a client never makes a lease longer than the server

Macs == Clients \cup Others
Xids == Nat
Forever == -1   \* the timeout INT_MAX of the released state

VARIABLES up,       \* the server runs
          table,    \* its g_leases
          file,     \* its lease_file
          inbox,    \* packets on their way from the clients to the server
          mail,     \* packets on their way from the server to each client
          client,   \* the variables of each udhcpc, and what it configured
          granted,  \* the last lease each other host was given and keeps
          forgot,   \* the macs whose lease is not in the file, or was not read back
          signals   \* the number of signals sent so far

vars == <<up, table, file, inbox, mail, client, granted, forgot, signals>>

(* PROBING is no state of the code: the client waits in arpping.           *)
States == {"INIT_SELECTING", "REQUESTING", "PROBING", "BOUND", "RENEWING",
           "RENEW_REQUESTED", "REBINDING", "RELEASED", "QUIT"}
Holding == {"BOUND", "RENEWING", "RENEW_REQUESTED", "REBINDING"}

(***************************************************************************)
(* Packets.  req is the REQUESTED_IP option (0: absent), ci is ciaddr, sid *)
(* whether the SERVER_ID option is there (with this server's address), ask *)
(* the LEASE_TIME option.                                                  *)
(***************************************************************************)
Packet(type, mac, xid, req, ci, sid, ask) ==
    [type |-> type, mac |-> mac, xid |-> xid, req |-> req, ci |-> ci, sid |-> sid, ask |-> ask]

Reply(type, m, ip, time) == [type |-> type, xid |-> m.xid, yi |-> ip, time |-> time]

OtherPackets ==
    UNION {{Packet("DISCOVER", o, 0, ip, NoIp, FALSE, 0) : ip \in Pool \cup {NoIp}}
           \cup {Packet("REQUEST", o, 0, ip, NoIp, sid, ask) :
                   ip \in Pool \cup {StaticIp(o)}, sid \in BOOLEAN, ask \in Asks}
           \cup {Packet("REQUEST", o, 0, NoIp, ip, FALSE, ask) :
                   ip \in Pool \cup {NoIp}, ask \in Asks}
           \cup {Packet("DECLINE", o, 0, ip, NoIp, sid, 0) : ip \in Pool, sid \in BOOLEAN}
           \cup {Packet("RELEASE", o, 0, NoIp, ip, sid, 0) : ip \in Pool, sid \in BOOLEAN}
           \cup {Packet("INFORM", o, 0, NoIp, NoIp, FALSE, 0)} : o \in Others}

NoGrant == [nip |-> NoIp, left |-> -1]

(***************************************************************************)
(* A client before udhcpc is started; Started is what udhcpc_main sets up  *)
(* before its loop.                                                        *)
(***************************************************************************)
Idle == [st |-> "QUIT", num |-> 0, xid |-> 0, req |-> NoIp, timeout |-> Forever,
         left |-> 0, cfg |-> NoIp, open |-> FALSE]

Started(k) == [k EXCEPT !.st = "INIT_SELECTING", !.num = 0, !.req = NoIp, !.timeout = 0,
                        !.left = 0, !.cfg = NoIp, !.open = FALSE]

Init ==
    /\ up = TRUE /\ table = {} /\ file = {}
    /\ inbox = <<>> /\ mail = [c \in Clients |-> <<>>]
    /\ client = [c \in Clients |-> Idle]
    /\ granted = [o \in Others |-> NoGrant]
    /\ forgot = {} /\ signals = 0

-----------------------------------------------------------------------------
(***************************************************************************)
(* The server: the main loop of udhcpd_main.  Each packet is handled as a  *)
(* whole; m is the next packet of the clients or any packet of the others. *)
(***************************************************************************)
Arrivals == (IF inbox = <<>> THEN {} ELSE {Head(inbox)}) \cup OtherPackets

(* The packet is read; an answer, if any, is sent to a client's mailbox.   *)
Take(m) == inbox' = IF m.mac \in Clients THEN Tail(inbox) ELSE inbox

Answer(m, replies) ==
    mail' = IF m.mac \in Clients THEN [mail EXCEPT ![m.mac] = @ \o replies] ELSE mail

(* What the server believes the sender of m has: fake_lease or the table.  *)
OwnIps(m) == IF StaticIp(m.mac) # NoIp THEN {StaticIp(m.mac)}
             ELSE {l.nip : l \in LeaseByMac(table, m.mac)}

(* A host that discovers uses no address; one that declines or releases an *)
(* address does not use that one.                                          *)
GivesUp(m, ips) ==
    granted' = [o \in Others |-> IF o = m.mac /\ granted[o].nip \in ips
                                 THEN NoGrant ELSE granted[o]]

(***************************************************************************)
(* send_offer.  Choices are the address that is offered and the table the  *)
(* search for it left.                                                     *)
(***************************************************************************)
(* Mutant: a requested address is offered whoever has it.                  *)
OfferChoices_taken(m) ==
    IF OwnIps(m) # {} THEN {[nip |-> ip, t |-> table] : ip \in OwnIps(m)}
    ELSE IF m.req \in Pool
    THEN {[nip |-> m.req, t |-> table]}
    ELSE UNION {{[nip |-> s.nip, t |-> s.t] : s \in FindFree(table, first, inUse)} :
                  first \in Pool, inUse \in [Pool -> BOOLEAN]}

OfferChoices(m) ==
    IF OwnIps(m) # {} THEN {[nip |-> ip, t |-> table] : ip \in OwnIps(m)}
    ELSE IF m.req \in Pool /\ \A l \in LeaseByNip(table, m.req) : IsExpired(l)
    THEN {[nip |-> m.req, t |-> table]}
    ELSE UNION {{[nip |-> s.nip, t |-> s.t] : s \in FindFree(table, first, inUse)} :
                  first \in Pool, inUse \in [Pool -> BOOLEAN]}

Discover(m) ==
    /\ m.type = "DISCOVER"
    /\ IF StaticIp(m.mac) # NoIp
       THEN /\ table' = table
            /\ Answer(m, <<Reply("OFFER", m, StaticIp(m.mac), LeaseTime(m.ask))>>)
       ELSE \E o \in OfferChoices(m) :
              IF o.nip = NoIp
              THEN table' = o.t /\ mail' = mail
              ELSE /\ table' \in AddLease(o.t, m.mac, o.nip, OfferTime)
                   /\ Answer(m, IF LeaseByMac(table', m.mac) # {}
                                THEN <<Reply("OFFER", m, o.nip, LeaseTime(m.ask))>>
                                ELSE <<>>)
    /\ GivesUp(m, Pool)
    /\ UNCHANGED <<file, forgot>>

(***************************************************************************)
(* What write_leases can make of the file: the old one when it cannot be   *)
(* opened, and any part of the table, as no write is checked.  Forgets are *)
(* the macs whose lease is then not in it.                                 *)
(***************************************************************************)
Writes(t) == {file} \cup SUBSET Written(t)

Forgets(t, f) == {l.mac : l \in {l \in t : ~\E k \in f : /\ k.mac = l.mac /\ k.nip = l.nip
                                                          /\ k.left >= l.left}} \cap Macs

(***************************************************************************)
(* send_ACK: the answer is sent, the lease is added, the file is written.  *)
(***************************************************************************)
WantedIp(m) == IF m.req # NoIp THEN m.req ELSE m.ci

Acked(m) == m.type = "REQUEST" /\ WantedIp(m) # NoIp /\ WantedIp(m) \in OwnIps(m)

Grant(m) ==
    /\ Answer(m, <<Reply("ACK", m, WantedIp(m), LeaseTime(m.ask))>>)
    /\ granted' = IF m.mac \in Others
                  THEN [granted EXCEPT ![m.mac] = [nip |-> WantedIp(m), left |-> LeaseTime(m.ask)]]
                  ELSE granted

(* Mutant: the file is left to auto_time.                                  *)
send_ACK_unsaved(m) ==
    /\ Acked(m)
    /\ Grant(m)
    /\ table' \in AddLease(table, m.mac, WantedIp(m), LeaseTime(m.ask))
    /\ forgot' = forgot \ {m.mac}
    /\ UNCHANGED file

send_ACK(m) ==
    /\ Acked(m)
    /\ Grant(m)
    /\ table' \in AddLease(table, m.mac, WantedIp(m), LeaseTime(m.ask))
    /\ file' \in Writes(table')
    /\ forgot' = (forgot \ {m.mac}) \cup Forgets(table', file')

(* A select or a reboot request is refused, a renewal is not answered.     *)
RequestRefused(m) ==
    /\ m.type = "REQUEST"
    /\ ~Acked(m)
    /\ Answer(m, IF WantedIp(m) # NoIp /\ (m.sid \/ m.req # NoIp)
                 THEN <<Reply("NAK", m, NoIp, 0)>> ELSE <<>>)
    /\ UNCHANGED <<table, file, granted, forgot>>

Decline(m) ==
    /\ m.type = "DECLINE"
    /\ table' = {IF l.mac = m.mac /\ l.nip = m.req /\ m.sid /\ m.req # NoIp /\ StaticIp(m.mac) = NoIp
                 THEN [mac |-> ZeroMac, nip |-> l.nip, left |-> DeclineTime] ELSE l : l \in table}
    /\ GivesUp(m, {m.req})
    /\ UNCHANGED <<file, mail, forgot>>

(* Mutant: the lease is looked up by the address.                          *)
Release_anyone(m) ==
    /\ m.type = "RELEASE"
    /\ table' = {IF l.nip = m.ci /\ m.sid /\ StaticIp(m.mac) = NoIp
                 THEN [l EXCEPT !.left = 0] ELSE l : l \in table}
    /\ GivesUp(m, {m.ci})
    /\ UNCHANGED <<file, mail, forgot>>

Release(m) ==
    /\ m.type = "RELEASE"
    /\ table' = {IF l.mac = m.mac /\ l.nip = m.ci /\ m.sid /\ StaticIp(m.mac) = NoIp
                 THEN [l EXCEPT !.left = 0] ELSE l : l \in table}
    /\ GivesUp(m, {m.ci})
    /\ UNCHANGED <<file, mail, forgot>>

(* send_inform: an ACK with no address and no lease time.                  *)
Inform(m) ==
    /\ m.type = "INFORM"
    /\ Answer(m, <<Reply("ACK", m, NoIp, 0)>>)
    /\ UNCHANGED <<table, file, granted, forgot>>

Serve ==
    /\ up
    /\ \E m \in Arrivals :
         /\ Take(m)
         /\ Discover(m) \/ send_ACK(m) \/ RequestRefused(m) \/ Decline(m) \/ Release(m) \/ Inform(m)
    /\ UNCHANGED <<up, client, signals>>

(* SIGUSR1 and auto_time write the file.                                   *)
Save ==
    /\ up
    /\ file' \in Writes(table)
    /\ forgot' = forgot \cup Forgets(table, file')
    /\ UNCHANGED <<up, table, inbox, mail, client, granted, signals>>

Stopped == up' = FALSE /\ table' = {} /\ inbox' = <<>>

(* SIGTERM, or a crash while the file is written.                          *)
Terminate ==
    /\ up
    /\ file' \in Writes(table)
    /\ forgot' = forgot \cup Forgets(table, file')
    /\ Stopped
    /\ UNCHANGED <<mail, client, granted, signals>>

Crash ==
    /\ up
    /\ Stopped
    /\ UNCHANGED <<file, mail, client, granted, forgot, signals>>

(* The crash comes after an ACK is sent and before its lease is written.   *)
CrashInAck ==
    /\ up
    /\ \E m \in Arrivals :
         /\ Acked(m)
         /\ Grant(m)
         /\ \E t \in AddLease(table, m.mac, WantedIp(m), LeaseTime(m.ask)) :
              /\ file' \in Writes(t)
              /\ forgot' = forgot \cup Forgets(t, file')
    /\ Stopped
    /\ UNCHANGED <<client, signals>>

(***************************************************************************)
(* udhcpd_main up to its loop.  read_leases gives up when the file cannot  *)
(* be opened, has no time or is older than 12 hours.                       *)
(***************************************************************************)
Restart ==
    /\ ~up
    /\ up' = TRUE
    /\ \E order \in SetToSeqs(file) : table' \in ReadLeases(order)
    /\ UNCHANGED <<file, inbox, mail, client, granted, forgot, signals>>

RestartUnread ==
    /\ ~up
    /\ up' = TRUE
    /\ forgot' = forgot \cup Forgets(file, {})
    /\ UNCHANGED <<table, file, inbox, mail, client, granted, signals>>

-----------------------------------------------------------------------------
(***************************************************************************)
(* The client: the loop of udhcpc_main.  k is the state of client c while  *)
(* an iteration changes it; Becomes ends the iteration.  A packet sent to  *)
(* a server that is down is lost.  Without a lease lease_remaining is not  *)
(* read before the next ACK sets it; it is 0 here.                         *)
(***************************************************************************)
Becomes(c, k) == client' = [client EXCEPT ![c] = k]

Send(p) == inbox' = IF up THEN Append(inbox, p) ELSE inbox

(* random_xid: two xids of one unit of time are taken to differ.           *)
NextXid(xid) == xid + 1

RenewPacket(c, k) == Packet("REQUEST", c, k.xid, NoIp, k.req, FALSE, 0)

Deconfigured(k) == [k EXCEPT !.cfg = NoIp]

Reinit(k, timeout) == [k EXCEPT !.st = "INIT_SELECTING", !.num = 0, !.timeout = timeout,
                                !.left = 0, !.open = FALSE]

(* REBINDING: three broadcasts while the lease lasts, then it is lost.     *)
Rebind(c, k) ==
    IF k.left > 0 /\ k.num < 3
    THEN /\ Send(RenewPacket(c, k))
         /\ Becomes(c, [k EXCEPT !.st = "REBINDING", !.open = TRUE, !.num = @ + 1,
                                 !.timeout = DiscoverTimeout])
    ELSE /\ inbox' = inbox
         /\ Becomes(c, Reinit(Deconfigured(k), 0))

(* BOUND_for_half_lease                                                    *)
BoundForHalfLease(k) ==
    [k EXCEPT !.st = "BOUND", !.num = 0, !.open = FALSE, !.timeout = k.left \div 2]

(* Mutant: the client goes back to BOUND however little is left.           *)
RenewUnanswered_patient(c, k) == inbox' = inbox /\ Becomes(c, BoundForHalfLease(k))

(* "no response to renew"                                                  *)
RenewUnanswered(c, k) ==
    IF k.left > Low
    THEN inbox' = inbox /\ Becomes(c, BoundForHalfLease(k))
    ELSE Rebind(c, [k EXCEPT !.num = 0])

(* Mutant: the socket is opened after the renewal is sent.                 *)
Renew_deaf(c, k) ==
    \/ /\ Send(RenewPacket(c, k))
       /\ Becomes(c, [k EXCEPT !.num = 1, !.timeout = DiscoverTimeout])
    \/ RenewUnanswered(c, k)

(* One unicast renewal; sending it can fail.                               *)
Renew(c, k) ==
    \/ /\ Send(RenewPacket(c, k))
       /\ Becomes(c, [k EXCEPT !.open = TRUE, !.num = 1, !.timeout = DiscoverTimeout])
    \/ RenewUnanswered(c, k)

(* perform_release, on SIGUSR2 and on exit with -R.                        *)
SendRelease(c, k) ==
    IF k.st \in Holding
    THEN Send(Packet("RELEASE", c, NextXid(k.xid), NoIp, k.req, TRUE, 0))
    ELSE inbox' = inbox

Released(k) ==
    [k EXCEPT !.st = "RELEASED", !.cfg = NoIp, !.open = FALSE, !.timeout = Forever,
              !.num = 0, !.left = 0, !.xid = IF k.st \in Holding THEN NextXid(@) ELSE @]

(***************************************************************************)
(* The timeout is over: the switch on the state.                           *)
(***************************************************************************)
server == <<up, table, file, granted, forgot>>

Due(c, states) == client[c].st \in states /\ client[c].timeout = 0

SendDiscover(c) ==
    LET k == client[c]
        xid == IF k.num = 0 THEN NextXid(k.xid) ELSE k.xid
    IN  /\ Due(c, {"INIT_SELECTING"}) /\ k.num < DiscoverRetries
        /\ Send(Packet("DISCOVER", c, xid, k.req, NoIp, FALSE, 0))
        /\ Becomes(c, [k EXCEPT !.open = TRUE, !.xid = xid, !.num = @ + 1,
                                !.timeout = DiscoverTimeout])
        /\ UNCHANGED <<server, mail, signals>>

SendSelect(c) ==
    LET k == client[c]
    IN  /\ Due(c, {"REQUESTING"}) /\ k.num < 3
        /\ Send(Packet("REQUEST", c, k.xid, k.req, NoIp, TRUE, 0))
        /\ Becomes(c, [k EXCEPT !.num = @ + 1, !.timeout = DiscoverTimeout])
        /\ UNCHANGED <<server, mail, signals>>

LeaseFail(c) ==
    /\ \/ Due(c, {"INIT_SELECTING"}) /\ client[c].num >= DiscoverRetries
       \/ Due(c, {"REQUESTING"}) /\ client[c].num >= 3
    /\ Becomes(c, Reinit(client[c], TryAgain))
    /\ UNCHANGED <<server, inbox, mail, signals>>

HalfLeasePassed(c) ==
    /\ Due(c, {"BOUND"})
    /\ Renew(c, [client[c] EXCEPT !.st = "RENEWING"])
    /\ UNCHANGED <<server, mail, signals>>

RenewTimedOut(c) ==
    /\ Due(c, {"RENEWING", "RENEW_REQUESTED"})
    /\ RenewUnanswered(c, client[c])
    /\ UNCHANGED <<server, mail, signals>>

RebindTimedOut(c) ==
    /\ Due(c, {"REBINDING"})
    /\ Rebind(c, client[c])
    /\ UNCHANGED <<server, mail, signals>>

ProbeUnanswered(c) ==
    /\ Due(c, {"PROBING"})
    /\ Becomes(c, [BoundForHalfLease(client[c]) EXCEPT !.cfg = client[c].req])
    /\ UNCHANGED <<server, inbox, mail, signals>>

TimedOut(c) ==
    \/ SendDiscover(c) \/ SendSelect(c) \/ LeaseFail(c) \/ ProbeUnanswered(c)
    \/ HalfLeasePassed(c) \/ RenewTimedOut(c) \/ RebindTimedOut(c)

(***************************************************************************)
(* poll returned: a signal or a packet.                                    *)
(***************************************************************************)
Polling(c) == client[c].st \notin {"PROBING", "QUIT"} /\ client[c].timeout # 0

Signalled(c) ==
    /\ Polling(c) /\ signals < MaxSignals
    /\ signals' = signals + 1
    /\ UNCHANGED <<server, mail>>

Hurry(k) == [k EXCEPT !.left = IF @ > Low THEN Low ELSE @, !.num = 0]

SIGUSR1(c) ==
    LET k == Hurry(client[c])
    IN  /\ Signalled(c)
        /\ \/ /\ k.st \in {"BOUND", "RENEWING"}
              /\ Renew(c, [k EXCEPT !.st = "RENEW_REQUESTED"])
           \/ /\ k.st = "RENEW_REQUESTED"
              /\ Becomes(c, Reinit(Deconfigured(k), 0))
              /\ inbox' = inbox
           \/ /\ k.st = "RELEASED"
              /\ Becomes(c, Reinit(k, 0))
              /\ inbox' = inbox

SIGUSR2(c) ==
    /\ Signalled(c)
    /\ SendRelease(c, client[c])
    /\ Becomes(c, Released(client[c]))

(* Without -R the interface keeps its address.                             *)
SIGTERM(c) ==
    LET k == client[c]
    IN  /\ Signalled(c)
        /\ IF ReleaseOnQuit
           THEN SendRelease(c, k) /\ Becomes(c, [Released(k) EXCEPT !.st = "QUIT", !.req = NoIp])
           ELSE /\ inbox' = inbox
                /\ Becomes(c, [k EXCEPT !.st = "QUIT", !.open = FALSE, !.timeout = Forever])

Start(c) ==
    /\ client[c].st = "QUIT"
    /\ Becomes(c, Started(client[c]))
    /\ UNCHANGED <<server, inbox, mail, signals>>

(* A packet is read: one for us, from this exchange.                       *)
Reads(c, states, type) ==
    /\ Polling(c) /\ client[c].open /\ mail[c] # <<>>
    /\ client[c].st \in states
    /\ Head(mail[c]).type = type /\ Head(mail[c]).xid = client[c].xid
    /\ mail' = [mail EXCEPT ![c] = Tail(@)]

Requested == {"REQUESTING", "RENEWING", "RENEW_REQUESTED", "REBINDING"}

ReceiveOffer(c) ==
    /\ Reads(c, {"INIT_SELECTING"}, "OFFER")
    /\ Becomes(c, [client[c] EXCEPT !.st = "REQUESTING", !.req = Head(mail[c]).yi,
                                    !.timeout = 0, !.num = 0])
    /\ UNCHANGED <<server, inbox, signals>>

(* The lease of an ACK, never below 30 seconds, and its address.           *)
Obtained(c) ==
    LET p == Head(mail[c])
    IN  [client[c] EXCEPT !.left = IF p.time < Low THEN Low ELSE p.time, !.req = p.yi]

(* Without -a, or when the probe cannot be sent.                           *)
ReceiveAck(c) ==
    /\ Reads(c, Requested, "ACK")
    /\ Becomes(c, [BoundForHalfLease(Obtained(c)) EXCEPT !.cfg = Head(mail[c]).yi])
    /\ UNCHANGED <<server, inbox, signals>>

(***************************************************************************)
(* arpping: the address of the ACK is probed before it is configured.      *)
(* lease_remaining does not count this time.  It ends with no answer after *)
(* ProbeTime, or with one before that: the address is declined.            *)
(***************************************************************************)
ReceiveAckProbe(c) ==
    /\ ProbeTime > 0
    /\ Reads(c, Requested, "ACK")
    /\ Becomes(c, [Obtained(c) EXCEPT !.st = "PROBING", !.num = 0, !.open = FALSE,
                                      !.timeout = ProbeTime])
    /\ UNCHANGED <<server, inbox, signals>>

ProbeAnswered(c) ==
    LET k == client[c]
        xid == NextXid(k.xid)
    IN  /\ k.st = "PROBING"
        /\ Send(Packet("DECLINE", c, xid, k.req, NoIp, TRUE, 0))
        /\ Becomes(c, [Reinit(Deconfigured(k), TryAgain) EXCEPT !.xid = xid, !.req = NoIp])
        /\ UNCHANGED <<server, mail, signals>>

(* A NAK sends the client back to the start, after a sleep.                *)
ReceiveNak(c) ==
    /\ Reads(c, Requested, "NAK")
    /\ Becomes(c, [Reinit(Deconfigured(client[c]), DiscoverTimeout) EXCEPT !.req = NoIp])
    /\ UNCHANGED <<server, inbox, signals>>

ClientStep(c) ==
    \/ TimedOut(c) \/ Start(c)
    \/ SIGUSR1(c) \/ SIGUSR2(c) \/ SIGTERM(c)
    \/ ReceiveOffer(c) \/ ReceiveAck(c) \/ ReceiveAckProbe(c) \/ ProbeAnswered(c)
    \/ ReceiveNak(c)

-----------------------------------------------------------------------------
(***************************************************************************)
(* The network, and time.  A packet that is lost, that finds no socket     *)
(* open or that its reader ignores is gone.  Time passes when no client    *)
(* has anything to do.  With it no packet is in flight, and an xid, which  *)
(* is only compared with those of packets in flight, is renumbered 0.      *)
(***************************************************************************)
LoseRequest ==
    /\ inbox # <<>>
    /\ inbox' = Tail(inbox)
    /\ UNCHANGED <<server, mail, client, signals>>

LoseReply(c) ==
    /\ mail[c] # <<>>
    /\ mail' = [mail EXCEPT ![c] = Tail(@)]
    /\ UNCHANGED <<server, inbox, client, signals>>

Later(k) == [k EXCEPT !.timeout = IF @ > 0 THEN @ - 1 ELSE @,
                      !.left = IF k.st = "PROBING" THEN @ ELSE IF @ > 0 THEN @ - 1 ELSE 0,
                      !.xid = 0]

Tick ==
    /\ \A c \in Clients : client[c].timeout # 0
    /\ client' = [c \in Clients |-> Later(client[c])]
    /\ table' = Aged(table, -1) /\ file' = Aged(file, 0)
    /\ granted' = [o \in Others |-> IF granted[o].left > 0
                                    THEN [granted[o] EXCEPT !.left = @ - 1] ELSE NoGrant]
    /\ inbox' = <<>> /\ mail' = [c \in Clients |-> <<>>]
    /\ UNCHANGED <<up, forgot, signals>>

Next ==
    \/ Serve \/ Save \/ Terminate \/ Crash \/ CrashInAck \/ Restart \/ RestartUnread
    \/ \E c \in Clients : ClientStep(c) \/ LoseReply(c)
    \/ LoseRequest \/ Tick

Spec == Init /\ [][Next]_vars

(***************************************************************************)
(* A client acts when its timeout is over, and time goes on.               *)
(***************************************************************************)
FairSpec ==
    /\ Spec
    /\ \A c \in Clients : WF_vars(TimedOut(c))
    /\ WF_vars(Tick)

-----------------------------------------------------------------------------
Ips == Pool \cup {Static[m] : m \in DOMAIN Static}
Longest == CHOOSE t \in {OfferTime, ConflictTime, DeclineTime, MinLease, MaxLease, Low} :
             \A u \in {OfferTime, ConflictTime, DeclineTime, MinLease, MaxLease, Low} : t >= u

(***************************************************************************)
(* The types; neither the table nor the file outgrows its slots.           *)
(***************************************************************************)
TypeOK ==
    /\ up \in BOOLEAN
    /\ \A l \in table \cup file : l.mac \in Macs \cup {ZeroMac} /\ l.nip \in Ips /\ l.left \in -1 .. Longest
    /\ Cardinality(table) <= Slots /\ Cardinality(file) <= Slots
    /\ \A c \in Clients :
         /\ client[c].st \in States /\ client[c].num \in 0 .. 3 \cup 0 .. DiscoverRetries
         /\ client[c].xid \in Xids /\ client[c].req \in Ips \cup {NoIp}
         /\ client[c].cfg \in Ips \cup {NoIp} /\ client[c].left \in 0 .. Longest
    /\ forgot \subseteq Macs /\ signals <= MaxSignals

(***************************************************************************)
(* The table has one lease for an address and one for a mac; conflict      *)
(* leases share the zero mac (clear_leases and add_lease).                 *)
(***************************************************************************)
OneLeaseEach ==
    \A l, k \in table : l # k => l.nip # k.nip /\ (l.mac = k.mac => l.mac = ZeroMac)

(***************************************************************************)
(* What udhcpd does not keep apart.  send_offer gives an address that is   *)
(* asked for away although it is somebody's static lease, so a static      *)
(* address in the pool, or of two macs, has more than one claimant.        *)
(***************************************************************************)
Contested(ip) ==
    \E m \in DOMAIN Static :
      /\ Static[m] = ip
      /\ ip \in Pool \/ \E n \in DOMAIN Static \ {m} : Static[n] = ip

(***************************************************************************)
(* An address counts as used by a udhcpc as long as its lease is not over  *)
(* for the server: the client's own count is up to ProbeTime behind, and a *)
(* timeout (-T) longer than what is left keeps the address configured even *)
(* after that.                                                             *)
(***************************************************************************)
Uses(m) ==
    IF m \in Others THEN granted[m].nip
    ELSE IF client[m].st # "QUIT" /\ client[m].left > ProbeTime THEN client[m].cfg ELSE NoIp

(***************************************************************************)
(* The address a udhcpc uses is reserved for it by the server, for at      *)
(* least as long as the client believes, less the time of the ARP probe,   *)
(* whatever packets were lost, however its last renewals went and whenever *)
(* the server was restarted.  The exceptions: a lease that since its ACK   *)
(* was not, or not fully, written to the file, or that a restart did not   *)
(* read as the file was too old or unreadable; and static leases, which no *)
(* restart reads (send_ACK, write_leases, read_leases, udhcpc_main).       *)
(***************************************************************************)
HeldIsReserved ==
    \A c \in Clients \ forgot :
      up /\ Uses(c) # NoIp /\ StaticIp(c) = NoIp /\ ~Contested(Uses(c)) =>
        \E l \in table : /\ l.mac = c /\ l.nip = Uses(c)
                         /\ l.left >= client[c].left - ProbeTime

(***************************************************************************)
(* No address is used by two hosts at the same time: configured by a       *)
(* udhcpc whose lease is not over, or leased to another host that has not  *)
(* given it up.  The exceptions: a host whose lease was not written to the *)
(* file or not read back, as above, and a static address inside the pool   *)
(* or of two macs (send_offer, send_ACK, write_leases, read_leases).       *)
(***************************************************************************)
Exclusive ==
    \A m, n \in Macs \ forgot :
      m # n /\ Uses(m) # NoIp /\ ~Contested(Uses(m)) => Uses(m) # Uses(n)

(***************************************************************************)
(* The interface has the address of the lease exactly while the client is  *)
(* in a state that has one; while a renewed address is probed it stays     *)
(* (every udhcp_run_script of udhcpc_main).                                *)
(***************************************************************************)
ConfiguredWhileHeld ==
    \A c \in Clients :
      /\ client[c].st \in Holding => client[c].cfg = client[c].req
      /\ client[c].st = "PROBING" => client[c].cfg \in {NoIp, client[c].req}
      /\ client[c].st \notin Holding \cup {"PROBING", "QUIT"} => client[c].cfg = NoIp

(***************************************************************************)
(* A client that waits for an answer has its socket open: no path through  *)
(* udhcpc_main forgets change_listen_mode.                                 *)
(***************************************************************************)
Listens ==
    \A c \in Clients :
      client[c].st \in {"INIT_SELECTING"} \cup Requested /\ client[c].num > 0 => client[c].open

(***************************************************************************)
(* What holds at every step of udhcpc_main and udhcpd_main: the interface  *)
(* and the socket fit the client's state, and the tables their bounds.     *)
(***************************************************************************)
DhcpInv == TypeOK /\ ConfiguredWhileHeld /\ Listens

(***************************************************************************)
(* While the server runs, an address that is reserved is not taken from    *)
(* its holder for another: before the lease has expired only its holder    *)
(* can turn it into a conflict lease (send_offer, oldest_expired_lease).   *)
(* The exception is a static address in the pool or of two macs: the ACK   *)
(* to one of its claimants clears the lease of the other.                  *)
(***************************************************************************)
NeverTaken ==
    [][up /\ up' => \A l \in table : l.left >= 0 /\ ~Contested(l.nip) =>
         \E k \in table' : k.nip = l.nip /\ k.mac \in {l.mac, ZeroMac}]_vars

(***************************************************************************)
(* When the server is gone for good, every client gives its address up in  *)
(* the end (udhcpc_main, RENEWING and REBINDING).                          *)
(***************************************************************************)
LeasesEnd == (<>[]~up) => <>[](\A c \in Clients : client[c].cfg = NoIp)

(***************************************************************************)
(* A restart that reads the file keeps an address that is in conflict      *)
(* reserved, as long as the file has no other: the second one read clears  *)
(* the first, as their zero macs are equal.  An address that is somebody's *)
(* static lease is skipped (read_leases, clear_leases).                    *)
(***************************************************************************)
ConflictKept ==
    [][\A l \in file :
         Restart /\ LeaseByMac(file, ZeroMac) = {l} /\ ~IsReservedAsStatic(l.nip) =>
           \E k \in table' : k.mac = ZeroMac /\ k.nip = l.nip]_vars
=============================================================================
