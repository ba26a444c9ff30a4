------------------------------ MODULE DhcpServer -------------------------------
(* The DHCP server of station 2 (station2/buddy5/dhcpserver): dhcp_server_process *)
(* answers DISCOVER and REQUEST from a table of eight leases whose expiry is kept *)
(* in 16 bits of the millisecond timer; it drops whatever it should refuse.       *)
(* Devices (external) follow RFC 2131: the answer must belong to the transaction  *)
(* under way, and a lease counts from the moment the REQUEST was sent.  Datagrams *)
(* are lost, duplicated and reordered.  A RELEASE, and the REQUEST of a renewal,  *)
(* which carries no option 50, change nothing and get no answer: left out.        *)
EXTENDS Integers, FiniteSets

CONSTANTS
  Devices, NoMac,   \* MAC addresses; NoMac is 00:00:00:00:00:00
  NoIp,             \* a device that was never given an address
  MaxIp,            \* DHCPS_MAX_IP
  LeaseTime,        \* DEFAULT_LEASE_TIME_S in ticks of the timer
  TickMod, Grain,   \* 2^32 and 2^16: the timer's modulus and that of the bits cut off
  MaxStale,         \* bound on the datagrams of earlier transactions still to arrive
  FirstTicks,       \* the timer when the first device may show up after a start
  MaxTicks          \* bound on the ticks between two restarts

ASSUME DhcpAssumption ==
  /\ NoMac \notin Devices /\ MaxIp \in Nat /\ MaxStale \in Nat /\ MaxTicks \in Nat
  /\ FirstTicks \subseteq Nat
  /\ LeaseTime \in Nat /\ TickMod \in Nat \ {0} /\ Grain \in Nat \ {0}
  /\ TickMod % Grain = 0 /\ LeaseTime + Grain <= TickMod \div 2

VARIABLES
  lease,            \* dhcp_server_t.lease: MAC and expiry of each address
  ticks,            \* milliseconds since power-on
  net,              \* datagrams that may still arrive, each any number of times
  device,           \* what each device does and the address it has or remembers
  granted           \* history: when each address was last acknowledged

dhcpVars == <<lease, ticks, net, device, granted>>

Slots == 0 .. MaxIp - 1
Free == [mac |-> NoMac, expiry |-> 0]
cyw43_hal_ticks_ms == ticks % TickMod

(* A device and its datagrams.  Those of an earlier transaction are `stale`: the  *)
(* server cannot tell, the device ignores their answers.                         *)
Datagram == [type : {"DISCOVER", "OFFER", "REQUEST", "ACK"}, mac : Devices,
             ip : Slots \cup {NoIp}, stale : BOOLEAN]
Message(type, mac, ip) == [type |-> type, mac |-> mac, ip |-> ip, stale |-> FALSE]
Unused(ip) == [state |-> "init", ip |-> ip, sent |-> 0]

DhcpInit ==
  /\ lease = [s \in Slots |-> Free]
  /\ ticks \in FirstTicks
  /\ net = {}
  /\ device = [d \in Devices |-> Unused(NoIp)]
  /\ granted = [s \in Slots |-> 0]

(* An answer that the device will ignore when it comes need not be sent.          *)
Awaited(m, type) ==
  /\ ~m.stale
  /\ device[m.mac].state = IF type = "OFFER" THEN "selecting" ELSE "requesting"

-----------------------------------------------------------------------------
(* The server.                                                                 *)

expiry_wide == (ticks + LeaseTime) \div Grain
expiry_past == (ticks % TickMod) \div Grain
expiry_of_now == ((ticks + LeaseTime) % TickMod) \div Grain

(* expiry << 16 | 0xffff, compared with the timer as a signed 32-bit difference.  *)
ExpiredByOrder(s) == lease[s].expiry * Grain + Grain - 1 < cyw43_hal_ticks_ms
Expired(s) ==
  (lease[s].expiry * Grain + Grain - 1 - cyw43_hal_ticks_ms) % TickMod >= TickMod \div 2

Owned(mac) == {s \in Slots : lease[s].mac = mac}

(* The loop stops at the first address of this MAC; before it, the first address  *)
(* that is free or expired is chosen, and an expired one loses its owner.         *)
Examined(mac) == {s \in Slots : \A o \in Owned(mac) : s < o}
Available(mac) == {s \in Examined(mac) : lease[s].mac = NoMac \/ Expired(s)}

First(s, S) == s \in S /\ \A t \in S : s <= t

Reclaimed(mac) ==
  [s \in Slots |-> IF First(s, Available(mac)) /\ Expired(s)
                   THEN [lease[s] EXCEPT !.mac = NoMac] ELSE lease[s]]

Reply(m, type, ip) ==
  net' = IF Awaited(m, type) THEN net \cup {Message(type, m.mac, ip)} ELSE net

Discover(m) ==
  \E yi \in Slots :
    /\ m.type = "DISCOVER"
    /\ First(yi, IF Owned(m.mac) # {} THEN Owned(m.mac) ELSE Available(m.mac))
    /\ lease' = Reclaimed(m.mac)
    /\ Reply(m, "OFFER", yi)
    /\ UNCHANGED <<ticks, device, granted>>

MayUseAny(m) == TRUE
MayUse(m) == lease[m.ip].mac \in {m.mac, NoMac}

Request(m) ==
  /\ m.type = "REQUEST"
  /\ m.ip \in Slots
  /\ MayUse(m)
  /\ lease' = [lease EXCEPT ![m.ip] = [mac |-> m.mac, expiry |-> expiry_of_now]]
  /\ granted' = [granted EXCEPT ![m.ip] = ticks]
  /\ Reply(m, "ACK", m.ip)
  /\ UNCHANGED <<ticks, device>>

dhcp_server_process == \E m \in net : Discover(m) \/ Request(m)

-----------------------------------------------------------------------------
(* The devices, the timer and a restart of the station.                         *)

Delayed(d) == {m \in net : m.mac = d /\ m.type \in {"DISCOVER", "REQUEST"}}

NewTransaction(d, m) ==
  \E late \in SUBSET Delayed(d) :
    /\ Cardinality({n \in net : n.mac # d /\ n.stale}) + Cardinality(late) <= MaxStale
    /\ net' = {n \in net : n.mac # d} \cup {[n EXCEPT !.stale = TRUE] : n \in late} \cup {m}

(* A device without an address asks for one, again if it must, or comes back with *)
(* the one it remembers.                                                         *)
SendDiscover(d) ==
  /\ device[d].state # "bound"
  /\ device' = [device EXCEPT ![d] = [state |-> "selecting", ip |-> NoIp, sent |-> 0]]
  /\ NewTransaction(d, Message("DISCOVER", d, NoIp))
  /\ UNCHANGED <<lease, ticks, granted>>

Requesting(ip) == [state |-> "requesting", ip |-> ip, sent |-> ticks]

SendRemembered(d) ==
  /\ device[d].state = "init" /\ device[d].ip # NoIp
  /\ device' = [device EXCEPT ![d] = Requesting(device[d].ip)]
  /\ NewTransaction(d, Message("REQUEST", d, device[d].ip))
  /\ UNCHANGED <<lease, ticks, granted>>

Answered(type, d) == {m \in net : m.type = type /\ m.mac = d}

TakeOffer(d) ==
  \E m \in Answered("OFFER", d) :
    /\ device[d].state = "selecting"
    /\ device' = [device EXCEPT ![d] = Requesting(m.ip)]
    /\ net' = (net \ Answered("OFFER", m.mac)) \cup {Message("REQUEST", d, m.ip)}
    /\ UNCHANGED <<lease, ticks, granted>>

TakeAck(d) ==
  \E m \in Answered("ACK", d) :
    /\ device[d].state = "requesting" /\ device[d].ip = m.ip
    /\ device' = [device EXCEPT ![d].state = "bound"]
    /\ net' = net \ Answered("ACK", d)
    /\ UNCHANGED <<lease, ticks, granted>>

Holds(d) == device[d].state = "bound" /\ ticks < device[d].sent + LeaseTime

(* The device leaves the network, or its lease is over.                          *)
GiveUp(d) ==
  /\ device[d].state = "bound"
  /\ device' = [device EXCEPT ![d] = Unused(device[d].ip)]
  /\ UNCHANGED <<lease, ticks, net, granted>>

DhcpTick ==
  /\ ticks < MaxTicks
  /\ ticks' = ticks + 1
  /\ UNCHANGED <<lease, net, device, granted>>

(* dhcp_server_init: the table is empty and the timer starts anew; the access     *)
(* point was off the air, and every device has to join again.                    *)
Restart ==
  /\ lease' = [s \in Slots |-> Free]
  /\ ticks' \in FirstTicks
  /\ net' = {}
  /\ device' = [d \in Devices |-> Unused(device[d].ip)]
  /\ granted' = [s \in Slots |-> 0]

DhcpNext ==
  \/ dhcp_server_process
  \/ \E d \in Devices : SendDiscover(d) \/ SendRemembered(d) \/ TakeOffer(d) \/ TakeAck(d) \/ GiveUp(d)
  \/ DhcpTick \/ Restart

DhcpSpec == DhcpInit /\ [][DhcpNext]_dhcpVars

-----------------------------------------------------------------------------
(* Properties.                                                                 *)

(* Every variable keeps its type; an expiry fits the 16 bits it is stored in.     *)
DhcpTypeOK ==
  /\ lease \in [Slots -> [mac : Devices \cup {NoMac}, expiry : 0 .. TickMod \div Grain - 1]]
  /\ ticks \in Nat
  /\ net \subseteq Datagram
  /\ device \in [Devices -> [state : {"init", "selecting", "requesting", "bound"},
                             ip : Slots \cup {NoIp}, sent : Nat]]
  /\ granted \in [Slots -> Nat]

(* No address is in use by two devices at once, whatever is lost, repeated,       *)
(* delayed or forgotten (dhcpserver.c:229-233, 260-268).                          *)
NoTwoHolders ==
  \A d, e \in Devices : d # e /\ Holds(d) /\ Holds(e) => device[d].ip # device[e].ip

(* The 16 bits of an expiry tell a lease that runs from one that is over by more   *)
(* than what they cut off, for half the timer's range: across its wraps a lease   *)
(* that is over is not revived before then (dhcpserver.c:229-230, 270).           *)
ExpiryExact ==
  \A s \in Slots : lease[s].mac # NoMac =>
    /\ ticks <= granted[s] + LeaseTime => ~Expired(s)
    /\ ticks \in granted[s] + LeaseTime + Grain .. granted[s] + LeaseTime + TickMod \div 2
         => Expired(s)

(* No device is offered an address that another one holds (dhcpserver.c:216-241). *)
OffersAreFree ==
  [][\A m \in net' \ net : \A d \in Devices \ {m.mac} :
       m.type = "OFFER" /\ Holds(d) => device[d].ip # m.ip]_dhcpVars
=============================================================================
