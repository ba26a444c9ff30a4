---------------------------- MODULE DhcpServerProofs ----------------------------
(* TLAPS proofs about DhcpServer, for any devices, number of addresses, lease     *)
(* time and width of the timer.                                                   *)
EXTENDS DhcpServer, TLAPS

-----------------------------------------------------------------------------
(* Arithmetic of the 16-bit expiry.                                            *)

LEMMA DivMod ==
  ASSUME NEW n \in Nat \ {0}, NEW x \in Int
  PROVE  /\ x % n \in 0 .. n - 1 /\ x \div n \in Int
         /\ x = n * (x \div n) + (x % n)
  OBVIOUS

LEMMA ModUnique ==
  ASSUME NEW n \in Nat \ {0}, NEW y \in 0 .. n - 1, NEW k \in Int
  PROVE  (y + n * k) % n = y
  OBVIOUS

StoredExpiry(end) == (end % TickMod) \div Grain
TimeLeft(end, t) == (StoredExpiry(end) * Grain + Grain - 1 - (t % TickMod)) % TickMod

(* What is stored of the end of a lease, less the timer, is the time left, less   *)
(* than Grain too much, up to multiples of TickMod.                              *)
StoredTimeLeft(end, t) ==
  \E r \in 0 .. Grain - 1, k \in Int :
    StoredExpiry(end) * Grain + Grain - 1 - (t % TickMod) = (end - t + r) + TickMod * k

LEMMA TimeLeftIs ==
  ASSUME DhcpAssumption, NEW end \in Nat, NEW t \in Nat PROVE StoredTimeLeft(end, t)
<1> DEFINE low == end % TickMod
           r == Grain - 1 - (low % Grain)
           k == (t \div TickMod) - (end \div TickMod)
<1>1. TickMod \in Nat \ {0} /\ Grain \in Nat \ {0}
  BY DEF DhcpAssumption
<1>2. low \in Int /\ end \div TickMod \in Int /\ end = TickMod * (end \div TickMod) + low
  BY <1>1, DivMod
<1>3. /\ t % TickMod \in Int /\ t \div TickMod \in Int
      /\ t = TickMod * (t \div TickMod) + (t % TickMod)
  BY <1>1, DivMod
<1>4. /\ low % Grain \in 0 .. Grain - 1 /\ low \div Grain \in Int
      /\ low = Grain * (low \div Grain) + (low % Grain)
  BY <1>1, <1>2, DivMod
<1>5. r \in 0 .. Grain - 1 /\ k \in Int
  BY <1>1, <1>2, <1>3, <1>4
<1>6. (low \div Grain) * Grain = low - (low % Grain)
  BY <1>1, <1>2, <1>4
<1>7. TickMod * k = TickMod * (t \div TickMod) - TickMod * (end \div TickMod)
  BY <1>1, <1>2, <1>3
<1>8. (low \div Grain) * Grain + Grain - 1 - (t % TickMod) = (end - t + r) + TickMod * k
  <2> HIDE DEF low
  <2>1. TickMod * (t \div TickMod) = t - (t % TickMod) /\ TickMod * (end \div TickMod) = end - low
    BY <1>1, <1>2, <1>3
  <2>2. TickMod * k = t - (t % TickMod) - (end - low)
    BY <1>7, <2>1
  <2> HIDE DEF k
  <2> QED
    BY <1>1, <1>2, <1>3, <1>4, <1>6, <2>2
<1> QED
  BY <1>5, <1>8 DEF StoredExpiry, StoredTimeLeft

LEMMA TimeLeftIsInt ==
  ASSUME DhcpAssumption, NEW end \in Nat, NEW t \in Nat
  PROVE  TimeLeft(end, t) \in Int
<1>1. TickMod \in Nat \ {0} /\ Grain \in Nat \ {0}
  BY DEF DhcpAssumption
<1>2. end % TickMod \in Int /\ t % TickMod \in Int
  BY <1>1, DivMod
<1>3. StoredExpiry(end) \in Int
  BY <1>1, <1>2, DivMod DEF StoredExpiry
<1>4. StoredExpiry(end) * Grain + Grain - 1 - (t % TickMod) \in Int
  BY <1>1, <1>2, <1>3
<1> QED
  BY <1>1, <1>4, DivMod DEF TimeLeft

(* While the lease runs the difference is small ...                             *)
LEMMA RunningIsNotExpired ==
  ASSUME DhcpAssumption, NEW end \in Nat, NEW t \in Nat, t <= end, end <= t + LeaseTime
  PROVE  TimeLeft(end, t) < TickMod \div 2
<1>1. /\ TickMod \in Nat \ {0} /\ Grain \in Nat \ {0} /\ LeaseTime \in Nat
      /\ LeaseTime + Grain <= TickMod \div 2
  BY DEF DhcpAssumption
<1>2. PICK r \in 0 .. Grain - 1, k \in Int :
        StoredExpiry(end) * Grain + Grain - 1 - (t % TickMod) = (end - t + r) + TickMod * k
  <2>1. StoredTimeLeft(end, t)
    BY TimeLeftIs
  <2> QED  BY <2>1, Zenon DEF StoredTimeLeft
<1> DEFINE y == end - t + r
<1>3. y \in 0 .. TickMod - 1 /\ y < TickMod \div 2
  BY <1>1
<1>4. (y + TickMod * k) % TickMod = y
  BY <1>1, <1>3, ModUnique
<1>5. TimeLeft(end, t) = (y + TickMod * k) % TickMod
  BY <1>2 DEF TimeLeft
<1> QED
  BY <1>3, <1>4, <1>5

(* ... and after it, for half the range of the timer, it is large.              *)
LEMMA OverIsExpired ==
  ASSUME DhcpAssumption, NEW end \in Nat, NEW t \in Nat,
         end + Grain <= t, t <= end + (TickMod \div 2)
  PROVE  TimeLeft(end, t) >= TickMod \div 2
<1>1. TickMod \in Nat \ {0} /\ Grain \in Nat \ {0}
  BY DEF DhcpAssumption
<1>2. PICK r \in 0 .. Grain - 1, k \in Int :
        StoredExpiry(end) * Grain + Grain - 1 - (t % TickMod) = (end - t + r) + TickMod * k
  <2>1. StoredTimeLeft(end, t)
    BY TimeLeftIs
  <2> QED  BY <2>1, Zenon DEF StoredTimeLeft
<1> DEFINE y == end - t + r + TickMod
<1>3. y \in 0 .. TickMod - 1 /\ y >= TickMod \div 2
  BY <1>1
<1>4. (end - t + r) + TickMod * k = y + TickMod * (k - 1) /\ k - 1 \in Int
  BY <1>1
<1>5. (y + TickMod * (k - 1)) % TickMod = y
  BY <1>1, <1>3, <1>4, ModUnique
<1>6. TimeLeft(end, t) = (y + TickMod * (k - 1)) % TickMod
  BY <1>2, <1>4 DEF TimeLeft
<1> QED
  BY <1>3, <1>5, <1>6

LEMMA StoredExpiryFits ==
  ASSUME DhcpAssumption, NEW end \in Nat
  PROVE  StoredExpiry(end) \in 0 .. (TickMod \div Grain) - 1
<1>1. TickMod \in Nat \ {0} /\ Grain \in Nat \ {0} /\ TickMod % Grain = 0
  BY DEF DhcpAssumption
<1> DEFINE low == end % TickMod
           q == low \div Grain
           n == TickMod \div Grain
<1>2. low \in 0 .. TickMod - 1
  BY <1>1, DivMod
<1> HIDE DEF low
<1>3. q \in Int /\ low % Grain \in 0 .. Grain - 1 /\ low = Grain * q + (low % Grain)
  <2>1. low \in Int
    BY <1>1, <1>2
  <2> QED
    BY <1>1, <2>1, DivMod
<1>4. n \in Int /\ TickMod = Grain * n
  BY <1>1, DivMod
<1> HIDE DEF q, n
<1>5. Grain * q < Grain * n /\ Grain * q > Grain * (0 - 1)
  BY <1>1, <1>2, <1>3, <1>4
<1>6. q < n /\ q > 0 - 1
  BY <1>1, <1>3, <1>4, <1>5
<1> QED
  BY <1>3, <1>4, <1>6 DEF StoredExpiry, low, q, n

(* What a device or the server sends is a datagram.                             *)
LEMMA MessageFits ==
  ASSUME NEW type \in {"DISCOVER", "OFFER", "REQUEST", "ACK"}, NEW d \in Devices,
         NEW ip \in Slots \cup {NoIp}
  PROVE  Message(type, d, ip) \in Datagram
  BY DEF Message, Datagram

-----------------------------------------------------------------------------
LEMMA DhcpTypeInit ==
  ASSUME DhcpInit
  PROVE  DhcpTypeOK
<1>1. 0 \in 0 .. (TickMod \div Grain) - 1
  <2>1. 0 \div Grain = 0 /\ 0 % TickMod = 0
    BY DhcpAssumption DEF DhcpAssumption
  <2> QED
    BY <2>1, DhcpAssumption, StoredExpiryFits DEF StoredExpiry
<1> QED
  BY <1>1, DhcpAssumption DEF DhcpInit, DhcpTypeOK, DhcpAssumption, Free, Unused

(* Every step keeps the types.                                                 *)
LEMMA DhcpTypeStep ==
  ASSUME DhcpTypeOK, [DhcpNext]_dhcpVars
  PROVE  DhcpTypeOK'
<1> USE DEF DhcpTypeOK
<1>a. expiry_of_now \in 0 .. (TickMod \div Grain) - 1
  <2>1. ticks + LeaseTime \in Nat
    BY DhcpAssumption DEF DhcpAssumption
  <2> QED
    BY <2>1, DhcpAssumption, StoredExpiryFits DEF StoredExpiry, expiry_of_now
<1>b. 0 \in 0 .. (TickMod \div Grain) - 1
  <2>1. 0 \div Grain = 0 /\ 0 % TickMod = 0
    BY DhcpAssumption DEF DhcpAssumption
  <2> QED
    BY <2>1, DhcpAssumption, StoredExpiryFits DEF StoredExpiry
<1>1. ASSUME NEW m \in net, Discover(m) PROVE DhcpTypeOK'
  <2>1. lease' \in [Slots -> [mac : Devices \cup {NoMac}, expiry : 0 .. (TickMod \div Grain) - 1]]
    BY <1>1 DEF Discover, Reclaimed
  <2>2. PICK yi \in Slots : Reply(m, "OFFER", yi)
    BY <1>1 DEF Discover
  <2>3. Message("OFFER", m.mac, yi) \in Datagram
    BY MessageFits DEF Datagram
  <2>4. net' \subseteq net \cup {Message("OFFER", m.mac, yi)}
    BY <2>2 DEF Reply
  <2>5. net' \subseteq Datagram
    BY <2>3, <2>4
  <2> QED
    BY <1>1, <2>1, <2>5 DEF Discover
<1>2. ASSUME NEW m \in net, Request(m) PROVE DhcpTypeOK'
  <2>1. m.mac \in Devices /\ m.ip \in Slots
    BY <1>2 DEF Request, Datagram
  <2>2. lease' \in [Slots -> [mac : Devices \cup {NoMac}, expiry : 0 .. (TickMod \div Grain) - 1]]
    BY <1>2, <1>a, <2>1 DEF Request
  <2>3. net' \subseteq Datagram
    <3>1. Message("ACK", m.mac, m.ip) \in Datagram
      BY <2>1, MessageFits
    <3>2. net' \subseteq net \cup {Message("ACK", m.mac, m.ip)}
      BY <1>2 DEF Request, Reply
    <3> QED
      BY <3>1, <3>2
  <2> QED
    BY <1>2, <2>1, <2>2, <2>3 DEF Request
<1>3. ASSUME NEW d \in Devices, NEW n, n \in Datagram, NewTransaction(d, n)
      PROVE  net' \subseteq Datagram
  <2>1. \A x \in Datagram : [x EXCEPT !.stale = TRUE] \in Datagram
    BY DEF Datagram
  <2>2. PICK late \in SUBSET net :
          net' = {x \in net : x.mac # d} \cup {[x EXCEPT !.stale = TRUE] : x \in late} \cup {n}
    BY <1>3 DEF NewTransaction, Delayed
  <2> QED
    BY <1>3, <2>1, <2>2
<1>4. ASSUME NEW d \in Devices, SendDiscover(d) PROVE DhcpTypeOK'
  <2>1. Message("DISCOVER", d, NoIp) \in Datagram
    BY DEF Message, Datagram
  <2>2. net' \subseteq Datagram
    BY <1>3, <1>4, <2>1 DEF SendDiscover
  <2> QED
    BY <1>4, <2>2 DEF SendDiscover
<1>5. ASSUME NEW d \in Devices, SendRemembered(d) PROVE DhcpTypeOK'
  <2>1. Message("REQUEST", d, device[d].ip) \in Datagram
    BY DEF Message, Datagram
  <2>2. net' \subseteq Datagram
    BY <1>3, <1>5, <2>1 DEF SendRemembered
  <2> QED
    BY <1>5, <2>2 DEF SendRemembered, Requesting
<1>6. ASSUME NEW d \in Devices, TakeOffer(d) PROVE DhcpTypeOK'
  <2>1. PICK m \in net :
          /\ m.type = "OFFER" /\ m.mac = d
          /\ device' = [device EXCEPT ![d] = Requesting(m.ip)]
          /\ net' = (net \ Answered("OFFER", m.mac)) \cup {Message("REQUEST", d, m.ip)}
          /\ UNCHANGED <<lease, ticks, granted>>
    BY <1>6 DEF TakeOffer, Answered
  <2>2. m.ip \in Slots \cup {NoIp}
    BY DEF Datagram
  <2>3. Message("REQUEST", d, m.ip) \in Datagram
    BY <2>2, MessageFits
  <2>4. net' \subseteq Datagram
    BY <2>1, <2>3
  <2> QED
    BY <2>1, <2>2, <2>4 DEF Requesting
<1>7. ASSUME NEW d \in Devices, TakeAck(d) PROVE DhcpTypeOK'
  BY <1>7 DEF TakeAck, Answered
<1>8. ASSUME NEW d \in Devices, GiveUp(d) PROVE DhcpTypeOK'
  BY <1>8 DEF GiveUp, Unused
<1>9. CASE DhcpTick
  BY <1>9 DEF DhcpTick
<1>10. CASE Restart
  BY <1>10, <1>b, DhcpAssumption DEF Restart, Free, Unused, DhcpAssumption
<1>11. CASE UNCHANGED dhcpVars
  BY <1>11 DEF dhcpVars
<1> QED
  BY <1>1, <1>2, <1>4, <1>5, <1>6, <1>7, <1>8, <1>9, <1>10, <1>11 DEF DhcpNext, dhcp_server_process

(* Every variable keeps its type; an expiry fits the 16 bits it is stored in.     *)
THEOREM DhcpTypeCorrect == DhcpSpec => []DhcpTypeOK
<1>1. DhcpInit => DhcpTypeOK
  BY DhcpTypeInit
<1>2. DhcpTypeOK /\ [DhcpNext]_dhcpVars => DhcpTypeOK'
  BY DhcpTypeStep
<1> QED
  BY <1>1, <1>2, PTL DEF DhcpSpec

-----------------------------------------------------------------------------
(* The inductive invariant.  NoTwoHolders is not inductive: it must be known that *)
(* whoever holds an address is its owner in the table, already while the ACK is   *)
(* on its way, and that the entry cannot be found expired before.                 *)

Acknowledged(d) == \E m \in net : m.type = "ACK" /\ m.mac = d /\ m.ip = device[d].ip
Claims(d) ==
  /\ device[d].state = "bound" \/ (device[d].state = "requesting" /\ Acknowledged(d))
  /\ ticks < device[d].sent + LeaseTime

History ==
  \A s \in Slots :
    /\ granted[s] <= ticks
    /\ lease[s].mac # NoMac => lease[s].expiry = StoredExpiry(granted[s] + LeaseTime)
AcksAwaited == \A m \in net : m.type = "ACK" => device[m.mac].state = "requesting"
OffersNameSlots == \A m \in net : m.type = "OFFER" => m.ip \in Slots
Addressed ==
  \A d \in Devices : device[d].state \in {"requesting", "bound"} =>
    device[d].ip \in Slots /\ device[d].sent <= ticks
ClaimsRegistered ==
  \A d \in Devices : Claims(d) =>
    lease[device[d].ip].mac = d /\ device[d].sent <= granted[device[d].ip]

DhcpInv ==
  DhcpTypeOK /\ History /\ AcksAwaited /\ OffersNameSlots /\ Addressed /\ ClaimsRegistered

(* Expired reads the time left of what was stored at the last acknowledgement.    *)
LEMMA ExpiredIs ==
  ASSUME DhcpAssumption, DhcpTypeOK, History, NEW s \in Slots, lease[s].mac # NoMac
  PROVE  Expired(s) <=> TimeLeft(granted[s] + LeaseTime, ticks) >= TickMod \div 2
  BY DEF History, Expired, TimeLeft, cyw43_hal_ticks_ms

LEMMA ClaimedIsNotExpired ==
  ASSUME DhcpAssumption, DhcpInv, NEW d \in Devices, Claims(d)
  PROVE  ~Expired(device[d].ip)
<1> DEFINE s == device[d].ip
<1>1. /\ s \in Slots /\ lease[s].mac = d /\ d # NoMac
      /\ device[d].sent <= granted[s] /\ ticks < device[d].sent + LeaseTime
  BY DEF DhcpInv, ClaimsRegistered, Addressed, Claims, DhcpAssumption
<1>2. /\ granted[s] \in Nat /\ ticks \in Nat /\ LeaseTime \in Nat /\ granted[s] <= ticks
      /\ device[d].sent \in Nat
  BY <1>1 DEF DhcpInv, DhcpTypeOK, History, DhcpAssumption
<1> HIDE DEF s
<1>3. /\ granted[s] + LeaseTime \in Nat /\ ticks <= granted[s] + LeaseTime
      /\ granted[s] + LeaseTime <= ticks + LeaseTime
  BY <1>1, <1>2
<1>4. TimeLeft(granted[s] + LeaseTime, ticks) < TickMod \div 2
  BY <1>2, <1>3, RunningIsNotExpired
<1>5. Expired(s) <=> TimeLeft(granted[s] + LeaseTime, ticks) >= TickMod \div 2
  BY <1>1, ExpiredIs DEF DhcpInv
<1>6. TimeLeft(granted[s] + LeaseTime, ticks) \in Int /\ TickMod \div 2 \in Int
  <2>1. TickMod \div 2 \in Int
    BY DEF DhcpAssumption
  <2> QED
    BY <1>2, <1>3, <2>1, TimeLeftIsInt
<1> QED
  BY <1>4, <1>5, <1>6 DEF s

(* A claim that survives a step that adds no ACK and leaves the owner's entry,    *)
(* its last acknowledgement and the device alone, is registered afterwards.       *)
LEMMA ClaimsKept ==
  ASSUME DhcpAssumption, DhcpInv, NEW d \in Devices, Claims(d)',
         device'[d] = device[d], ticks' \in Nat, ticks' >= ticks,
         \A m \in net' : m.type = "ACK" /\ m.mac = d => m \in net,
         \A s \in Slots : lease[s].mac = d /\ ~Expired(s) =>
           lease'[s] = lease[s] /\ granted'[s] = granted[s]
  PROVE  lease'[device'[d].ip].mac = d /\ device'[d].sent <= granted'[device'[d].ip]
<1>1. Claims(d)
  <2>1. Acknowledged(d)' => Acknowledged(d)
    BY DEF Acknowledged
  <2>2. /\ ticks \in Nat /\ LeaseTime \in Nat /\ device[d].sent \in Nat
    BY DEF DhcpInv, DhcpTypeOK, DhcpAssumption
  <2> QED
    BY <2>1, <2>2 DEF Claims
<1>2. /\ device[d].ip \in Slots /\ lease[device[d].ip].mac = d
      /\ device[d].sent <= granted[device[d].ip]
  BY <1>1 DEF DhcpInv, ClaimsRegistered, Addressed, Claims
<1>3. ~Expired(device[d].ip)
  BY <1>1, ClaimedIsNotExpired
<1> QED
  BY <1>2, <1>3

-----------------------------------------------------------------------------
(* The server's two answers preserve the invariant.                             *)

LEMMA DiscoverKeepsInv ==
  ASSUME DhcpAssumption, DhcpInv, DhcpTypeOK', NEW m \in net, Discover(m)
  PROVE  DhcpInv'
<1>1. PICK yi \in Slots :
        /\ lease' = Reclaimed(m.mac)
        /\ Reply(m, "OFFER", yi)
        /\ UNCHANGED <<ticks, device, granted>>
  BY DEF Discover
<1>2. net' \subseteq net \cup {Message("OFFER", m.mac, yi)}
  BY <1>1 DEF Reply
<1>3. \A s \in Slots : lease'[s] = lease[s] \/ (Expired(s) /\ lease'[s].mac = NoMac)
  BY <1>1 DEF Reclaimed, DhcpInv, DhcpTypeOK
<1>4. \A n \in net' : n.type = "ACK" => n \in net
  BY <1>2 DEF Message
<1>5. History'
  BY <1>1, <1>3 DEF DhcpInv, History
<1>6. AcksAwaited'
  BY <1>1, <1>4 DEF DhcpInv, AcksAwaited
<1>7. OffersNameSlots'
  BY <1>2 DEF DhcpInv, OffersNameSlots, Message
<1>8. Addressed'
  BY <1>1 DEF DhcpInv, Addressed
<1>9. ClaimsRegistered'
  <2> SUFFICES ASSUME NEW d \in Devices, Claims(d)'
               PROVE  lease'[device'[d].ip].mac = d /\ device'[d].sent <= granted'[device'[d].ip]
    BY DEF ClaimsRegistered
  <2>1. ticks' \in Nat /\ ticks' >= ticks /\ device'[d] = device[d]
    BY <1>1 DEF DhcpInv, DhcpTypeOK
  <2>2. \A s \in Slots : lease[s].mac = d /\ ~Expired(s) =>
          lease'[s] = lease[s] /\ granted'[s] = granted[s]
    BY <1>1, <1>3
  <2> QED
    BY <1>4, <2>1, <2>2, ClaimsKept
<1> QED
  BY <1>5, <1>6, <1>7, <1>8, <1>9 DEF DhcpInv

LEMMA RequestKeepsInv ==
  ASSUME DhcpAssumption, DhcpInv, DhcpTypeOK', NEW m \in net, Request(m)
  PROVE  DhcpInv'
<1>1. /\ m.ip \in Slots
      /\ lease[m.ip].mac \in {m.mac, NoMac}
      /\ lease' = [lease EXCEPT ![m.ip] = [mac |-> m.mac, expiry |-> expiry_of_now]]
      /\ granted' = [granted EXCEPT ![m.ip] = ticks]
      /\ Reply(m, "ACK", m.ip)
      /\ UNCHANGED <<ticks, device>>
  BY DEF Request, MayUse
<1>2. /\ m.mac \in Devices /\ ticks \in Nat
      /\ lease \in [Slots -> [mac : Devices \cup {NoMac}, expiry : 0 .. (TickMod \div Grain) - 1]]
      /\ granted \in [Slots -> Nat]
  BY DEF DhcpInv, DhcpTypeOK, Datagram
<1>3. /\ lease'[m.ip].mac = m.mac /\ lease'[m.ip].expiry = expiry_of_now /\ granted'[m.ip] = ticks
      /\ \A s \in Slots \ {m.ip} : lease'[s] = lease[s] /\ granted'[s] = granted[s]
  BY <1>1, <1>2
<1>4. \A n \in net' : n \in net \/ (Awaited(m, "ACK") /\ n = Message("ACK", m.mac, m.ip))
  BY <1>1 DEF Reply
<1>5. History'
  <2>1. expiry_of_now = StoredExpiry(ticks + LeaseTime)
    BY DEF expiry_of_now, StoredExpiry
  <2> QED
    BY <1>1, <1>2, <1>3, <2>1 DEF DhcpInv, History
<1>6. AcksAwaited'
  BY <1>1, <1>4 DEF DhcpInv, AcksAwaited, Awaited, Message
<1>7. OffersNameSlots'
  BY <1>4 DEF DhcpInv, OffersNameSlots, Message
<1>8. Addressed'
  BY <1>1 DEF DhcpInv, Addressed
<1>9. ClaimsRegistered'
  <2> SUFFICES ASSUME NEW d \in Devices, Claims(d)'
               PROVE  lease'[device'[d].ip].mac = d /\ device'[d].sent <= granted'[device'[d].ip]
    BY DEF ClaimsRegistered
  <2>1. device'[d] = device[d] /\ device[d].ip \in Slots /\ device[d].sent <= ticks /\ d # NoMac
    BY <1>1 DEF DhcpInv, Addressed, Claims, DhcpAssumption
  <2>2. CASE d = m.mac /\ device[d].ip = m.ip
    BY <1>3, <2>1, <2>2
  <2>3. CASE ~(d = m.mac /\ device[d].ip = m.ip)
    <3>1. Acknowledged(d)' => Acknowledged(d)
      BY <1>4, <2>1, <2>3 DEF Acknowledged, Message
    <3>2. Claims(d)
      BY <1>1, <3>1 DEF Claims
    <3>3. lease[device[d].ip].mac = d /\ device[d].sent <= granted[device[d].ip]
      BY <3>2 DEF DhcpInv, ClaimsRegistered
    <3>4. device[d].ip # m.ip
      BY <1>1, <2>1, <2>3, <3>3
    <3> QED
      BY <1>3, <2>1, <3>3, <3>4
  <2> QED
    BY <2>2, <2>3
<1> QED
  BY <1>5, <1>6, <1>7, <1>8, <1>9 DEF DhcpInv

-----------------------------------------------------------------------------
(* What a device does leaves the table, the history and the timer alone, and with *)
(* them the other devices and the answers on their way to them.                   *)

LEMMA DeviceKeepsInv ==
  ASSUME DhcpAssumption, DhcpInv, DhcpTypeOK', NEW d \in Devices,
         UNCHANGED <<lease, ticks, granted>>,
         \A e \in Devices \ {d} : device'[e] = device[e],
         \A m \in net' : m.type \in {"OFFER", "ACK"} => m \in net,
         \A m \in net' : m.type = "ACK" /\ m.mac = d => device'[d].state = "requesting",
         device'[d].state \in {"requesting", "bound"} =>
           device'[d].ip \in Slots /\ device'[d].sent <= ticks,
         Claims(d)' => Claims(d) /\ device'[d].ip = device[d].ip /\ device'[d].sent = device[d].sent
  PROVE  DhcpInv'
<1>1. History'
  BY DEF DhcpInv, History
<1>2. AcksAwaited'
  <2> SUFFICES ASSUME NEW m \in net', m.type = "ACK" PROVE device'[m.mac].state = "requesting"
    BY DEF AcksAwaited
  <2>1. m \in net /\ m.mac \in Devices
    BY DEF DhcpInv, DhcpTypeOK, Datagram
  <2> QED
    BY <2>1 DEF DhcpInv, AcksAwaited
<1>3. OffersNameSlots'
  BY DEF DhcpInv, OffersNameSlots
<1>4. Addressed'
  BY DEF DhcpInv, Addressed
<1>5. ClaimsRegistered'
  <2> SUFFICES ASSUME NEW e \in Devices, Claims(e)'
               PROVE  lease'[device'[e].ip].mac = e /\ device'[e].sent <= granted'[device'[e].ip]
    BY DEF ClaimsRegistered
  <2>1. CASE e = d
    BY <2>1 DEF DhcpInv, ClaimsRegistered
  <2>2. CASE e # d
    <3>1. Acknowledged(e)' => Acknowledged(e)
      BY <2>2 DEF Acknowledged
    <3>2. Claims(e)
      BY <2>2, <3>1 DEF Claims
    <3> QED
      BY <2>2, <3>2 DEF DhcpInv, ClaimsRegistered
  <2> QED
    BY <2>1, <2>2
<1> QED
  BY <1>1, <1>2, <1>3, <1>4, <1>5 DEF DhcpInv

(* A new transaction leaves no answer to the device on its way.                   *)
LEMMA NewTransactionDrops ==
  ASSUME NEW d, NEW n, n.type \notin {"OFFER", "ACK"}, net \subseteq Datagram, NewTransaction(d, n)
  PROVE  \A m \in net' : m.type \in {"OFFER", "ACK"} => m \in net /\ m.mac # d
<1>1. \A x \in Datagram : [x EXCEPT !.stale = TRUE].type = x.type
  BY DEF Datagram
<1>2. PICK late \in SUBSET Delayed(d) :
        net' = {x \in net : x.mac # d} \cup {[x EXCEPT !.stale = TRUE] : x \in late} \cup {n}
  BY DEF NewTransaction
<1>3. \A x \in late : x \in Datagram /\ x.type \notin {"OFFER", "ACK"}
  BY <1>2 DEF Delayed
<1> SUFFICES ASSUME NEW m \in net', m.type \in {"OFFER", "ACK"} PROVE m \in net /\ m.mac # d
  OBVIOUS
<1>4. CASE \E x \in late : m = [x EXCEPT !.stale = TRUE]
  BY <1>1, <1>3, <1>4
<1>5. m # n
  OBVIOUS
<1> QED
  BY <1>2, <1>4, <1>5

LEMMA SendDiscoverKeepsInv ==
  ASSUME DhcpAssumption, DhcpInv, DhcpTypeOK', NEW d \in Devices, SendDiscover(d)
  PROVE  DhcpInv'
<1>1. \A m \in net' : m.type \in {"OFFER", "ACK"} => m \in net /\ m.mac # d
  <2>1. NewTransaction(d, Message("DISCOVER", d, NoIp)) /\ net \subseteq Datagram
    BY DEF SendDiscover, DhcpInv, DhcpTypeOK
  <2>2. Message("DISCOVER", d, NoIp).type \notin {"OFFER", "ACK"}
    BY DEF Message
  <2> QED
    BY <2>1, <2>2, NewTransactionDrops
<1>2. /\ device'[d].state = "selecting"
      /\ \A e \in Devices \ {d} : device'[e] = device[e]
      /\ UNCHANGED <<lease, ticks, granted>>
  BY DEF SendDiscover, DhcpInv, DhcpTypeOK
<1>3. ~Claims(d)'
  BY <1>2 DEF Claims
<1> QED
  BY <1>1, <1>2, <1>3, DeviceKeepsInv

LEMMA SendRememberedKeepsInv ==
  ASSUME DhcpAssumption, DhcpInv, DhcpTypeOK', NEW d \in Devices, SendRemembered(d)
  PROVE  DhcpInv'
<1>1. \A m \in net' : m.type \in {"OFFER", "ACK"} => m \in net /\ m.mac # d
  <2>1. NewTransaction(d, Message("REQUEST", d, device[d].ip)) /\ net \subseteq Datagram
    BY DEF SendRemembered, DhcpInv, DhcpTypeOK
  <2>2. Message("REQUEST", d, device[d].ip).type \notin {"OFFER", "ACK"}
    BY DEF Message
  <2> QED
    BY <2>1, <2>2, NewTransactionDrops
<1>2. /\ device'[d] = Requesting(device[d].ip) /\ device[d].ip # NoIp
      /\ \A e \in Devices \ {d} : device'[e] = device[e]
      /\ UNCHANGED <<lease, ticks, granted>>
  BY DEF SendRemembered, DhcpInv, DhcpTypeOK
<1>3. device'[d].ip \in Slots /\ device'[d].sent <= ticks /\ device'[d].state = "requesting"
  BY <1>2 DEF Requesting, DhcpInv, DhcpTypeOK
<1>4. ~Claims(d)'
  BY <1>1, <1>3 DEF Claims, Acknowledged
<1> QED
  BY <1>1, <1>2, <1>3, <1>4, DeviceKeepsInv

LEMMA TakeOfferKeepsInv ==
  ASSUME DhcpAssumption, DhcpInv, DhcpTypeOK', NEW d \in Devices, TakeOffer(d)
  PROVE  DhcpInv'
<1>1. PICK m \in net :
        /\ m.type = "OFFER" /\ device[d].state = "selecting"
        /\ device' = [device EXCEPT ![d] = Requesting(m.ip)]
        /\ net' = (net \ Answered("OFFER", m.mac)) \cup {Message("REQUEST", d, m.ip)}
        /\ UNCHANGED <<lease, ticks, granted>>
  BY DEF TakeOffer, Answered
<1>2. /\ device'[d] = Requesting(m.ip)
      /\ \A e \in Devices \ {d} : device'[e] = device[e]
  BY <1>1 DEF DhcpInv, DhcpTypeOK
<1>3. device'[d].ip \in Slots /\ device'[d].sent <= ticks /\ device'[d].state = "requesting"
  BY <1>1, <1>2 DEF Requesting, DhcpInv, DhcpTypeOK, OffersNameSlots
<1>4. \A n \in net' : n.type \in {"OFFER", "ACK"} => n \in net
  BY <1>1 DEF Message
<1>5. \A n \in net' : n.type = "ACK" => n.mac # d
  BY <1>1, <1>4 DEF DhcpInv, AcksAwaited
<1>6. ~Claims(d)'
  BY <1>3, <1>5 DEF Claims, Acknowledged
<1> QED
  BY <1>1, <1>2, <1>3, <1>4, <1>5, <1>6, DeviceKeepsInv

LEMMA TakeAckKeepsInv ==
  ASSUME DhcpAssumption, DhcpInv, DhcpTypeOK', NEW d \in Devices, TakeAck(d)
  PROVE  DhcpInv'
<1>1. /\ device[d].state = "requesting" /\ Acknowledged(d)
      /\ device' = [device EXCEPT ![d].state = "bound"]
      /\ net' = net \ Answered("ACK", d)
      /\ UNCHANGED <<lease, ticks, granted>>
  BY DEF TakeAck, Answered, Acknowledged
<1>2. /\ device'[d].ip = device[d].ip /\ device'[d].sent = device[d].sent
      /\ \A e \in Devices \ {d} : device'[e] = device[e]
  BY <1>1 DEF DhcpInv, DhcpTypeOK
<1>3. device'[d].ip \in Slots /\ device'[d].sent <= ticks
  BY <1>1, <1>2 DEF DhcpInv, Addressed
<1>4. \A m \in net' : m \in net /\ ~(m.type = "ACK" /\ m.mac = d)
  BY <1>1 DEF Answered
<1>5. Claims(d)' => Claims(d)
  BY <1>1, <1>2 DEF Claims
<1> QED
  BY <1>1, <1>2, <1>3, <1>4, <1>5, DeviceKeepsInv

LEMMA GiveUpKeepsInv ==
  ASSUME DhcpAssumption, DhcpInv, DhcpTypeOK', NEW d \in Devices, GiveUp(d)
  PROVE  DhcpInv'
<1>1. /\ device[d].state = "bound" /\ device'[d].state = "init"
      /\ \A e \in Devices \ {d} : device'[e] = device[e]
      /\ UNCHANGED <<lease, ticks, net, granted>>
  BY DEF GiveUp, Unused, DhcpInv, DhcpTypeOK
<1>2. \A m \in net' : m.type = "ACK" => m.mac # d
  BY <1>1 DEF DhcpInv, AcksAwaited
<1>3. ~Claims(d)'
  BY <1>1 DEF Claims
<1> QED
  BY <1>1, <1>2, <1>3, DeviceKeepsInv

-----------------------------------------------------------------------------
(* The invariant holds at the start and is kept by every step.                   *)

LEMMA DhcpInvInit ==
  ASSUME DhcpInit
  PROVE  DhcpInv
<1>1. DhcpTypeOK
  BY DhcpTypeInit
<1>2. History /\ AcksAwaited /\ OffersNameSlots
  BY <1>1 DEF DhcpInit, DhcpTypeOK, Free, History, AcksAwaited, OffersNameSlots
<1>3. Addressed /\ ClaimsRegistered
  BY DEF DhcpInit, Unused, Addressed, ClaimsRegistered, Claims
<1> QED
  BY <1>1, <1>2, <1>3 DEF DhcpInv

LEMMA DhcpInvStep ==
  ASSUME DhcpInv, [DhcpNext]_dhcpVars
  PROVE  DhcpInv'
<1>1. DhcpTypeOK'
  BY DhcpTypeStep DEF DhcpInv
<1>2. ASSUME NEW m \in net, Discover(m) PROVE DhcpInv'
  BY <1>1, <1>2, DhcpAssumption, DiscoverKeepsInv
<1>3. ASSUME NEW m \in net, Request(m) PROVE DhcpInv'
  BY <1>1, <1>3, DhcpAssumption, RequestKeepsInv
<1>4. ASSUME NEW d \in Devices, SendDiscover(d) PROVE DhcpInv'
  BY <1>1, <1>4, DhcpAssumption, SendDiscoverKeepsInv
<1>5. ASSUME NEW d \in Devices, SendRemembered(d) PROVE DhcpInv'
  BY <1>1, <1>5, DhcpAssumption, SendRememberedKeepsInv
<1>6. ASSUME NEW d \in Devices, TakeOffer(d) PROVE DhcpInv'
  BY <1>1, <1>6, DhcpAssumption, TakeOfferKeepsInv
<1>7. ASSUME NEW d \in Devices, TakeAck(d) PROVE DhcpInv'
  BY <1>1, <1>7, DhcpAssumption, TakeAckKeepsInv
<1>8. ASSUME NEW d \in Devices, GiveUp(d) PROVE DhcpInv'
  BY <1>1, <1>8, DhcpAssumption, GiveUpKeepsInv
<1>9. CASE DhcpTick
  <2>1. ticks \in Nat /\ ticks' = ticks + 1 /\ UNCHANGED <<lease, net, device, granted>>
    BY <1>9 DEF DhcpTick, DhcpInv, DhcpTypeOK
  <2>2. History'
    BY <2>1 DEF DhcpInv, DhcpTypeOK, History
  <2>3. AcksAwaited' /\ OffersNameSlots'
    BY <2>1 DEF DhcpInv, AcksAwaited, OffersNameSlots
  <2>4. Addressed'
    BY <2>1 DEF DhcpInv, DhcpTypeOK, Addressed
  <2>5. \A d \in Devices : Claims(d)' => Claims(d)
    <3>1. \A d \in Devices : device[d].sent + LeaseTime \in Nat
      BY DhcpAssumption DEF DhcpInv, DhcpTypeOK, DhcpAssumption
    <3> QED
      BY <2>1, <3>1 DEF Claims, Acknowledged
  <2>6. ClaimsRegistered'
    BY <2>1, <2>5 DEF DhcpInv, ClaimsRegistered
  <2> QED
    BY <1>1, <2>2, <2>3, <2>4, <2>6 DEF DhcpInv
<1>10. CASE Restart
  <2>1. History' /\ AcksAwaited' /\ OffersNameSlots'
    BY <1>1, <1>10 DEF Restart, DhcpTypeOK, Free, History, AcksAwaited, OffersNameSlots
  <2>2. Addressed' /\ ClaimsRegistered'
    BY <1>10 DEF Restart, Unused, Addressed, ClaimsRegistered, Claims
  <2> QED
    BY <1>1, <2>1, <2>2 DEF DhcpInv
<1>11. CASE UNCHANGED dhcpVars
  BY <1>11 DEF dhcpVars, DhcpInv, DhcpTypeOK, History, AcksAwaited, OffersNameSlots,
               Addressed, ClaimsRegistered, Claims, Acknowledged
<1> QED
  BY <1>2, <1>3, <1>4, <1>5, <1>6, <1>7, <1>8, <1>9, <1>10, <1>11
     DEF DhcpNext, dhcp_server_process

LEMMA DhcpInvHolds == DhcpSpec => []DhcpInv
<1>1. DhcpInit => DhcpInv
  BY DhcpInvInit
<1>2. DhcpInv /\ [DhcpNext]_dhcpVars => DhcpInv'
  BY DhcpInvStep
<1> QED
  BY <1>1, <1>2, PTL DEF DhcpSpec

-----------------------------------------------------------------------------
(* No address is in use by two devices at once, whatever is lost, repeated,       *)
(* delayed or forgotten: both would be the owner in the table                     *)
(* (dhcpserver.c:229-233, 260-268).                                               *)
THEOREM NoTwoHoldersHolds == DhcpSpec => []NoTwoHolders
<1>1. DhcpInv => NoTwoHolders
  BY DEF DhcpInv, ClaimsRegistered, Claims, Holds, NoTwoHolders
<1> QED
  BY <1>1, DhcpInvHolds, PTL

(* The 16 bits of an expiry tell a lease that runs from one that is over by more   *)
(* than what they cut off, for half the timer's range (dhcpserver.c:229-230, 270). *)
THEOREM ExpiryExactHolds == DhcpSpec => []ExpiryExact
<1>1. DhcpInv => ExpiryExact
  <2> SUFFICES ASSUME DhcpInv, NEW s \in Slots, lease[s].mac # NoMac
               PROVE  /\ ticks <= granted[s] + LeaseTime => ~Expired(s)
                      /\ ticks \in granted[s] + LeaseTime + Grain
                                   .. granted[s] + LeaseTime + TickMod \div 2 => Expired(s)
    BY DEF ExpiryExact
  <2> DEFINE end == granted[s] + LeaseTime
  <2>1. /\ granted[s] \in Nat /\ ticks \in Nat /\ LeaseTime \in Nat /\ granted[s] <= ticks
        /\ TickMod \in Nat \ {0} /\ Grain \in Nat \ {0} /\ TickMod \div 2 \in Nat
    BY DhcpAssumption DEF DhcpInv, DhcpTypeOK, History, DhcpAssumption
  <2>2. end \in Nat /\ end <= ticks + LeaseTime
    BY <2>1
  <2>3. Expired(s) <=> TimeLeft(end, ticks) >= TickMod \div 2
    BY DhcpAssumption, ExpiredIs DEF DhcpInv
  <2>4. TimeLeft(end, ticks) \in Int
    BY <2>1, <2>2, DhcpAssumption, TimeLeftIsInt
  <2> HIDE DEF end
  <2>5. ticks <= end => ~Expired(s)
    BY <2>1, <2>2, <2>3, <2>4, DhcpAssumption, RunningIsNotExpired
  <2>6. end + Grain <= ticks /\ ticks <= end + (TickMod \div 2) => Expired(s)
    BY <2>1, <2>2, <2>3, DhcpAssumption, OverIsExpired
  <2> QED
    BY <2>1, <2>5, <2>6 DEF end
<1> QED
  BY <1>1, DhcpInvHolds, PTL

(* No device is offered an address that another one holds: what is offered is its *)
(* own in the table, or free, or found expired (dhcpserver.c:216-241).            *)
THEOREM OffersAreFreeHolds == DhcpSpec => OffersAreFree
<1> DEFINE OfferedIsFree ==
      \A m \in net' \ net : \A d \in Devices \ {m.mac} :
        m.type = "OFFER" /\ Holds(d) => device[d].ip # m.ip
<1>1. DhcpInv /\ [DhcpNext]_dhcpVars => [OfferedIsFree]_dhcpVars
  <2> SUFFICES ASSUME DhcpInv, [DhcpNext]_dhcpVars, NEW n \in net' \ net, n.type = "OFFER",
                      NEW d \in Devices \ {n.mac}, Holds(d)
               PROVE  device[d].ip # n.ip
    OBVIOUS
  <2>1. /\ device[d].ip \in Slots /\ lease[device[d].ip].mac = d /\ d # NoMac
        /\ ~Expired(device[d].ip)
    <3>1. Claims(d)
      BY DEF Holds, Claims
    <3> QED
      BY <3>1, DhcpAssumption, ClaimedIsNotExpired
         DEF DhcpInv, ClaimsRegistered, Addressed, Claims, DhcpAssumption
  <2>2. CASE \E m \in net : Discover(m)
    <3>1. PICK m \in net, yi \in Slots :
            /\ First(yi, IF Owned(m.mac) # {} THEN Owned(m.mac) ELSE Available(m.mac))
            /\ Reply(m, "OFFER", yi)
      BY <2>2 DEF Discover
    <3>2. n = Message("OFFER", m.mac, yi)
      BY <3>1 DEF Reply
    <3>3. lease[yi].mac = m.mac \/ lease[yi].mac = NoMac \/ Expired(yi)
      BY <3>1 DEF First, Owned, Available
    <3> QED
      BY <2>1, <3>2, <3>3 DEF Message
  <2>3. CASE ~ \E m \in net : Discover(m)
    <3>1. \A m \in net : Request(m) => FALSE
      BY DEF Request, Reply, Message
    <3>2. \A e \in Devices : SendDiscover(e) \/ SendRemembered(e) => FALSE
      <4>1. \A e \in Devices : \A x : x.type \notin {"OFFER", "ACK"} /\ NewTransaction(e, x) => FALSE
        BY NewTransactionDrops DEF DhcpInv, DhcpTypeOK
      <4> QED
        BY <4>1 DEF SendDiscover, SendRemembered, Message
    <3>3. \A e \in Devices : TakeOffer(e) \/ TakeAck(e) \/ GiveUp(e) => FALSE
      BY DEF TakeOffer, TakeAck, GiveUp, Message
    <3>4. DhcpTick \/ Restart \/ UNCHANGED dhcpVars => FALSE
      BY DEF DhcpTick, Restart, dhcpVars
    <3> QED
      BY <2>3, <3>1, <3>2, <3>3, <3>4 DEF DhcpNext, dhcp_server_process
  <2> QED
    BY <2>2, <2>3
<1> QED
  BY <1>1, DhcpInvHolds, PTL DEF DhcpSpec, OffersAreFree
=============================================================================
