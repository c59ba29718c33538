---------------------------- MODULE EtharpProofs -----------------------------
(***************************************************************************)
(* The ARP table is consistent, and implements ArpDelivery, for every size *)
(* of the table and the queues, every age limit and all hosts.             *)
(***************************************************************************)
EXTENDS Etharp, SequenceTheorems, TLAPS

Entry == [st : Stable \cup {"EMPTY", "PENDING"}, ip : Ips \cup {NoIp},
          mac : Macs \cup {NoMac}, ctime : 0 .. MaxAge - 1, q : Seq(Nat)]

\* An entry in use has an address, and a stable one a hardware address.
Addressed ==
    \A i \in Slots : /\ table[i].st # "EMPTY" => table[i].ip \in Ips
                     /\ table[i].st \in Stable => table[i].mac \in Macs

Distinct(q) == \A k, l \in DOMAIN q : q[k] = q[l] => k = l

\* No packet is queued twice, in one queue or in two.
QueuedOnce ==
    /\ \A i \in Slots : Distinct(table[i].q)
    /\ \A i, j \in Slots : i # j => Packets(table[i].q) \cap Packets(table[j].q) = {}

\* Queued packets were handed over before.
QueuedOld == \A i \in Slots : \A p \in Packets(table[i].q) : p <= count

TableInv == OneEntryPerAddress /\ QueueOnlyPending /\ StableIsLatest /\ Addressed

QueueInv == HeldExact /\ QueuedOnce /\ QueuedOld

-----------------------------------------------------------------------------
(***************************************************************************)
(* Queues                                                                  *)
(***************************************************************************)
LEMMA Constants ==
  /\ NoIp \notin Ips /\ NoMac \notin Macs
  /\ TableSize \in Nat /\ TableSize > 0
  /\ QueueLen \in Nat /\ QueueLen > 0
  /\ MaxAge \in Nat /\ MaxAge > 0
  /\ MaxPending \in Nat
  BY EtharpAssumption

LEMMA NoPackets == Packets(<<>>) = {} /\ Distinct(<<>>)
  BY DEF Packets, Distinct

LEMMA PacketsIn ==
  ASSUME NEW q \in Seq(Nat)
  PROVE  /\ \A p : p \in Packets(q) <=> \E k \in 1 .. Len(q) : q[k] = p
         /\ Packets(q) \subseteq Nat
  BY DEF Packets

\* What etharp_query makes of a queue.
LEMMA QueuedPackets ==
  ASSUME NEW q \in Seq(Nat), NEW p \in Nat, p \notin Packets(q), Distinct(q)
  PROVE  /\ Queued(q, p) \in Seq(Nat)
         /\ Distinct(Queued(q, p))
         /\ Packets(Queued(q, p)) = (Packets(q) \ Pushed(q)) \cup {p}
         /\ Pushed(q) \subseteq Packets(q)
<1> USE Constants
<1>1. \A k \in 1 .. Len(q) : q[k] # p
  BY PacketsIn
<1>2. \A k, l \in 1 .. Len(q) : q[k] = q[l] => k = l
  BY DEF Distinct
<1>3. CASE Len(q) >= QueueLen
  <2> DEFINE r == Tail(Append(q, p))
  <2>1. /\ Queued(q, p) = r /\ Pushed(q) = {q[1]} /\ 1 \in 1 .. Len(q)
    BY <1>3 DEF Queued, Pushed
  <2>2. PICK n \in Nat : n = Len(q) /\ n > 0
    BY <1>3
  <2>3. r \in Seq(Nat) /\ Len(r) = n /\ DOMAIN r = 1 .. n /\ r[n] = p
    BY <2>2
  <2>4. \A k \in 1 .. n : k # n => k + 1 \in 1 .. n /\ r[k] = q[k + 1]
    BY <2>2
  <2> HIDE DEF r
  <2>5. \A k \in 1 .. n : k # 1 => k - 1 \in 1 .. n /\ r[k - 1] = q[k]
    <3> SUFFICES ASSUME NEW k \in 1 .. n, k # 1 PROVE k - 1 \in 1 .. n /\ r[k - 1] = q[k]
      OBVIOUS
    <3>1. k - 1 \in 1 .. n /\ k - 1 # n /\ (k - 1) + 1 = k
      OBVIOUS
    <3> QED
      BY <3>1, <2>4
  <2>6. Distinct(r)
    <3> SUFFICES ASSUME NEW k \in 1 .. n, NEW l \in 1 .. n, r[k] = r[l] PROVE k = l
      BY <2>3, Zenon DEF Distinct
    <3>1. \A m \in 1 .. n : m # n => q[m + 1] # p
      BY <2>4, <2>2, <1>1
    <3>2. CASE k = n \/ l = n
      BY <3>1, <3>2, <2>3, <2>4
    <3>3. CASE k # n /\ l # n
      <4>1. k + 1 \in 1 .. n /\ l + 1 \in 1 .. n /\ q[k + 1] = q[l + 1]
        BY <3>3, <2>4
      <4>2. k + 1 = l + 1
        BY <4>1, <1>2, <2>2
      <4> QED
        BY <4>2
    <3> QED
      BY <3>2, <3>3
  <2>7. Packets(r) \subseteq (Packets(q) \ {q[1]}) \cup {p}
    <3>1. ASSUME NEW k \in 1 .. n PROVE r[k] = p \/ (r[k] \in Packets(q) /\ r[k] # q[1])
      <4>1. CASE k = n
        BY <4>1, <2>3
      <4>2. CASE k # n
        <5>1. k + 1 \in 1 .. Len(q) /\ r[k] = q[k + 1] /\ k + 1 # 1
          BY <4>2, <2>2, <2>4
        <5> QED
          BY <5>1, <2>1, <1>2, PacketsIn
      <4> QED
        BY <4>1, <4>2
    <3> QED
      BY <3>1, <2>3 DEF Packets
  <2>8. (Packets(q) \ {q[1]}) \cup {p} \subseteq Packets(r)
    <3>1. p \in Packets(r)
      BY <2>2, <2>3 DEF Packets
    <3>2. ASSUME NEW k \in 1 .. n, q[k] # q[1] PROVE q[k] \in Packets(r)
      BY <3>2, <2>3, <2>5 DEF Packets
    <3> QED
      BY <3>1, <3>2, <2>2, PacketsIn
  <2> QED
    BY <2>1, <2>3, <2>6, <2>7, <2>8, PacketsIn
<1>4. CASE ~(Len(q) >= QueueLen)
  <2> DEFINE r == Append(q, p)
  <2>1. /\ Queued(q, p) = r /\ Pushed(q) = {}
    BY <1>4 DEF Queued, Pushed
  <2>2. /\ r \in Seq(Nat) /\ Len(r) = Len(q) + 1
        /\ \A k \in 1 .. Len(r) : r[k] = IF k = Len(q) + 1 THEN p ELSE q[k]
    OBVIOUS
  <2> HIDE DEF r
  <2>3. Distinct(r)
    <3> SUFFICES ASSUME NEW k \in 1 .. Len(r), NEW l \in 1 .. Len(r), r[k] = r[l] PROVE k = l
      BY <2>2 DEF Distinct
    <3> QED
      BY <2>2, <1>1, <1>2
  <2>4. Packets(r) \subseteq Packets(q) \cup {p}
    <3> SUFFICES ASSUME NEW k \in 1 .. Len(r) PROVE r[k] = p \/ r[k] \in Packets(q)
      BY <2>2, PacketsIn
    <3>1. CASE k = Len(q) + 1
      BY <3>1, <2>2
    <3>2. CASE k # Len(q) + 1
      <4>1. k \in 1 .. Len(q) /\ r[k] = q[k]
        BY <3>2, <2>2
      <4> QED
        BY <4>1, PacketsIn
    <3> QED
      BY <3>1, <3>2
  <2>5. Packets(q) \cup {p} \subseteq Packets(r)
    <3>1. p \in Packets(r)
      <4>1. Len(r) \in 1 .. Len(r) /\ r[Len(r)] = p
        BY <2>2
      <4> QED
        BY <4>1, <2>2, PacketsIn
    <3>2. ASSUME NEW k \in 1 .. Len(q) PROVE q[k] \in Packets(r)
      <4>1. k \in 1 .. Len(r) /\ r[k] = q[k]
        BY <3>2, <2>2
      <4> QED
        BY <4>1, <2>2, PacketsIn
    <3> QED
      BY <3>1, <3>2, PacketsIn
  <2> QED
    BY <2>1, <2>2, <2>3, <2>4, <2>5
<1> QED
  BY <1>3, <1>4

-----------------------------------------------------------------------------
(***************************************************************************)
(* Entries                                                                 *)
(***************************************************************************)
LEMMA EmptyEntry == Empty \in Entry /\ Empty.st = "EMPTY" /\ Empty.q = <<>>
  BY Constants DEF Empty, Entry

LEMMA SlotTypes ==
  ASSUME TypeOK, NEW i \in Slots
  PROVE  /\ table[i] \in Entry
         /\ table[i].q \in Seq(Nat)
  BY DEF TypeOK, Entry

\* The entry etharp_find_entry finds for an address is the one it has, if any.
LEMMA FoundSlots ==
  ASSUME TypeOK, NEW a \in Ips
  PROVE  /\ Found(a) \subseteq Slots
         /\ First(Entries(a)) \subseteq Slots
         /\ \A i \in Found(a) \cup First(Entries(a)) : i \in Entries(a) \/ Entries(a) = {}
<1>1. Recycled \subseteq Slots
  BY DEF Recycled, Oldest
<1>2. /\ First(Entries(a)) \subseteq Entries(a) /\ First(EmptySlots) \subseteq EmptySlots
      /\ EmptySlots \subseteq Slots /\ Entries(a) \subseteq Slots
  BY DEF First, EmptySlots, Entries
<1> QED
  BY <1>1, <1>2 DEF Found

LEMMA UpdatedSlots ==
  ASSUME TypeOK, NEW a \in Ips, NEW forUs \in BOOLEAN, NEW i \in Updated(a, forUs)
  PROVE  i \in Slots /\ (i \in Entries(a) \/ Entries(a) = {})
  BY FoundSlots DEF Updated

\* An entry for the address is found if there is one.
LEMMA NothingToUpdate ==
  ASSUME TypeOK, OneEntryPerAddress, NEW a \in Ips, NEW forUs \in BOOLEAN,
         Updated(a, forUs) = {}
  PROVE  Entries(a) = {}
<1>1. SUFFICES ASSUME NEW i \in Entries(a) PROVE FALSE
  OBVIOUS
<1>2. \A j \in Entries(a) : j = i
  BY DEF OneEntryPerAddress, Entries
<1>3. i \in First(Entries(a))
  BY <1>2 DEF First, Entries, Slots
<1> QED
  BY <1>3 DEF Updated, Found

LEMMA SendableSlot ==
  ASSUME TypeOK, NEW a \in Ips, NEW i \in SendableSlots(a)
  PROVE  i \in Slots /\ table[i].st \in Stable /\ table[i].ip = a
  BY DEF SendableSlots, First, Stable

LEMMA EntryForTypes ==
  ASSUME TypeOK, NEW a \in Ips, NEW i \in Slots
  PROVE  /\ EntryFor(a, i) \in Entry
         /\ EntryFor(a, i).ip = a
         /\ EntryFor(a, i).q = IF i \in Entries(a) THEN table[i].q ELSE <<>>
         /\ EntryFor(a, i).mac = IF i \in Entries(a) THEN table[i].mac ELSE NoMac
<1>1. CASE i \in Entries(a)
  BY <1>1, SlotTypes DEF EntryFor, Entries
<1>2. CASE i \notin Entries(a)
  <2> DEFINE e == [st |-> "EMPTY", ip |-> a, mac |-> NoMac, ctime |-> 0, q |-> <<>>]
  <2>1. EntryFor(a, i) = e
    BY <1>2 DEF EntryFor, Empty
  <2>2. e \in Entry
    BY Constants DEF Entry
  <2> QED
    BY <1>2, <2>1, <2>2
<1> QED
  BY <1>1, <1>2

-----------------------------------------------------------------------------
(***************************************************************************)
(* One slot changes                                                        *)
(***************************************************************************)
\* The table is consistent when the slot found for an address gets an entry
\* for it.
LEMMA PutTable ==
  ASSUME TypeOK, TableInv, NEW a \in Ips, NEW i \in Slots, i \in Entries(a) \/ Entries(a) = {},
         NEW e \in Entry, e.ip = a, e.st # "EMPTY", e.q # <<>> => e.st = "PENDING",
         e.st \in Stable => e.mac = heard'[a] /\ e.mac \in Macs,
         table' = [table EXCEPT ![i] = e],
         \A b \in Ips : b # a => heard'[b] = heard[b]
  PROVE  TableInv'
<1>1. /\ table'[i] = e
      /\ \A j \in Slots : j # i => table'[j] = table[j]
  BY DEF TypeOK
<1>2. \A j \in Slots : j # i /\ table[j].st # "EMPTY" => table[j].ip \in Ips /\ table[j].ip # a
  <2> SUFFICES ASSUME NEW j \in Slots, j # i, table[j].st # "EMPTY", table[j].ip = a PROVE FALSE
    BY DEF TableInv, Addressed
  <2>1. j \in Entries(a)
    BY DEF Entries
  <2>2. i \in Entries(a)
    BY <2>1
  <2> QED
    BY <2>1, <2>2 DEF Entries, TableInv, OneEntryPerAddress
<1>3. OneEntryPerAddress'
  <2> SUFFICES ASSUME NEW j \in Slots, NEW k \in Slots, table'[j].st # "EMPTY",
                      table'[k].st # "EMPTY", table'[j].ip = table'[k].ip
               PROVE  j = k
    BY DEF OneEntryPerAddress, Slots
  <2>1. CASE j = i \/ k = i
    BY <2>1, <1>1, <1>2
  <2>2. CASE j # i /\ k # i
    BY <2>2, <1>1 DEF TableInv, OneEntryPerAddress
  <2> QED
    BY <2>1, <2>2
<1>4. QueueOnlyPending'
  BY <1>1 DEF TableInv, QueueOnlyPending, Slots
<1>5. StableIsLatest'
  <2> SUFFICES ASSUME NEW j \in Slots, table'[j].st \in Stable
               PROVE  table'[j].mac = heard'[table'[j].ip]
    BY DEF StableIsLatest, Slots
  <2>1. CASE j = i
    BY <2>1, <1>1
  <2>2. CASE j # i
    <3>1. table[j].st # "EMPTY" /\ table'[j] = table[j] /\ table[j].mac = heard[table[j].ip]
      BY <2>2, <1>1 DEF Stable, TableInv, StableIsLatest
    <3> QED
      BY <3>1, <2>2, <1>2
  <2> QED
    BY <2>1, <2>2
<1>6. Addressed'
  BY <1>1 DEF TableInv, Addressed, Slots
<1> QED
  BY <1>3, <1>4, <1>5, <1>6 DEF TableInv

\* References stay exact when packets S leave the queue of a slot and new
\* packets N join it.
LEMMA PutQueue ==
  ASSUME TypeOK, QueueInv, NEW i \in Slots, NEW e \in Entry, NEW S, NEW N,
         table' = [table EXCEPT ![i] = e],
         S \subseteq Packets(table[i].q),
         \A p \in N : p \in Nat /\ p > count /\ p <= count',
         count' \in Nat, count' >= count,
         Distinct(e.q),
         Packets(e.q) = (Packets(table[i].q) \ S) \cup N,
         held' = (held \ S) \cup N
  PROVE  QueueInv'
<1>1. /\ table'[i] = e
      /\ \A j \in Slots : j # i => table'[j] = table[j]
  BY DEF TypeOK
<1>2. \A j \in Slots : Packets(table[j].q) \subseteq held /\ Packets(table[j].q) \subseteq Nat
  BY SlotTypes, PacketsIn DEF QueueInv, HeldExact
<1>3. \A j \in Slots : \A p \in Packets(table[j].q) : p <= count /\ p \in Nat
  BY <1>2 DEF QueueInv, QueuedOld
<1> count \in Nat
  BY DEF TypeOK
<1>4. \A j \in Slots : Packets(table[j].q) \cap N = {}
  BY <1>3
<1>5. \A j \in Slots : j # i => Packets(table[j].q) \cap Packets(table[i].q) = {}
  BY DEF QueueInv, QueuedOnce
<1>6. QueuedOld'
  <2> SUFFICES ASSUME NEW j \in Slots, NEW p \in Packets(table'[j].q) PROVE p <= count'
    BY DEF QueuedOld, Packets, Slots
  <2>1. CASE j = i
    BY <2>1, <1>1, <1>3
  <2>2. CASE j # i
    BY <2>2, <1>1, <1>3
  <2> QED
    BY <2>1, <2>2
<1>7. QueuedOnce'
  <2>1. \A j \in Slots : Distinct(table'[j].q)
    BY <1>1 DEF QueueInv, QueuedOnce
  <2>2. ASSUME NEW j \in Slots, NEW k \in Slots, j # k
        PROVE  Packets(table'[j].q) \cap Packets(table'[k].q) = {}
    <3>1. CASE j = i
      BY <3>1, <2>2, <1>1, <1>4, <1>5
    <3>2. CASE k = i
      BY <3>2, <2>2, <1>1, <1>4, <1>5
    <3>3. CASE j # i /\ k # i
      BY <3>3, <2>2, <1>1 DEF QueueInv, QueuedOnce
    <3> QED
      BY <3>1, <3>2, <3>3
  <2> QED
    BY <2>1, <2>2 DEF QueuedOnce, Slots, Distinct, Packets
<1>8. HeldExact'
  <2>1. held = UNION {Packets(table[j].q) : j \in Slots}
    BY DEF QueueInv, HeldExact
  <2>2. ASSUME NEW p \in held' PROVE \E j \in Slots : p \in Packets(table'[j].q)
    <3>1. CASE p \in N
      BY <3>1, <1>1
    <3>2. CASE p \notin N
      <4>1. p \in held /\ p \notin S
        BY <3>2
      <4>2. PICK j \in Slots : p \in Packets(table[j].q)
        BY <4>1, <2>1
      <4> QED
        BY <4>1, <4>2, <1>1
    <3> QED
      BY <3>1, <3>2
  <2>3. ASSUME NEW j \in Slots, NEW p \in Packets(table'[j].q) PROVE p \in held'
    <3>1. CASE j = i
      BY <3>1, <1>1, <1>2
    <3>2. CASE j # i
      BY <3>2, <1>1, <1>2, <1>5
    <3> QED
      BY <3>1, <3>2
  <2>4. held' = UNION {Packets(table'[j].q) : j \in Slots}
    BY <2>2, <2>3
  <2> QED
    BY <2>4, Zenon DEF HeldExact, Slots, Packets
<1> QED
  BY <1>6, <1>7, <1>8 DEF QueueInv

\* Nothing about queues changes.
LEMMA QueueSame ==
  ASSUME QueueInv, table' = table, held' = held, count' = count
  PROVE  QueueInv'
<1>1. HeldExact'
  <2>1. held' = UNION {Packets(table'[j].q) : j \in Slots}
    BY Zenon DEF QueueInv, HeldExact
  <2> QED
    BY <2>1, Zenon DEF HeldExact, Slots, Packets
<1>2. QueuedOnce'
  <2>1. \A i \in Slots : Distinct(table'[i].q)
    BY Zenon DEF QueueInv, QueuedOnce
  <2>2. \A i, j \in Slots : i # j => Packets(table'[i].q) \cap Packets(table'[j].q) = {}
    BY Zenon DEF QueueInv, QueuedOnce
  <2> QED
    BY <2>1, <2>2 DEF QueuedOnce, Slots, Distinct, Packets
<1>3. QueuedOld'
  BY Zenon DEF QueueInv, QueuedOld, Slots, Packets
<1> QED
  BY <1>1, <1>2, <1>3 DEF QueueInv

-----------------------------------------------------------------------------
(***************************************************************************)
(* The steps                                                               *)
(***************************************************************************)
IInv == TypeOK /\ TableInv /\ QueueInv

LEMMA InitIInv == Init => IInv
<1> SUFFICES ASSUME Init PROVE IInv
  OBVIOUS
<1>1. \A i \in Slots : table[i] = Empty
  BY DEF Init
<1>2. TypeOK
  <2>1. table \in [Slots -> Entry]
    BY EmptyEntry DEF Init
  <2>2. hint \in Slots
    BY Constants DEF Init, Slots
  <2> QED
    BY <2>1, <2>2 DEF Init, TypeOK, Entry
<1>3. TableInv
  BY <1>1, EmptyEntry DEF TableInv, OneEntryPerAddress, QueueOnlyPending, StableIsLatest, Addressed,
                          Stable
<1>4. QueueInv
  <2>1. \A i \in Slots : Packets(table[i].q) = {} /\ Distinct(table[i].q)
    BY <1>1, EmptyEntry, NoPackets
  <2>2. held = {}
    BY DEF Init
  <2> QED
    BY <2>1, <2>2 DEF QueueInv, HeldExact, QueuedOnce, QueuedOld
<1> QED
  BY <1>2, <1>3, <1>4 DEF IInv

\* The type of what etharp_input hands to ethernet_output.
LEMMA FramesTypes ==
  ASSUME NEW q \in Seq(Nat), NEW a \in Ips, NEW mac \in Macs
  PROVE  Frames(q, a, mac) \in Seq([pkt : Nat, ip : Ips, mac : Macs \cup {NoMac}])
<1> DEFINE R == [pkt : Nat, ip : Ips, mac : Macs \cup {NoMac}]
<1>1. DOMAIN q = 1 .. Len(q) /\ Len(q) \in Nat
  OBVIOUS
<1>2. \A k \in 1 .. Len(q) : [pkt |-> q[k], ip |-> a, mac |-> mac] \in R
  OBVIOUS
<1>3. Frames(q, a, mac) = [k \in 1 .. Len(q) |-> [pkt |-> q[k], ip |-> a, mac |-> mac]]
  BY <1>1 DEF Frames
<1> HIDE DEF R
<1>4. [k \in 1 .. Len(q) |-> [pkt |-> q[k], ip |-> a, mac |-> mac]] \in [1 .. Len(q) -> R]
  BY <1>2
<1>5. Frames(q, a, mac) \in Seq(R)
  BY <1>1, <1>3, <1>4
<1> QED
  BY <1>5 DEF R

\* Sending to a stable entry.
LEMMA OutputStableStep ==
  ASSUME IInv, NEW a \in Ips, NEW requestOk \in BOOLEAN, OutputStable(a, requestOk),
         count' = count + 1, heard' = heard
  PROVE  IInv'
<1>1. PICK i \in SendableSlots(a) :
          /\ hint' = i
          /\ out' = Append(out, [pkt |-> count', ip |-> a, mac |-> table[i].mac])
          /\ asked' = IF NeedsRerequest(i) THEN {table[i].ip} ELSE {}
          /\ IF NeedsRerequest(i) /\ requestOk
             THEN table' = [table EXCEPT ![i].st = "REREQUESTING_1"]
             ELSE UNCHANGED table
  BY DEF OutputStable
<1>2. held' = held
  BY DEF OutputStable
<1>3. TypeOK /\ TableInv /\ QueueInv
  BY DEF IInv
<1>4. i \in Slots /\ table[i].st \in Stable /\ table[i].ip = a
  BY <1>3, SendableSlot
<1>5. i \in Entries(a)
  BY <1>4 DEF Entries, Stable
<1>6. count \in Nat /\ count' \in Nat /\ count' >= count
  BY <1>3 DEF TypeOK
<1>7. PICK e \in Entry : /\ table' = [table EXCEPT ![i] = e] /\ e.ip = a /\ e.st \in Stable
                         /\ e.mac = table[i].mac /\ e.q = table[i].q
  <2>1. table[i] \in Entry /\ table \in [Slots -> Entry]
    BY <1>3, <1>4, SlotTypes DEF TypeOK, Entry
  <2>2. CASE NeedsRerequest(i) /\ requestOk
    <3> DEFINE e == [table[i] EXCEPT !.st = "REREQUESTING_1"]
    <3>1. e \in Entry
      BY <2>1 DEF Entry, Stable
    <3>2. e.st \in Stable /\ e.ip = a /\ e.mac = table[i].mac /\ e.q = table[i].q
      BY <2>1, <1>4 DEF Entry, Stable
    <3> QED
      BY <1>1, <2>2, <3>1, <3>2
  <2>3. CASE ~(NeedsRerequest(i) /\ requestOk)
    BY <1>1, <1>4, <2>1, <2>3
  <2> QED
    BY <2>2, <2>3
<1>8. e.mac \in Macs /\ e.mac = heard[a] /\ e.q = <<>>
  BY <1>3, <1>4, <1>7 DEF TableInv, StableIsLatest, Addressed, QueueOnlyPending, Stable
<1>9. TableInv'
  BY <1>3, <1>4, <1>5, <1>7, <1>8, PutTable DEF Stable
<1>10. QueueInv'
  <2>1. PICK S : S = {}
    OBVIOUS
  <2>2. Packets(e.q) = (Packets(table[i].q) \ S) \cup S /\ held' = (held \ S) \cup S
    BY <1>2, <1>7, <2>1
  <2>3. Distinct(e.q)
    BY <1>8, NoPackets
  <2>4. S \subseteq Packets(table[i].q) /\ \A p \in S : p \in Nat /\ p > count /\ p <= count'
    BY <2>1
  <2>5. table' = [table EXCEPT ![i] = e] /\ e \in Entry
    BY <1>7
  <2> QED
    BY <1>3, <1>4, <1>6, <2>2, <2>3, <2>4, <2>5, PutQueue
<1>11. TypeOK'
  <2>1. table' \in [Slots -> Entry]
    BY <1>3, <1>7 DEF TypeOK, Entry
  <2>2. out' \in Seq([pkt : Nat, ip : Ips, mac : Macs \cup {NoMac}])
    BY <1>1, <1>3, <1>6, <1>7, <1>8 DEF TypeOK
  <2>3. asked' \subseteq Ips
    BY <1>1, <1>4
  <2> QED
    BY <1>1, <1>2, <1>3, <1>4, <1>6, <2>1, <2>2, <2>3 DEF TypeOK, Entry, Slots
<1> QED
  BY <1>9, <1>10, <1>11 DEF IInv

\* Queueing a packet on a new or a pending entry.
LEMMA QueryStep ==
  ASSUME IInv, NEW a \in Ips, NEW mem \in BOOLEAN, Query(a, mem), count' = count + 1, heard' = heard
  PROVE  IInv'
<1> DEFINE E(i) == [EntryFor(a, i) EXCEPT !.st = "PENDING"]
           F(i) == IF mem THEN [E(i) EXCEPT !.q = Queued(@, count')] ELSE E(i)
<1>1. PICK i \in Found(a) :
          /\ asked' = IF i \in Entries(a) THEN {} ELSE {a}
          /\ table' = [table EXCEPT ![i] = F(i)]
          /\ held' = IF mem THEN (held \ (FreedFor(a, i) \cup Pushed(E(i).q))) \cup {count'}
                     ELSE held \ FreedFor(a, i)
  BY DEF Query
<1>2. TypeOK /\ TableInv /\ QueueInv
  BY DEF IInv
<1>3. i \in Slots /\ (i \in Entries(a) \/ Entries(a) = {})
  BY <1>2, FoundSlots
<1>4. count \in Nat /\ count' \in Nat /\ count' > count /\ count' >= count
  BY <1>2 DEF TypeOK
<1> DEFINE e == E(i) q == e.q
<1>5. /\ e \in Entry /\ e.st = "PENDING" /\ e.ip = a /\ q \in Seq(Nat)
      /\ q = IF i \in Entries(a) THEN table[i].q ELSE <<>>
  BY <1>2, <1>3, EntryForTypes DEF Entry
<1>6. Distinct(q) /\ FreedFor(a, i) = Packets(table[i].q) \ Packets(q) /\ Packets(q) \subseteq Packets(table[i].q)
  <2>1. CASE i \in Entries(a)
    BY <2>1, <1>2, <1>3, <1>5 DEF FreedFor, QueueInv, QueuedOnce
  <2>2. CASE i \notin Entries(a)
    BY <2>2, <1>5, NoPackets DEF FreedFor
  <2> QED
    BY <2>1, <2>2
<1>7. count' \notin Packets(table[i].q)
  BY <1>2, <1>3, <1>4 DEF QueueInv, QueuedOld
<1>8. /\ Queued(q, count') \in Seq(Nat) /\ Distinct(Queued(q, count'))
      /\ Packets(Queued(q, count')) = (Packets(q) \ Pushed(q)) \cup {count'}
      /\ Pushed(q) \subseteq Packets(q)
  BY <1>4, <1>5, <1>6, <1>7, QueuedPackets
<1> DEFINE f == F(i)
<1>9. /\ f \in Entry /\ f.st = "PENDING" /\ f.ip = a
      /\ f.q = IF mem THEN Queued(q, count') ELSE q
  <2>1. CASE mem
    <3>1. f = [e EXCEPT !.q = Queued(q, count')]
      BY <2>1
    <3> HIDE DEF e, f
    <3> QED
      BY <2>1, <3>1, <1>5, <1>8 DEF Entry
  <2>2. CASE ~mem
    BY <2>2, <1>5
  <2> QED
    BY <2>1, <2>2
<1>10. table' = [table EXCEPT ![i] = f]
  BY <1>1
<1> HIDE DEF e, f, E, F, q
<1>11. TableInv'
  <2>1. f.st \notin Stable /\ f.st # "EMPTY"
    BY <1>9 DEF Stable
  <2> QED
    BY <1>2, <1>3, <1>9, <1>10, <2>1, PutTable
<1>12. held' = IF mem THEN (held \ (FreedFor(a, i) \cup Pushed(q))) \cup {count'}
               ELSE held \ FreedFor(a, i)
  BY <1>1 DEF q, e
<1>13. QueueInv'
  <2>1. CASE mem
    <3> DEFINE S == FreedFor(a, i) \cup Pushed(q)
    <3>1. S \subseteq Packets(table[i].q) /\ held' = (held \ S) \cup {count'}
      BY <2>1, <1>6, <1>8, <1>12
    <3>2. Distinct(f.q) /\ Packets(f.q) = (Packets(table[i].q) \ S) \cup {count'}
      BY <2>1, <1>6, <1>8, <1>9
    <3>3. \A p \in {count'} : p \in Nat /\ p > count /\ p <= count'
      BY <1>4
    <3> HIDE DEF S
    <3> QED
      BY <1>2, <1>3, <1>4, <1>9, <1>10, <3>1, <3>2, <3>3, PutQueue
  <2>2. CASE ~mem
    <3> DEFINE S == FreedFor(a, i)
    <3>1. S \subseteq Packets(table[i].q) /\ held' = (held \ S) \cup {}
      BY <2>2, <1>6, <1>12
    <3>2. Distinct(f.q) /\ Packets(f.q) = (Packets(table[i].q) \ S) \cup {}
      BY <2>2, <1>6, <1>9
    <3>3. \A p \in {} : p \in Nat /\ p > count /\ p <= count'
      OBVIOUS
    <3> HIDE DEF S
    <3> QED
      BY <1>2, <1>3, <1>4, <1>9, <1>10, <3>1, <3>2, <3>3, PutQueue
  <2> QED
    BY <2>1, <2>2
<1>14. TypeOK'
  <2>1. table' \in [Slots -> Entry]
    BY <1>2, <1>9, <1>10 DEF TypeOK, Entry
  <2>2. held' \subseteq Nat
    BY <1>2, <1>4, <1>12 DEF TypeOK
  <2>3. asked' \subseteq Ips
    BY <1>1
  <2>4. hint' = hint /\ out' = out
    BY DEF Query
  <2> QED
    BY <1>2, <1>4, <2>1, <2>2, <2>3, <2>4 DEF TypeOK, Entry, Slots
<1> QED
  BY <1>11, <1>13, <1>14 DEF IInv

\* A host announces its hardware address.
LEMMA InputStep ==
  ASSUME IInv, NEW a \in Ips, NEW mac \in Macs, NEW forUs \in BOOLEAN, etharp_input(a, mac, forUs)
  PROVE  IInv'
<1>1. TypeOK /\ TableInv /\ QueueInv
  BY DEF IInv
<1>2. /\ heard' = [heard EXCEPT ![a] = mac] /\ asked' = {} /\ hint' = hint /\ count' = count
      /\ heard \in [Ips -> Macs \cup {NoMac}] /\ count \in Nat
  BY <1>1 DEF etharp_input, TypeOK
<1>3. heard' \in [Ips -> Macs \cup {NoMac}] /\ heard'[a] = mac /\ \A b \in Ips : b # a => heard'[b] = heard[b]
  BY <1>2
<1>4. CASE Updated(a, forUs) = {} /\ UNCHANGED <<table, held, out>>
  <2>1. Entries(a) = {}
    BY <1>1, <1>4, NothingToUpdate DEF TableInv
  <2>2. \A i \in Slots : table[i].st \in Stable => table[i].ip \in Ips /\ table[i].ip # a
    BY <1>1, <2>1 DEF Entries, TableInv, Addressed, Stable
  <2>3. StableIsLatest'
    BY <1>1, <1>3, <1>4, <2>2 DEF StableIsLatest, TableInv, Slots
  <2>4. (OneEntryPerAddress /\ QueueOnlyPending /\ Addressed)'
    BY <1>1, <1>4 DEF TableInv, OneEntryPerAddress, QueueOnlyPending, Addressed, Slots
  <2>5. QueueInv'
    <3>1. table' = table /\ held' = held /\ count' = count
      BY <1>2, <1>4
    <3> QED
      BY <1>1, <3>1, QueueSame
  <2>6. TypeOK'
    BY <1>1, <1>2, <1>3, <1>4 DEF TypeOK, Slots
  <2> QED
    BY <2>3, <2>4, <2>5, <2>6 DEF IInv, TableInv
<1>5. CASE \E i \in Updated(a, forUs) :
              LET e == EntryFor(a, i)
              IN  /\ table' = [table EXCEPT ![i] = Resolved(e, mac)]
                  /\ out' = out \o Frames(e.q, a, mac)
                  /\ held' = (held \ FreedFor(a, i)) \ Packets(e.q)
  <2>1. PICK i \in Updated(a, forUs) :
              /\ table' = [table EXCEPT ![i] = Resolved(EntryFor(a, i), mac)]
              /\ out' = out \o Frames(EntryFor(a, i).q, a, mac)
              /\ held' = (held \ FreedFor(a, i)) \ Packets(EntryFor(a, i).q)
    BY <1>5
  <2>2. i \in Slots /\ (i \in Entries(a) \/ Entries(a) = {})
    BY <1>1, UpdatedSlots
  <2> DEFINE e == EntryFor(a, i) r == Resolved(e, mac) S == Packets(table[i].q)
  <2>3. /\ e \in Entry /\ e.ip = a /\ e.q \in Seq(Nat)
        /\ e.q = IF i \in Entries(a) THEN table[i].q ELSE <<>>
    BY <1>1, <2>2, EntryForTypes DEF Entry
  <2> HIDE DEF e
  <2>4. r \in Entry /\ r.st = "STABLE" /\ r.ip = a /\ r.mac = mac /\ r.q = <<>>
    <3>0. 0 \in 0 .. MaxAge - 1 /\ <<>> \in Seq(Nat) /\ "STABLE" \in Stable
      BY Constants DEF Stable
    <3>1. PICK z, v : /\ z \in 0 .. MaxAge - 1 /\ z = 0
                      /\ v \in Seq(Nat) /\ v = <<>> /\ "STABLE" \in Stable
      BY <3>0, Zenon
    <3>2. r = [e EXCEPT !.st = "STABLE", !.mac = mac, !.ctime = z, !.q = v]
      BY <3>1 DEF Resolved
    <3> HIDE DEF r
    <3>3. r.st = "STABLE" /\ r.ip = a /\ r.mac = mac /\ r.q = <<>>
      BY <2>3, <3>1, <3>2 DEF Entry
    <3>4. r \in Entry
      BY <2>3, <3>1, <3>2 DEF Entry
    <3> QED
      BY <3>3, <3>4
  <2>5. held' = held \ S
    <3>1. CASE i \in Entries(a)
      BY <3>1, <2>1, <2>3 DEF FreedFor, e
    <3>2. CASE i \notin Entries(a)
      BY <3>2, <2>1, <2>3, NoPackets DEF FreedFor, e
    <3> QED
      BY <3>1, <3>2
  <2>6. table' = [table EXCEPT ![i] = r]
    BY <2>1 DEF e
  <2> HIDE DEF r, S
  <2>7. TableInv'
    BY <1>1, <1>3, <2>2, <2>4, <2>6, PutTable DEF Stable
  <2>8. QueueInv'
    <3>1. PICK N : N = {}
      OBVIOUS
    <3>2. Distinct(r.q) /\ Packets(r.q) = (Packets(table[i].q) \ S) \cup N /\ held' = (held \ S) \cup N
      BY <2>4, <2>5, <3>1, NoPackets DEF S
    <3>3. S \subseteq Packets(table[i].q) /\ \A p \in N : p \in Nat /\ p > count /\ p <= count'
      BY <3>1 DEF S
    <3>4. count' \in Nat /\ count' >= count
      BY <1>2
    <3> QED
      BY <1>1, <2>2, <2>4, <2>6, <3>2, <3>3, <3>4, PutQueue
  <2>9. TypeOK'
    <3>1. table' \in [Slots -> Entry]
      BY <1>1, <2>4, <2>6 DEF TypeOK, Entry
    <3>2. out' \in Seq([pkt : Nat, ip : Ips, mac : Macs \cup {NoMac}])
      <4>1. Frames(e.q, a, mac) \in Seq([pkt : Nat, ip : Ips, mac : Macs \cup {NoMac}])
        BY <2>3, FramesTypes
      <4> QED
        BY <1>1, <2>1, <4>1 DEF e, TypeOK
    <3>3. held' \subseteq Nat
      BY <1>1, <2>5 DEF TypeOK
    <3> QED
      BY <1>1, <1>2, <1>3, <3>1, <3>2, <3>3 DEF TypeOK, Entry, Slots
  <2> QED
    BY <2>7, <2>8, <2>9 DEF IInv
<1> QED
  BY <1>4, <1>5 DEF etharp_input

\* What a second does to one entry: it goes, or it keeps all but its age and
\* its place in the request cycle.
LEMMA AgedEntry ==
  ASSUME NEW e \in Entry
  PROVE  /\ Aged(e) \in Entry
         /\ e.st = "EMPTY" \/ Expired(e) => Aged(e) = Empty
         /\ ~(e.st = "EMPTY" \/ Expired(e)) =>
              /\ Aged(e).ip = e.ip /\ Aged(e).mac = e.mac /\ Aged(e).q = e.q
              /\ Aged(e).st # "EMPTY" /\ (Aged(e).st \in Stable <=> e.st \in Stable)
              /\ Aged(e).st = "PENDING" <=> e.st = "PENDING"
<1> DEFINE s == CASE e.st = "REREQUESTING_1" -> "REREQUESTING_2"
                  [] e.st = "REREQUESTING_2" -> "STABLE"
                  [] OTHER -> e.st
<1>1. CASE e.st = "EMPTY" \/ Expired(e)
  BY <1>1, EmptyEntry DEF Aged
<1>2. CASE ~(e.st = "EMPTY" \/ Expired(e))
  <2>1. /\ s \in Stable \cup {"PENDING"} /\ (s \in Stable <=> e.st \in Stable)
        /\ s = "PENDING" <=> e.st = "PENDING"
    BY <1>2 DEF Entry, Stable
  <2>2. e.ctime + 1 \in 0 .. MaxAge - 1
    BY <1>2, Constants DEF Entry, Expired
  <2>3. Aged(e) = [e EXCEPT !.ctime = e.ctime + 1, !.st = s]
    BY <1>2 DEF Aged
  <2> HIDE DEF s
  <2>4. /\ Aged(e) \in Entry /\ Aged(e).st = s
        /\ Aged(e).ip = e.ip /\ Aged(e).mac = e.mac /\ Aged(e).q = e.q
    BY <2>1, <2>2, <2>3 DEF Entry, Stable
  <2>5. s # "EMPTY"
    BY <2>1 DEF Stable
  <2> QED
    BY <1>2, <2>1, <2>4, <2>5
<1> QED
  BY <1>1, <1>2

\* A second passes.
LEMMA TmrStep ==
  ASSUME IInv, etharp_tmr
  PROVE  IInv'
<1>1. TypeOK /\ TableInv /\ QueueInv
  BY DEF IInv
<1> DEFINE Gone(i) == table[i].st = "EMPTY" \/ Expired(table[i])
<1>2. /\ \A i \in Slots : table[i] \in Entry /\ table'[i] = Aged(table[i])
      /\ table' = [i \in Slots |-> Aged(table[i])]
      /\ held' = held \ UNION {Packets(table[i].q) : i \in {j \in Slots : Expired(table[j])}}
      /\ asked' = {table'[i].ip : i \in {j \in Slots : table'[j].st = "PENDING"}}
      /\ hint' = hint /\ heard' = heard /\ out' = out /\ count' = count
  BY <1>1, SlotTypes DEF etharp_tmr
<1>3. \A i \in Slots : Gone(i) => table'[i] = Empty
  BY <1>2, AgedEntry
<1>4. \A i \in Slots : ~Gone(i) =>
         /\ table'[i].ip = table[i].ip /\ table'[i].mac = table[i].mac /\ table'[i].q = table[i].q
         /\ table[i].st # "EMPTY" /\ (table'[i].st \in Stable <=> table[i].st \in Stable)
         /\ table'[i].st = "PENDING" <=> table[i].st = "PENDING"
  BY <1>2, AgedEntry
<1>5. \A i \in Slots : table'[i].st # "EMPTY" => ~Gone(i)
  BY <1>3, EmptyEntry
<1> HIDE DEF Gone
<1>6. TableInv'
  <2>1. \A i \in Slots : table'[i].st \in Stable \/ table'[i].st = "PENDING" => ~Gone(i)
    BY <1>5 DEF Stable
  <2>2. OneEntryPerAddress'
    <3> SUFFICES ASSUME NEW j \in Slots, NEW k \in Slots, table'[j].st # "EMPTY",
                        table'[k].st # "EMPTY", table'[j].ip = table'[k].ip
                 PROVE  j = k
      BY DEF OneEntryPerAddress, Slots
    <3> QED
      BY <1>1, <1>4, <1>5 DEF TableInv, OneEntryPerAddress
  <2>3. QueueOnlyPending'
    <3> SUFFICES ASSUME NEW i \in Slots, table'[i].q # <<>> PROVE table'[i].st = "PENDING"
      BY DEF QueueOnlyPending, Slots
    <3>1. ~Gone(i)
      BY <1>3, EmptyEntry
    <3> QED
      BY <3>1, <1>1, <1>4 DEF TableInv, QueueOnlyPending
  <2>4. StableIsLatest'
    <3> SUFFICES ASSUME NEW i \in Slots, table'[i].st \in Stable
                 PROVE  table'[i].mac = heard'[table'[i].ip]
      BY DEF StableIsLatest, Slots
    <3> QED
      BY <2>1, <1>1, <1>2, <1>4 DEF TableInv, StableIsLatest
  <2>5. Addressed'
    <3> SUFFICES ASSUME NEW i \in Slots
                 PROVE  /\ table'[i].st # "EMPTY" => table'[i].ip \in Ips
                        /\ table'[i].st \in Stable => table'[i].mac \in Macs
      BY DEF Addressed, Slots
    <3> QED
      BY <2>1, <1>1, <1>4, <1>5 DEF TableInv, Addressed
  <2> QED
    BY <2>2, <2>3, <2>4, <2>5 DEF TableInv
<1>7. \A i \in Slots : /\ ~Gone(i) => table'[i].q = table[i].q
                       /\ Gone(i) => table'[i].q = <<>>
  BY <1>3, <1>4, EmptyEntry
<1>8. QueueInv'
  <2>1. \A i \in Slots : Packets(table'[i].q) \subseteq Packets(table[i].q)
    BY <1>7, NoPackets
  <2>2. QueuedOld'
    <3>1. \A i \in Slots : \A p \in Packets(table'[i].q) : p <= count'
      BY <2>1, <1>1, <1>2 DEF QueueInv, QueuedOld
    <3> QED
      BY <3>1 DEF QueuedOld, Slots, Packets
  <2>3. QueuedOnce'
    <3>1. \A i \in Slots : Distinct(table'[i].q)
      BY <1>1, <1>7, NoPackets DEF QueueInv, QueuedOnce
    <3>2. \A i, j \in Slots : i # j => Packets(table'[i].q) \cap Packets(table'[j].q) = {}
      BY <2>1, <1>1 DEF QueueInv, QueuedOnce
    <3> QED
      BY <3>1, <3>2 DEF QueuedOnce, Slots, Distinct, Packets
  <2>4. HeldExact'
    <3>1. held = UNION {Packets(table[i].q) : i \in Slots}
      BY <1>1 DEF QueueInv, HeldExact
    <3>2. \A i \in Slots : Gone(i) /\ Packets(table[i].q) # {} => Expired(table[i])
      BY <1>1, NoPackets DEF Gone, TableInv, QueueOnlyPending
    <3>3. ASSUME NEW i \in Slots, NEW p \in Packets(table'[i].q) PROVE p \in held'
      <4>1. p \in Packets(table[i].q) /\ ~Gone(i)
        BY <2>1, <1>7, NoPackets
      <4>2. \A j \in Slots : Expired(table[j]) => p \notin Packets(table[j].q)
        BY <4>1, <1>1 DEF QueueInv, QueuedOnce, Gone
      <4> QED
        BY <4>1, <4>2, <3>1, <1>2
    <3>4. ASSUME NEW p \in held' PROVE \E i \in Slots : p \in Packets(table'[i].q)
      <4>1. p \in held /\ \A j \in Slots : Expired(table[j]) => p \notin Packets(table[j].q)
        BY <1>2
      <4>2. PICK i \in Slots : p \in Packets(table[i].q)
        BY <4>1, <3>1
      <4>3. ~Gone(i)
        BY <4>1, <4>2, <3>2
      <4> QED
        BY <4>2, <4>3, <1>7
    <3>5. held' = UNION {Packets(table'[i].q) : i \in Slots}
      BY <3>3, <3>4
    <3> QED
      BY <3>5, Zenon DEF HeldExact, Slots, Packets
  <2> QED
    BY <2>2, <2>3, <2>4 DEF QueueInv
<1>9. TypeOK'
  <2>1. table' \in [Slots -> Entry]
    BY <1>2, AgedEntry
  <2>2. asked' \subseteq Ips
    BY <1>2, <1>6 DEF TableInv, Addressed, Slots
  <2>3. held' \subseteq Nat
    BY <1>1, <1>2 DEF TypeOK
  <2> QED
    BY <1>1, <1>2, <2>1, <2>2, <2>3 DEF TypeOK, Entry, Slots
<1> QED
  BY <1>6, <1>8, <1>9 DEF IInv

LEMMA NextIInv == IInv /\ [Next]_vars => IInv'
<1> SUFFICES ASSUME IInv, [Next]_vars PROVE IInv'
  OBVIOUS
<1>1. ASSUME NEW a \in Ips, etharp_output(a) PROVE IInv'
  <2>1. count' = count + 1 /\ heard' = heard
    BY <1>1 DEF etharp_output
  <2>2. PICK requestOk, mem \in BOOLEAN : OutputStable(a, requestOk) \/ Query(a, mem)
    BY <1>1 DEF etharp_output
  <2> QED
    BY <2>1, <2>2, OutputStableStep, QueryStep
<1>2. ASSUME NEW a \in Ips, NEW mac \in Macs, NEW forUs \in BOOLEAN, etharp_input(a, mac, forUs)
      PROVE  IInv'
  BY <1>2, InputStep
<1>3. CASE etharp_tmr
  BY <1>3, TmrStep
<1>4. CASE UNCHANGED vars
  <2>1. QueueInv'
    BY <1>4, QueueSame DEF vars, IInv
  <2>2. TypeOK'
    BY <1>4 DEF vars, IInv, TypeOK, Slots
  <2>3. TableInv'
    BY <1>4 DEF vars, IInv, TableInv, OneEntryPerAddress, QueueOnlyPending, StableIsLatest,
                Addressed, Slots
  <2> QED
    BY <2>1, <2>2, <2>3 DEF IInv
<1> QED
  BY <1>1, <1>2, <1>3, <1>4 DEF Next

LEMMA IInvAlways == Spec => []IInv
  BY InitIInv, NextIInv, PTL DEF Spec

-----------------------------------------------------------------------------
\* The table, the counters and the packets sent keep their types; an entry is
\* never older than ARP_MAXAGE.
THEOREM TypeCorrect == Spec => []TypeOK
<1>1. IInv => TypeOK
  BY DEF IInv
<1> QED
  BY <1>1, IInvAlways, PTL

\* etharp_find_entry never makes a second entry for an address.
THEOREM OneEntry == Spec => []OneEntryPerAddress
<1>1. IInv => OneEntryPerAddress
  BY DEF IInv, TableInv
<1> QED
  BY <1>1, IInvAlways, PTL

\* etharp_find_entry's assertion holds: a stable entry has no queue.
THEOREM NoStableQueue == Spec => []QueueOnlyPending
<1>1. IInv => QueueOnlyPending
  BY DEF IInv, TableInv
<1> QED
  BY <1>1, IInvAlways, PTL

\* Packets go to the hardware address their next hop announced last.
THEOREM LatestAddress == Spec => []StableIsLatest
<1>1. IInv => StableIsLatest
  BY DEF IInv, TableInv
<1> QED
  BY <1>1, IInvAlways, PTL

\* Elements of the ARP queue pool and references to packets are neither lost
\* nor freed early, however entries are recycled, pushed out and aged.
THEOREM QueuesExact == Spec => []HeldExact
<1>1. IInv => HeldExact
  BY DEF IInv, QueueInv
<1> QED
  BY <1>1, IInvAlways, PTL

\* The ARP table is sound: one entry for an address, queues only in pending
\* entries, stable entries hold the last announcement, no packet is leaked.
THEOREM TableIsSafe == Spec => []TableSafe
BY TypeCorrect, OneEntry, NoStableQueue, LatestAddress, QueuesExact, PTL DEF TableSafe

-----------------------------------------------------------------------------
(***************************************************************************)
(* The table implements ArpDelivery: what waits for a host is the queue of *)
(* its entry.                                                              *)
(***************************************************************************)

\* The refinement mapping, on any table.
EntriesIn(t, a) == {i \in Slots : t[i].st # "EMPTY" /\ t[i].ip = a}

WaitIn(t) ==
    [a \in Ips |-> IF EntriesIn(t, a) = {} THEN <<>>
                   ELSE t[CHOOSE i \in EntriesIn(t, a) : TRUE].q]

Unique(t) ==
    \A i, j \in Slots : t[i].st # "EMPTY" /\ t[j].st # "EMPTY" /\ t[i].ip = t[j].ip => i = j

LEMMA WaitingIs ==
  /\ Waiting = WaitIn(table)
  /\ Waiting' = WaitIn(table')
<1>1. Waiting = WaitIn(table)
  BY DEF Waiting, WaitIn, Entries, EntriesIn
<1>2. Waiting' = WaitIn(table')
  BY DEF Waiting, WaitIn, Entries, EntriesIn, Slots
<1> QED
  BY <1>1, <1>2

\* What waits for a host is the queue of its only entry.
LEMMA WaitOf ==
  ASSUME NEW t, Unique(t), NEW a \in Ips
  PROVE  /\ \A i \in EntriesIn(t, a) : WaitIn(t)[a] = t[i].q
         /\ EntriesIn(t, a) = {} => WaitIn(t)[a] = <<>>
<1> DEFINE E == EntriesIn(t, a)
<1>1. \A i, j \in E : i = j
  BY DEF Unique, EntriesIn
<1>2. WaitIn(t)[a] = IF E = {} THEN <<>> ELSE t[CHOOSE i \in E : TRUE].q
  BY DEF WaitIn
<1> HIDE DEF E
<1>3. \A i \in E : WaitIn(t)[a] = t[i].q
  <2> SUFFICES ASSUME NEW i \in E PROVE WaitIn(t)[a] = t[i].q
    OBVIOUS
  <2>1. (CHOOSE j \in E : TRUE) \in E
    OBVIOUS
  <2>2. (CHOOSE j \in E : TRUE) = i
    BY <2>1, <1>1
  <2> QED
    BY <2>2, <1>2
<1> QED
  BY <1>2, <1>3 DEF E

\* Functions are equal if their values are.
LEMMA WaitEqual ==
  ASSUME NEW t, NEW u, \A a \in Ips : WaitIn(t)[a] = WaitIn(u)[a]
  PROVE  WaitIn(t) = WaitIn(u)
  BY DEF WaitIn

LEMMA UniqueTables ==
  /\ IInv => Unique(table)
  /\ IInv' => Unique(table')
<1>1. IInv => Unique(table)
  BY DEF IInv, TableInv, OneEntryPerAddress, Unique
<1>2. IInv' => Unique(table')
  BY DEF IInv, TableInv, OneEntryPerAddress, Unique, Slots
<1> QED
  BY <1>1, <1>2

-----------------------------------------------------------------------------
LEMMA SuffixFacts ==
  ASSUME NEW s \in Seq(Nat)
  PROVE  /\ <<>> \in Delivery!Suffixes(s)
         /\ s \in Delivery!Suffixes(s)
         /\ s # <<>> => Tail(s) \in Delivery!Suffixes(s)
<1>1. <<>> \in Delivery!Suffixes(s)
  BY DEF Delivery!Suffixes
<1>2. s \in Delivery!Suffixes(s)
  <2>1. CASE s = <<>>
    BY <2>1, <1>1
  <2>2. CASE s # <<>>
    <3>1. 1 \in 1 .. Len(s) /\ SubSeq(s, 1, Len(s)) = s
      BY <2>2
    <3> QED
      BY <3>1 DEF Delivery!Suffixes
  <2> QED
    BY <2>1, <2>2
<1>3. ASSUME s # <<>> PROVE Tail(s) \in Delivery!Suffixes(s)
  <2>0. /\ Len(s) \in Nat /\ Len(s) # 0
        /\ Tail(s) \in Seq(Nat) /\ Len(Tail(s)) = Len(s) - 1
        /\ Tail(s) = SubSeq(s, 2, Len(s))
    BY <1>3, HeadTailProperties, TailIsSubSeq, EmptySeq, Zenon
  <2>1. CASE Len(s) = 1
    <3>1. Tail(s) = <<>>
      BY <2>0, <2>1, EmptySeq
    <3> QED
      BY <3>1, <1>1
  <2>2. CASE Len(s) # 1
    <3>1. 2 \in 1 .. Len(s) /\ SubSeq(s, 2, Len(s)) = Tail(s)
      BY <2>0, <2>2
    <3> QED
      BY <3>1 DEF Delivery!Suffixes
  <2> QED
    BY <2>1, <2>2
<1> QED
  BY <1>1, <1>2, <1>3

LEMMA KeptIf ==
  ASSUME NEW v, NEW w, v = [a \in Ips |-> v[a]],
         \A a \in Ips : v[a] \in Delivery!Suffixes(w[a])
  PROVE  v \in Delivery!Kept(w)
  BY DEF Delivery!Kept

-----------------------------------------------------------------------------
(***************************************************************************)
(* What a step does to the queues                                          *)
(***************************************************************************)
\* The slot found for host a gets an entry of it: the queue of another host is
\* lost if its entry was recycled, and kept otherwise.
LEMMA PutWaiting ==
  ASSUME IInv, IInv', NEW a \in Ips, NEW i \in Slots, i \in Entries(a) \/ Entries(a) = {},
         NEW e \in Entry, e.ip = a, e.st # "EMPTY", table' = [table EXCEPT ![i] = e]
  PROVE  /\ WaitIn(table)[a] = IF i \in Entries(a) THEN table[i].q ELSE <<>>
         /\ WaitIn(table')[a] = e.q
         /\ \A b \in Ips : b # a =>
              \/ WaitIn(table')[b] = WaitIn(table)[b]
              \/ WaitIn(table')[b] = <<>> /\ i \notin Entries(a)
<1>1. Unique(table) /\ Unique(table')
  BY UniqueTables
<1>2. table'[i] = e /\ \A j \in Slots : j # i => table'[j] = table[j]
  BY DEF IInv, TypeOK
<1>3. \A b \in Ips : Entries(b) = EntriesIn(table, b)
  BY DEF Entries, EntriesIn
<1>4. WaitIn(table)[a] = IF i \in Entries(a) THEN table[i].q ELSE <<>>
  BY <1>1, <1>3, WaitOf
<1>5. WaitIn(table')[a] = e.q
  <2>1. i \in EntriesIn(table', a)
    BY <1>2 DEF EntriesIn
  <2> QED
    <3>1. WaitIn(table')[a] = table'[i].q
      BY <2>1, <1>1, WaitOf
    <3> QED
      BY <3>1, <1>2
<1>6. ASSUME NEW b \in Ips, b # a
      PROVE  \/ WaitIn(table')[b] = WaitIn(table)[b]
             \/ WaitIn(table')[b] = <<>> /\ i \notin Entries(a)
  <2>1. EntriesIn(table', b) = EntriesIn(table, b) \ {i}
    BY <1>2, <1>6 DEF EntriesIn
  <2>2. CASE EntriesIn(table', b) = {}
    <3>1. WaitIn(table')[b] = <<>>
      BY <2>2, <1>1, WaitOf
    <3>2. CASE i \in Entries(a)
      <4>1. i \notin EntriesIn(table, b)
        BY <3>2, <1>6 DEF Entries, EntriesIn
      <4>2. EntriesIn(table, b) = {}
        BY <4>1, <2>1, <2>2
      <4> QED
        BY <4>2, <3>1, <1>1, WaitOf
    <3> QED
      BY <3>1, <3>2
  <2>3. CASE EntriesIn(table', b) # {}
    <3>1. PICK k \in EntriesIn(table', b) : TRUE
      BY <2>3
    <3>2. k \in EntriesIn(table, b) /\ k # i /\ k \in Slots
      BY <3>1, <2>1 DEF EntriesIn
    <3>3. WaitIn(table')[b] = table'[k].q /\ WaitIn(table)[b] = table[k].q
      BY <3>1, <3>2, <1>1, WaitOf
    <3> QED
      BY <3>2, <3>3, <1>2
  <2> QED
    BY <2>2, <2>3
<1> QED
  BY <1>4, <1>5, <1>6

LEMMA WaitTypes ==
  ASSUME IInv, NEW b \in Ips
  PROVE  WaitIn(table)[b] \in Seq(Nat)
<1>1. Unique(table)
  BY UniqueTables
<1>2. CASE EntriesIn(table, b) = {}
  BY <1>1, <1>2, WaitOf, EmptySeq
<1>3. CASE EntriesIn(table, b) # {}
  <2>1. PICK k \in EntriesIn(table, b) : TRUE
    BY <1>3
  <2>2. WaitIn(table)[b] = table[k].q /\ k \in Slots
    BY <2>1, <1>1, WaitOf DEF EntriesIn
  <2> QED
    BY <2>2, SlotTypes DEF IInv
<1> QED
  BY <1>2, <1>3

LEMMA WaitFunction ==
  ASSUME NEW t
  PROVE  WaitIn(t) = [a \in Ips |-> WaitIn(t)[a]] /\ DOMAIN WaitIn(t) = Ips
  BY DEF WaitIn

\* What etharp_query leaves in a queue is a suffix of the longer one.
LEMMA QueuedSuffix ==
  ASSUME NEW q \in Seq(Nat), NEW p \in Nat
  PROVE  Queued(q, p) \in Delivery!Suffixes(Append(q, p))
<1>1. Append(q, p) \in Seq(Nat) /\ Len(Append(q, p)) = Len(q) + 1 /\ Len(q) \in Nat
  OBVIOUS
<1>2. Append(q, p) # <<>>
  BY <1>1, EmptySeq
<1> QED
  BY <1>1, <1>2, SuffixFacts DEF Queued

-----------------------------------------------------------------------------
(***************************************************************************)
(* The steps are steps of ArpDelivery                                      *)
(***************************************************************************)
LEMMA InitDelivery == Init => Delivery!Init
<1> SUFFICES ASSUME Init PROVE Delivery!Init
  OBVIOUS
<1>1. \A a \in Ips : EntriesIn(table, a) = {}
  BY EmptyEntry DEF Init, EntriesIn
<1>2. Waiting = [a \in Ips |-> <<>>]
  BY <1>1, WaitingIs DEF WaitIn
<1> QED
  BY <1>2 DEF Init, Delivery!Init

LEMMA OutputDelivery ==
  ASSUME IInv, IInv', NEW a \in Ips, NEW requestOk \in BOOLEAN, OutputStable(a, requestOk),
         count' = count + 1, heard' = heard
  PROVE  Delivery!Submit(a)
<1>1. PICK i \in SendableSlots(a) :
          /\ out' = Append(out, [pkt |-> count', ip |-> a, mac |-> table[i].mac])
          /\ IF NeedsRerequest(i) /\ requestOk
             THEN table' = [table EXCEPT ![i].st = "REREQUESTING_1"]
             ELSE UNCHANGED table
  BY DEF OutputStable
<1>2. i \in Slots /\ table[i].st \in Stable /\ table[i].ip = a
  BY SendableSlot DEF IInv
<1>3. i \in Entries(a)
  BY <1>2 DEF Entries, Stable
<1>4. table[i].mac = heard[a] /\ heard[a] # NoMac /\ table[i].q = <<>>
  BY <1>2, Constants DEF IInv, TableInv, StableIsLatest, Addressed, QueueOnlyPending, Stable
<1>5. PICK e \in Entry : /\ table' = [table EXCEPT ![i] = e] /\ e.ip = a /\ e.st # "EMPTY"
                         /\ e.q = <<>>
  <2>1. table[i] \in Entry /\ table \in [Slots -> Entry]
    BY <1>2, SlotTypes DEF TypeOK, Entry, IInv
  <2>2. CASE NeedsRerequest(i) /\ requestOk
    <3> DEFINE e == [table[i] EXCEPT !.st = "REREQUESTING_1"]
    <3>1. e \in Entry
      BY <2>1 DEF Entry, Stable
    <3>2. e.st # "EMPTY" /\ e.ip = a /\ e.q = <<>>
      BY <2>1, <1>2, <1>4 DEF Entry, Stable
    <3> QED
      BY <1>1, <2>2, <3>1, <3>2
  <2>3. CASE ~(NeedsRerequest(i) /\ requestOk)
    BY <1>1, <1>2, <1>4, <2>1, <2>3 DEF Stable
  <2> QED
    BY <2>2, <2>3
<1>6. /\ WaitIn(table)[a] = <<>> /\ WaitIn(table')[a] = <<>>
      /\ \A b \in Ips : b # a => WaitIn(table')[b] = WaitIn(table)[b]
  BY <1>2, <1>3, <1>4, <1>5, PutWaiting
<1>7. WaitIn(table') = WaitIn(table)
  BY <1>6, WaitEqual
<1>8. Waiting' = Waiting /\ Waiting[a] = <<>>
  BY <1>6, <1>7, WaitingIs
<1>9. out' = Append(out, Delivery!Frame(count', a, heard[a]))
  BY <1>1, <1>4 DEF Delivery!Frame
<1> QED
  BY <1>4, <1>8, <1>9 DEF Delivery!Submit

LEMMA QueryDelivery ==
  ASSUME IInv, IInv', NEW a \in Ips, NEW mem \in BOOLEAN, Query(a, mem), count' = count + 1,
         heard' = heard
  PROVE  Delivery!Submit(a)
<1> DEFINE E(i) == [EntryFor(a, i) EXCEPT !.st = "PENDING"]
           F(i) == IF mem THEN [E(i) EXCEPT !.q = Queued(@, count')] ELSE E(i)
<1>1. PICK i \in Found(a) : table' = [table EXCEPT ![i] = F(i)]
  BY DEF Query
<1>2. i \in Slots /\ (i \in Entries(a) \/ Entries(a) = {})
  BY FoundSlots DEF IInv
<1>3. count' \in Nat /\ out' = out
  BY DEF IInv, TypeOK, Query
<1> DEFINE w == WaitIn(table)[a]
<1>4. w = IF i \in Entries(a) THEN table[i].q ELSE <<>>
  <2>1. Unique(table) /\ Entries(a) = EntriesIn(table, a)
    BY UniqueTables DEF Entries, EntriesIn
  <2> QED
    BY <1>2, <2>1, WaitOf
<1>5. w \in Seq(Nat)
  BY WaitTypes
<1> HIDE DEF w
<1> DEFINE e == E(i)
<1>6. e \in Entry /\ e.st = "PENDING" /\ e.ip = a /\ e.q = w
  BY <1>2, <1>4, EntryForTypes DEF Entry, IInv
<1>7. Queued(w, count') \in Seq(Nat)
  BY <1>3, <1>5, Constants DEF Queued
<1> DEFINE f == F(i)
<1>8. /\ f \in Entry /\ f.st # "EMPTY" /\ f.ip = a
      /\ f.q = IF mem THEN Queued(w, count') ELSE w
  <2>1. CASE mem
    <3>1. f = [e EXCEPT !.q = Queued(w, count')]
      BY <2>1, <1>6
    <3> HIDE DEF e, f
    <3> QED
      BY <2>1, <3>1, <1>6, <1>7 DEF Entry
  <2>2. CASE ~mem
    BY <2>2, <1>6
  <2> QED
    BY <2>1, <2>2
<1>9. table' = [table EXCEPT ![i] = f]
  BY <1>1
<1> HIDE DEF e, f, E, F
<1>10. /\ WaitIn(table')[a] = f.q
       /\ \A b \in Ips : b # a => \/ WaitIn(table')[b] = WaitIn(table)[b]
                                  \/ WaitIn(table')[b] = <<>>
  BY <1>2, <1>8, <1>9, PutWaiting
<1>11. \A b \in Ips : b # a => WaitIn(table')[b] \in Delivery!Suffixes(WaitIn(table)[b])
  BY <1>10, WaitTypes, SuffixFacts
<1>12. CASE mem
  <2> DEFINE v == [WaitIn(table) EXCEPT ![a] = Append(@, count')]
  <2>1. v[a] = Append(w, count') /\ \A b \in Ips : b # a => v[b] = WaitIn(table)[b]
    BY WaitFunction DEF w
  <2> HIDE DEF v
  <2>2. WaitIn(table')[a] \in Delivery!Suffixes(v[a])
    BY <1>3, <1>5, <1>8, <1>10, <1>12, <2>1, QueuedSuffix
  <2>3. \A b \in Ips : WaitIn(table')[b] \in Delivery!Suffixes(v[b])
    BY <1>11, <2>1, <2>2
  <2>4. WaitIn(table') \in Delivery!Kept(v)
    BY <2>3, WaitFunction, KeptIf
  <2>5. Waiting' \in Delivery!Kept([Waiting EXCEPT ![a] = Append(@, count')])
    BY <2>4, WaitingIs DEF v
  <2> QED
    BY <1>3, <2>5 DEF Delivery!Submit
<1>13. CASE ~mem
  <2>1. WaitIn(table')[a] \in Delivery!Suffixes(WaitIn(table)[a])
    BY <1>5, <1>8, <1>10, <1>13, SuffixFacts DEF w
  <2>2. \A b \in Ips : WaitIn(table')[b] \in Delivery!Suffixes(WaitIn(table)[b])
    BY <1>11, <2>1
  <2>3. WaitIn(table') \in Delivery!Kept(WaitIn(table))
    BY <2>2, WaitFunction, KeptIf
  <2>4. Waiting' \in Delivery!Kept(Waiting)
    BY <2>3, WaitingIs
  <2> QED
    BY <1>3, <2>4 DEF Delivery!Submit
<1> QED
  BY <1>12, <1>13

LEMMA InputDelivery ==
  ASSUME IInv, IInv', NEW a \in Ips, NEW mac \in Macs, NEW forUs \in BOOLEAN,
         etharp_input(a, mac, forUs)
  PROVE  Delivery!Announce(a, mac)
<1>1. heard' = [heard EXCEPT ![a] = mac] /\ count' = count
  BY DEF etharp_input
<1> DEFINE w == WaitIn(table)[a]
           v == [WaitIn(table) EXCEPT ![a] = <<>>]
           G == [k \in DOMAIN w |-> Delivery!Frame(w[k], a, mac)]
<1>2. v[a] = <<>> /\ \A b \in Ips : b # a => v[b] = WaitIn(table)[b]
  BY WaitFunction
<1>3. w \in Seq(Nat)
  BY WaitTypes
<1>4. G = Frames(w, a, mac)
  BY DEF Frames, Delivery!Frame
<1>5. /\ Waiting = WaitIn(table) /\ Waiting' = WaitIn(table')
  BY WaitingIs
<1> HIDE DEF w, v, G
<1>6. CASE Updated(a, forUs) = {} /\ UNCHANGED <<table, held, out>>
  <2>1. Entries(a) = {} /\ Entries(a) = EntriesIn(table, a) /\ Unique(table)
    BY <1>6, NothingToUpdate, UniqueTables DEF IInv, TableInv, Entries, EntriesIn
  <2>2. w = <<>>
    BY <2>1, WaitOf DEF w
  <2>3. G = <<>>
    BY <2>2 DEF G
  <2>4. out' = out \o G
    BY <1>6, <2>3, ConcatEmptySeq DEF IInv, TypeOK
  <2>5. \A b \in Ips : WaitIn(table')[b] \in Delivery!Suffixes(v[b])
    <3> SUFFICES ASSUME NEW b \in Ips PROVE WaitIn(table)[b] \in Delivery!Suffixes(v[b])
      BY <1>6
    <3>1. v[b] = WaitIn(table)[b]
      BY <1>2, <2>2 DEF w
    <3> QED
      BY <3>1, WaitTypes, SuffixFacts
  <2>6. WaitIn(table') \in Delivery!Kept(v)
    BY <2>5, WaitFunction, KeptIf
  <2> QED
    BY <1>1, <1>5, <2>4, <2>6 DEF Delivery!Announce, v, G, w
<1>7. CASE \E i \in Updated(a, forUs) :
              LET e == EntryFor(a, i)
              IN  /\ table' = [table EXCEPT ![i] = Resolved(e, mac)]
                  /\ out' = out \o Frames(e.q, a, mac)
                  /\ held' = (held \ FreedFor(a, i)) \ Packets(e.q)
  <2>1. PICK i \in Updated(a, forUs) :
              /\ table' = [table EXCEPT ![i] = Resolved(EntryFor(a, i), mac)]
              /\ out' = out \o Frames(EntryFor(a, i).q, a, mac)
    BY <1>7
  <2>2. i \in Slots /\ (i \in Entries(a) \/ Entries(a) = {})
    BY UpdatedSlots DEF IInv
  <2> DEFINE e == EntryFor(a, i) r == Resolved(e, mac)
  <2>3. /\ e \in Entry /\ e.ip = a
        /\ e.q = IF i \in Entries(a) THEN table[i].q ELSE <<>>
    BY <2>2, EntryForTypes DEF IInv
  <2>4. table' = [table EXCEPT ![i] = r] /\ out' = out \o Frames(e.q, a, mac)
    BY <2>1
  <2> HIDE DEF e
  <2>5. r.st = "STABLE" /\ r.ip = a /\ r.q = <<>> /\ r.st # "EMPTY"
    BY <2>3 DEF Resolved, Entry
  <2>6. r \in Entry
    <3>1. table'[i] = r
      BY <2>2, <2>4 DEF IInv, TypeOK
    <3>2. table'[i] \in Entry
      BY <2>2 DEF IInv, TypeOK, Entry, Slots
    <3> QED
      BY <3>1, <3>2
  <2> HIDE DEF r
  <2>7. /\ w = e.q
        /\ WaitIn(table')[a] = <<>>
        /\ \A b \in Ips : b # a => \/ WaitIn(table')[b] = WaitIn(table)[b]
                                   \/ WaitIn(table')[b] = <<>>
    BY <2>2, <2>3, <2>4, <2>5, <2>6, PutWaiting DEF w
  <2>8. out' = out \o G
    BY <1>4, <2>4, <2>7
  <2>9. \A b \in Ips : WaitIn(table')[b] \in Delivery!Suffixes(v[b])
    <3> SUFFICES ASSUME NEW b \in Ips PROVE WaitIn(table')[b] \in Delivery!Suffixes(v[b])
      OBVIOUS
    <3>1. CASE b = a
      BY <3>1, <1>2, <2>7, EmptySeq, SuffixFacts
    <3>2. CASE b # a
      BY <3>2, <1>2, <2>7, WaitTypes, SuffixFacts
    <3> QED
      BY <3>1, <3>2
  <2>10. WaitIn(table') \in Delivery!Kept(v)
    BY <2>9, WaitFunction, KeptIf
  <2> QED
    BY <1>1, <1>5, <2>8, <2>10 DEF Delivery!Announce, v, G, w
<1> QED
  BY <1>6, <1>7 DEF etharp_input

LEMMA TmrDelivery ==
  ASSUME IInv, IInv', etharp_tmr
  PROVE  Delivery!Lose
<1> DEFINE Gone(i) == table[i].st = "EMPTY" \/ Expired(table[i])
<1>1. \A i \in Slots : table[i] \in Entry /\ table'[i] = Aged(table[i])
  BY SlotTypes DEF etharp_tmr, IInv
<1>2. \A i \in Slots : /\ Gone(i) => table'[i].st = "EMPTY"
                       /\ ~Gone(i) => /\ table'[i].ip = table[i].ip /\ table'[i].q = table[i].q
                                      /\ table[i].st # "EMPTY" /\ table'[i].st # "EMPTY"
  BY <1>1, AgedEntry, EmptyEntry
<1> HIDE DEF Gone
<1>3. Unique(table) /\ Unique(table')
  BY UniqueTables
<1>4. ASSUME NEW b \in Ips PROVE WaitIn(table')[b] \in Delivery!Suffixes(WaitIn(table)[b])
  <2>1. CASE EntriesIn(table', b) = {}
    <3>1. WaitIn(table')[b] = <<>>
      BY <2>1, <1>3, WaitOf
    <3> QED
      BY <3>1, WaitTypes, SuffixFacts
  <2>2. CASE EntriesIn(table', b) # {}
    <3>1. PICK k \in EntriesIn(table', b) : TRUE
      BY <2>2
    <3>2. k \in EntriesIn(table, b) /\ table'[k].q = table[k].q
      BY <3>1, <1>2 DEF EntriesIn
    <3>3. WaitIn(table')[b] = table'[k].q /\ WaitIn(table)[b] = table[k].q
      BY <3>1, <3>2, <1>3, WaitOf
    <3>4. WaitIn(table')[b] = WaitIn(table)[b]
      BY <3>2, <3>3
    <3> QED
      BY <3>4, WaitTypes, SuffixFacts
  <2> QED
    BY <2>1, <2>2
<1>5. WaitIn(table') \in Delivery!Kept(WaitIn(table))
  BY <1>4, WaitFunction, KeptIf
<1>6. Waiting' \in Delivery!Kept(Waiting)
  BY <1>5, WaitingIs
<1> QED
  BY <1>6 DEF Delivery!Lose, etharp_tmr

LEMMA NextDelivery == IInv /\ IInv' /\ [Next]_vars => [Delivery!Next]_(Delivery!vars)
<1> SUFFICES ASSUME IInv, IInv', [Next]_vars PROVE [Delivery!Next]_(Delivery!vars)
  OBVIOUS
<1>1. ASSUME NEW a \in Ips, etharp_output(a) PROVE Delivery!Next
  <2>1. count' = count + 1 /\ heard' = heard
    BY <1>1 DEF etharp_output
  <2>2. PICK requestOk, mem \in BOOLEAN : OutputStable(a, requestOk) \/ Query(a, mem)
    BY <1>1 DEF etharp_output
  <2>3. Delivery!Submit(a)
    BY <2>1, <2>2, OutputDelivery, QueryDelivery
  <2> QED
    BY <2>3 DEF Delivery!Next
<1>2. ASSUME NEW a \in Ips, NEW mac \in Macs, NEW forUs \in BOOLEAN, etharp_input(a, mac, forUs)
      PROVE  Delivery!Next
  <2>1. Delivery!Announce(a, mac)
    BY <1>2, InputDelivery
  <2> QED
    BY <2>1 DEF Delivery!Next
<1>3. CASE etharp_tmr
  BY <1>3, TmrDelivery DEF Delivery!Next
<1>4. CASE UNCHANGED vars
  <2>1. WaitIn(table') = WaitIn(table)
    BY <1>4 DEF vars
  <2>2. Waiting' = Waiting
    BY <2>1, WaitingIs
  <2> QED
    BY <1>4, <2>2 DEF vars, Delivery!vars
<1> QED
  BY <1>1, <1>2, <1>3, <1>4 DEF Next

\* The ARP table implements what IP relies on: packets wait, are lost from the
\* front or as a whole, or go out once, in order, to the address announced
\* last.
THEOREM TableDelivers == Spec => ImplementsDelivery
<1>1. Spec => Delivery!Init /\ [][Delivery!Next]_(Delivery!vars)
  BY InitDelivery, NextDelivery, IInvAlways, PTL DEF Spec
<1> QED
  BY <1>1 DEF ImplementsDelivery, Delivery!Spec
=============================================================================
