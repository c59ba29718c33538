------------------------------- MODULE Etharp -------------------------------
(***************************************************************************)
(* The ARP table of lwIP (etharp.c): its entries, the packets queued on    *)
(* those that wait for an answer, the recycling of entries when the table  *)
(* is full, ageing, and the index etharp_output tries first.               *)
(*                                                                         *)
(* An address is the next hop: the gateway's for hosts outside the local   *)
(* network.  Broadcasts and multicasts do not touch the table.  Broadcast  *)
(* and unicast requests are not told apart.  netif_set_down, which empties *)
(* the table, has no caller in this firmware.                              *)
(***************************************************************************)
EXTENDS Naturals, Sequences

CONSTANTS Ips, Macs, NoIp, NoMac,
          TableSize,    \* ARP_TABLE_SIZE
          QueueLen,     \* ARP_QUEUE_LEN
          MaxAge,       \* ARP_MAXAGE
          Rerequest,    \* ARP_AGE_REREQUEST_USED_UNICAST
          MaxPending,   \* ARP_MAXPENDING
          MaxPackets    \* bound: packets IP sends

ASSUME EtharpAssumption ==
    /\ NoIp \notin Ips /\ NoMac \notin Macs
    /\ {TableSize, QueueLen, MaxAge, MaxPending} \subseteq Nat \ {0}
    /\ {Rerequest, MaxPackets} \subseteq Nat

VARIABLES table,     \* arp_table
          hint,      \* etharp_cached_entry
          held,      \* packets referenced from an element of MEMP_ARP_QUEUE
          asked,     \* addresses the last step tried to send a request for
          heard,     \* history: the hardware address each host announced last
          out,       \* history: packets handed to ethernet_output
          count      \* packets so far

vars == <<table, hint, held, asked, heard, out, count>>

Slots == 1 .. TableSize

Stable == {"STABLE", "REREQUESTING_1", "REREQUESTING_2"}

Empty == [st |-> "EMPTY", ip |-> NoIp, mac |-> NoMac, ctime |-> 0, q |-> <<>>]

Init == /\ table = [i \in Slots |-> Empty]
        /\ hint = 1
        /\ held = {}
        /\ asked = {}
        /\ heard = [a \in Ips |-> NoMac]
        /\ out = <<>>
        /\ count = 0

Packets(q) == {q[i] : i \in DOMAIN q}

Frames(q, a, mac) == [i \in DOMAIN q |-> [pkt |-> q[i], ip |-> a, mac |-> mac]]

-----------------------------------------------------------------------------
(***************************************************************************)
(* etharp_find_entry                                                       *)
(***************************************************************************)
Entries(a) == {i \in Slots : table[i].st # "EMPTY" /\ table[i].ip = a}

EmptySlots == {i \in Slots : table[i].st = "EMPTY"}

First(S) == {i \in S : \A j \in S : i <= j}

\* The oldest entries, the last one among those of the same age.
Oldest(S) == {i \in S : \A j \in S \ {i} :
                 \/ table[j].ctime < table[i].ctime
                 \/ table[j].ctime = table[i].ctime /\ j < i}

\* What is recycled when no entry is empty: stable, pending with nothing queued,
\* pending with a queue, in this order.
Recycled ==
    LET stable == {i \in Slots : table[i].st \in Stable}
        idle == {i \in Slots : table[i].st = "PENDING" /\ table[i].q = <<>>}
        busy == {i \in Slots : table[i].st = "PENDING" /\ table[i].q # <<>>}
    IN  IF stable # {} THEN Oldest(stable)
        ELSE IF idle # {} THEN Oldest(idle) ELSE Oldest(busy)

\* Mutant: an empty entry ends the search.
FoundEager(a) ==
    IF EmptySlots # {} THEN First(EmptySlots)
    ELSE IF Entries(a) # {} THEN First(Entries(a)) ELSE Recycled

\* The slot found for a, with ETHARP_FLAG_TRY_HARD.
Found(a) ==
    IF Entries(a) # {} THEN First(Entries(a))
    ELSE IF EmptySlots # {} THEN First(EmptySlots) ELSE Recycled

\* Packets of the entry that is recycled for a: etharp_free_entry.
FreedFor(a, i) == IF i \in Entries(a) THEN {} ELSE Packets(table[i].q)

\* The entry in its slot, a fresh one unless it was found.
EntryFor(a, i) == IF i \in Entries(a) THEN table[i] ELSE [Empty EXCEPT !.ip = a]

-----------------------------------------------------------------------------
(***************************************************************************)
(* Sending                                                                 *)
(***************************************************************************)
\* Mutant: the address of a cached entry is not compared.
SendableSlotsAny(a) ==
    LET match == {i \in Slots : table[i].st \in Stable /\ table[i].ip = a}
    IN  IF table[hint].st \in Stable THEN {hint} ELSE First(match)

\* The stable entry etharp_output uses: the cached one if it matches.
SendableSlots(a) ==
    LET match == {i \in Slots : table[i].st \in Stable /\ table[i].ip = a}
    IN  IF hint \in match THEN {hint} ELSE First(match)

\* An entry close to its end is requested again, if the request can be sent.
NeedsRerequest(i) == table[i].st = "STABLE" /\ table[i].ctime >= Rerequest

\* etharp_output finds a stable entry: etharp_output_to_arp_index.
OutputStable(a, requestOk) ==
    /\ \E i \in SendableSlots(a) :
          /\ hint' = i
          /\ out' = Append(out, [pkt |-> count', ip |-> a, mac |-> table[i].mac])
          /\ asked' = IF NeedsRerequest(i) THEN {table[i].ip} ELSE {}
          /\ IF NeedsRerequest(i) /\ requestOk
             THEN table' = [table EXCEPT ![i].st = "REREQUESTING_1"]
             ELSE UNCHANGED table
    /\ UNCHANGED held

\* The packets pushed out of a full queue.
Pushed(q) == IF Len(q) >= QueueLen THEN {q[1]} ELSE {}

Queued(q, p) == IF Len(q) >= QueueLen THEN Tail(Append(q, p)) ELSE Append(q, p)

\* etharp_query with a packet: no stable entry is there.
Query(a, mem) ==
    /\ SendableSlots(a) = {}
    /\ \E i \in Found(a) :
          LET e == [EntryFor(a, i) EXCEPT !.st = "PENDING"]
          IN  /\ asked' = IF i \in Entries(a) THEN {} ELSE {a}
              /\ table' = [table EXCEPT ![i] = IF mem THEN [e EXCEPT !.q = Queued(@, count')]
                                               ELSE e]
              /\ held' = IF mem THEN (held \ (FreedFor(a, i) \cup Pushed(e.q))) \cup {count'}
                         ELSE held \ FreedFor(a, i)
    /\ UNCHANGED <<hint, out>>

etharp_output(a) ==
    /\ count < MaxPackets
    /\ count' = count + 1
    /\ \E requestOk, mem \in BOOLEAN : OutputStable(a, requestOk) \/ Query(a, mem)
    /\ UNCHANGED heard

-----------------------------------------------------------------------------
(***************************************************************************)
(* Input and the timer                                                     *)
(***************************************************************************)
\* The slots an ARP packet may update: with FIND_ONLY, existing entries.
Updated(a, forUs) == IF forUs THEN Found(a) ELSE First(Entries(a))

Resolved(e, mac) == [e EXCEPT !.st = "STABLE", !.mac = mac, !.ctime = 0, !.q = <<>>]

\* etharp_input and etharp_update_arp_entry: host a announces its address.
etharp_input(a, mac, forUs) ==
    /\ \/ /\ Updated(a, forUs) = {}
          /\ UNCHANGED <<table, held, out>>
       \/ \E i \in Updated(a, forUs) :
             LET e == EntryFor(a, i)
             IN  /\ table' = [table EXCEPT ![i] = Resolved(e, mac)]
                 /\ out' = out \o Frames(e.q, a, mac)
                 /\ held' = (held \ FreedFor(a, i)) \ Packets(e.q)
    /\ heard' = [heard EXCEPT ![a] = mac]
    /\ asked' = {}
    /\ UNCHANGED <<hint, count>>

Expired(e) == /\ e.st # "EMPTY"
              /\ \/ e.ctime + 1 >= MaxAge
                 \/ e.st = "PENDING" /\ e.ctime + 1 >= MaxPending

\* Mutant: an entry that is requested again does not get older.
AgedNotPending(e) ==
    IF e.st \in {"EMPTY", "PENDING"} THEN e
    ELSE IF Expired(e) THEN Empty ELSE [e EXCEPT !.ctime = @ + 1]

\* One entry in etharp_tmr.
Aged(e) ==
    IF e.st = "EMPTY" \/ Expired(e) THEN Empty
    ELSE [e EXCEPT !.ctime = @ + 1,
                   !.st = CASE e.st = "REREQUESTING_1" -> "REREQUESTING_2"
                            [] e.st = "REREQUESTING_2" -> "STABLE"
                            [] OTHER -> e.st]

etharp_tmr ==
    /\ table' = [i \in Slots |-> Aged(table[i])]
    /\ held' = held \ UNION {Packets(table[i].q) : i \in {j \in Slots : Expired(table[j])}}
    /\ asked' = {table'[i].ip : i \in {j \in Slots : table'[j].st = "PENDING"}}
    /\ UNCHANGED <<hint, heard, out, count>>

Next == \/ \E a \in Ips : etharp_output(a)
        \/ \E a \in Ips, mac \in Macs, forUs \in BOOLEAN : etharp_input(a, mac, forUs)
        \/ etharp_tmr

Spec == Init /\ [][Next]_vars

\* The cyclic timer calls etharp_tmr every second.
FairSpec == Spec /\ WF_vars(etharp_tmr)

-----------------------------------------------------------------------------
(***************************************************************************)
(* Properties                                                              *)
(***************************************************************************)
\* The types of the variables.
TypeOK ==
    /\ table \in [Slots -> [st : Stable \cup {"EMPTY", "PENDING"}, ip : Ips \cup {NoIp},
                            mac : Macs \cup {NoMac}, ctime : 0 .. MaxAge - 1, q : Seq(Nat)]]
    /\ hint \in Slots
    /\ held \subseteq Nat
    /\ asked \subseteq Ips
    /\ heard \in [Ips -> Macs \cup {NoMac}]
    /\ out \in Seq([pkt : Nat, ip : Ips, mac : Macs \cup {NoMac}])
    /\ count \in Nat

\* No address ever has two entries, however entries are recycled.
OneEntryPerAddress ==
    \A i, j \in Slots : table[i].st # "EMPTY" /\ table[j].st # "EMPTY" /\ table[i].ip = table[j].ip
                        => i = j

\* Packets are queued on pending entries only, as etharp_find_entry asserts when
\* it recycles a stable one.
QueueOnlyPending == \A i \in Slots : table[i].q # <<>> => table[i].st = "PENDING"

\* A stable entry has the hardware address its host announced last, also if the
\* announcement was for somebody else.
StableIsLatest ==
    \A i \in Slots : table[i].st \in Stable => table[i].mac = heard[table[i].ip]

\* The references and queue elements in use are those of the packets in the
\* queues: none is leaked and none is freed while it is queued.
HeldExact == held = UNION {Packets(table[i].q) : i \in Slots}

\* What etharp_find_entry, etharp_query, etharp_input and etharp_tmr keep together
\* however they are interleaved and entries recycled.
TableSafe ==
    TypeOK /\ OneEntryPerAddress /\ QueueOnlyPending /\ StableIsLatest /\ HeldExact

Waiting == [a \in Ips |-> IF Entries(a) = {} THEN <<>> ELSE table[CHOOSE i \in Entries(a) : TRUE].q]

Delivery == INSTANCE ArpDelivery WITH waiting <- Waiting

\* Packets wait, are lost or are sent in order to the address announced last.
ImplementsDelivery == Delivery!Spec

\* A packet does not wait for ever for a host that does not answer.
NoEndlessWait == \A p \in 1 .. MaxPackets : (p \in held) ~> (p \notin held)

\* As etharp_query's comment says, a packet for a pending address sends a new
\* request.  Not so (README, Disagreements).
PendingAsksAgain ==
    [][\A a \in Ips : Len(Waiting'[a]) > Len(Waiting[a]) => a \in asked']_vars
=============================================================================
