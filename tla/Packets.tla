---------------------------- MODULE Packets ----------------------------
(***************************************************************************)
(* The ways packets take through lwIP in this firmware and the pbufs they  *)
(* are made of: from the Ethernet driver through ethernet_input, ip4_input *)
(* and reassembly to ICMP, UDP and TCP, into the request list of the HTTP  *)
(* server; and from tcp_write and the ICMP replies through IP and ARP back *)
(* to the driver.  A pbuf may be held by several parties at once: the HTTP *)
(* server and tcp_input, TCP's send queue and the ARP queue.               *)
(*                                                                         *)
(* Lengths are in units; every header is a small number of them.  Received *)
(* packets are handled one at a time ("inp"), each layer in one action.    *)
(***************************************************************************)
EXTENDS Pbuf, SequencesExt

CONSTANTS
    Eth, Ip, Th,   \* lengths of the Ethernet, IP and transport headers
    FrameLens,     \* lengths of received frames
    Mss,           \* TCP_MSS
    Mtu,           \* netif->mtu
    MaxFrags,      \* bound: fragments waiting for reassembly
    MaxReq,        \* LWIP_HTTPD_REQ_QUEUELEN
    MaxSegs,       \* bound: segments on the connection's queues
    ArpQueueLen    \* ARP_QUEUE_LEN

ASSUME PacketsAssumption ==
    /\ {Eth, Ip, Th, Mss, Mtu} \subseteq Nat \ {0}
    /\ {MaxFrags, MaxReq, MaxSegs, ArpQueueLen} \subseteq Nat
    /\ FrameLens \subseteq 1..BufSize

VARIABLES
    pb,     \* the allocated pbufs
    inp,    \* the packet in the input path: its first pbuf and where it is
    frags,  \* fragments kept for reassembly, in order
    req,    \* hs->req of the connection
    segs,   \* the connection's segments, unacked before unsent
    arpq,   \* packets waiting for an ARP answer, with the length they must have on the wire
    wire,   \* every frame given to the driver had the length it must have
    fault   \* "none", "room": a header did not fit, "ref": a pbuf was freed twice

vars == << pb, inp, frags, req, segs, arpq, wire, fault >>
sending == << segs, arpq, wire >>

Nothing == [p |-> Null, at |-> "none"]
Transport == Eth + Ip + Th   \* PBUF_TRANSPORT, room for all headers
FreeIf(h, p) == IF p = Null THEN h ELSE PbufFree(h, p)

Init ==
    /\ pb = << >>
    /\ inp = Nothing
    /\ frags = << >> /\ segs = << >> /\ arpq = << >>
    /\ req = Null
    /\ wire = TRUE
    /\ fault = "none"

---------------------------------------------------------------------------
(* Output.  A context o is [h, arp, wire, room]. *)

Out == [h |-> pb, arp |-> arpq, wire |-> wire, room |-> TRUE]

(* ethernet_output puts the last header in front and hands the frame to the
   driver, which copies it. *)
EthernetOutput(o, p, want) ==
    IF ~CanAddHeader(o.h, p, Eth) THEN [o EXCEPT !.room = FALSE]
    ELSE [o EXCEPT !.h = AddHeader(@, p, Eth), !.wire = @ /\ o.h[p].tot + Eth = want]

(* etharp_query for a pending address: the packet itself waits, nothing is
   copied; the oldest packet makes place for it. *)
EtharpQueue(o, p, want) ==
    LET q == Append(o.arp, [p |-> p, want |-> want])
        h == PbufRef(o.h, p)
    IN  IF Len(o.arp) >= ArpQueueLen
        THEN [o EXCEPT !.h = PbufFree(h, Head(q).p), !.arp = Tail(q)]
        ELSE [o EXCEPT !.h = h, !.arp = q]

(* netif->output: the address is known, is asked for, or nothing can be done. *)
Routes == {"known", "asked", "no_memory"}
EtharpOutput(o, p, want, route) ==
    CASE route = "known" -> EthernetOutput(o, p, want)
      [] route = "asked" -> EtharpQueue(o, p, want)
      [] OTHER -> o

(* ip4_output_if *)
IpOutput(o, p, want, route) ==
    IF CanAddHeader(o.h, p, Ip)
    THEN EtharpOutput([o EXCEPT !.h = AddHeader(@, p, Ip)], p, want, route)
    ELSE [o EXCEPT !.room = FALSE]

Commit(o) ==
    /\ arpq' = o.arp /\ wire' = o.wire
    /\ fault' = IF o.room THEN fault ELSE "room"

(* etharp_update_arp_entry sends what waits for the answer. *)
ArpAnswer ==
    LET Step(o, e) == LET s == EthernetOutput(o, e.p, e.want)
                      IN  [s EXCEPT !.h = PbufFree(@, e.p)]
        sent == FoldLeft(Step, Out, arpq)
    IN  /\ arpq # << >>
        /\ pb' = sent.h
        /\ Commit([sent EXCEPT !.arp = << >>])
        /\ UNCHANGED << inp, frags, req, segs >>

(* etharp_free_entry: the entry is given up and its packets with it. *)
ArpGiveUp ==
    /\ arpq # << >>
    /\ pb' = FoldLeft(LAMBDA h, e : PbufFree(h, e.p), pb, arpq)
    /\ arpq' = << >>
    /\ UNCHANGED << inp, frags, req, segs, wire, fault >>

---------------------------------------------------------------------------
(* Input up to the transport layer. *)

(* low_level_input: without a pbuf the frame stays in the driver's ring. *)
Receive(n) ==
    LET a == PbufAlloc(pb, PoolIds, 0, n)
    IN  /\ inp = Nothing
        /\ a.p # Null
        /\ pb' = a.h
        /\ inp' = [p |-> a.p, at |-> "eth"]
        /\ UNCHANGED << frags, req, sending, fault >>

Discard ==
    /\ pb' = PbufFree(pb, inp.p)
    /\ inp' = Nothing
    /\ UNCHANGED << frags, req, sending, fault >>

(* ethernet_input: too short, or of a type nobody handles; otherwise on to IP. *)
EthernetInput(known) ==
    /\ inp.at = "eth"
    /\ IF pb[inp.p].len <= Eth \/ ~known THEN Discard
       ELSE /\ pb' = RemoveHeader(pb, inp.p, Eth)
            /\ inp' = [inp EXCEPT !.at = "ip"]
            /\ UNCHANGED << frags, req, sending, fault >>

(* ip4_input: the padding behind the datagram is cut off; a packet with a
   wrong length, checksum or address, or for another host, is dropped. *)
Ip4Input(iplen, good, next) ==
    LET h == IF iplen < pb[inp.p].tot THEN PbufRealloc(pb, inp.p, iplen) ELSE pb
    IN  /\ inp.at = "ip"
        /\ IF ~good \/ Ip > h[inp.p].len \/ iplen > h[inp.p].tot
           THEN /\ pb' = PbufFree(h, inp.p)
                /\ inp' = Nothing
           ELSE /\ pb' = IF next = "reass" THEN h ELSE RemoveHeader(h, inp.p, Ip)
                /\ inp' = [inp EXCEPT !.at = next]
        /\ UNCHANGED << frags, req, sending, fault >>

(* ip4_reass keeps a fragment, starting with its IP header. *)
ReassKeep ==
    /\ inp.at = "reass"
    /\ Len(frags) < MaxFrags
    /\ frags' = Append(frags, inp.p)
    /\ inp' = Nothing
    /\ UNCHANGED << pb, req, sending, fault >>

(* The headers of all fragments but the first are hidden. *)
ReassJoin(h, p, r) == PbufCat(RemoveHeader(h, r, Ip), p, r)

(* The last missing fragment has come: one chain goes on to the transport. *)
ReassFinish ==
    LET all == Append(frags, inp.p)
        h == FoldLeft(LAMBDA g, r : ReassJoin(g, all[1], r), pb, Tail(all))
    IN  /\ inp.at = "reass"
        /\ pb' = RemoveHeader(h, all[1], Ip)
        /\ inp' = [p |-> all[1], at |-> "transport"]
        /\ frags' = << >>
        /\ UNCHANGED << req, sending, fault >>

(* A fragment that cannot be used. *)
ReassDrop == inp.at = "reass" /\ Discard

(* ip_reass_free_complete_datagram, on time-out or for room. *)
ReassGiveUp ==
    /\ frags # << >> /\ inp.at \in {"none", "reass"}
    /\ pb' = FoldLeft(PbufFree, pb, frags)
    /\ frags' = << >>
    /\ UNCHANGED << inp, req, sending, fault >>

---------------------------------------------------------------------------
(* ICMP and UDP *)

TransportDrop == inp.at = "transport" /\ Discard

(* icmp_input answers an echo request in the pbufs of the request, because
   the headers in front of a received packet leave room for the reply's. *)
IcmpEcho(route) ==
    LET p == inp.p
        want == pb[p].tot + Ip + Eth
        o == IF CanAddHeader(pb, p, Ip + Eth)
             THEN EtharpOutput([Out EXCEPT !.h = AddHeader(@, p, Ip)], p, want, route)
             ELSE [Out EXCEPT !.room = FALSE]
    IN  /\ inp.at = "transport"
        /\ pb[p].len >= Th
        /\ pb[p].tot + Ip <= Mtu
        /\ pb' = PbufFree(o.h, p)
        /\ Commit(o)
        /\ inp' = Nothing
        /\ UNCHANGED << frags, req, segs >>

(* A port or protocol nobody listens to: icmp_dest_unreach answers with a
   new packet that quotes the IP header and the start of the data. *)
Unreachable(route) ==
    LET p == inp.p
        n == Th + Ip + Th
        a == PbufAlloc(AddHeader(pb, p, Ip), RamIds, Eth + Ip, n)
        o == IF a.p = Null THEN [Out EXCEPT !.h = a.h]
             ELSE LET s == IpOutput([Out EXCEPT !.h = a.h], a.p, n + Ip + Eth, route)
                  IN  [s EXCEPT !.h = PbufFree(@, a.p)]
    IN  /\ inp.at = "transport"
        /\ pb[p].len >= Th
        /\ pb' = PbufFree(o.h, p)
        /\ Commit(o)
        /\ inp' = Nothing
        /\ UNCHANGED << frags, req, segs >>

---------------------------------------------------------------------------
(* TCP input and the HTTP server's request *)

(* tcp_input moves over the TCP header and its options.  Options that do not
   fit the first pbuf go on in the second. *)
StripOptions(h, p, opt) ==
    LET o1 == h[p].len - Th
        h1 == RemoveHeader(RemoveHeader(h, p, Th), p, o1)
        h2 == RemoveHeader(h1, h[p].next, opt - o1)
    IN  IF h[p].len >= Th + opt THEN RemoveHeader(h, p, Th + opt)
        ELSE [h2 EXCEPT ![p].tot = @ - (opt - o1)]

OptionsFit(h, p, opt) ==
    h[p].len < Th + opt => opt - (h[p].len - Th) <= h[h[p].next].len

(* tcp_receive cuts off data it has already: pbufs are emptied, not freed. *)
TrimFront(h, p, n) ==
    LET s == Chain(h, p)
        k == Min({j \in DOMAIN s : BytesOf(h, s, j) >= n})
        h1 == [q \in DOMAIN h |-> IF q \in {s[j] : j \in 1..k - 1}
                                  THEN [h[q] EXCEPT !.len = 0, !.tot = h[p].tot - n] ELSE h[q]]
    IN  RemoveHeader(h1, s[k], n - BytesOf(h, s, k - 1))

(* Mutant: the request list keeps the pbuf without a reference of its own. *)
HttpRecvNoRef(h, p, more) ==
    LET g == IF req = Null THEN h ELSE PbufCat(h, req, p)
        first == IF req = Null THEN p ELSE req
    IN  IF more THEN [h |-> PbufFree(g, p), req |-> first]
        ELSE [h |-> PbufFree(PbufFree(PbufRef(g, p), first), p), req |-> Null]

(* http_recv and the queueing in http_parse_request: the pbuf joins the
   request; when the request is complete or wrong, all of it is freed. *)
HttpRecv(h, p, more) ==
    LET g == PbufRef(IF req = Null THEN h ELSE PbufCat(h, req, p), p)
        first == IF req = Null THEN p ELSE req
    IN  IF more /\ Len(Chain(g, first)) <= MaxReq
        THEN [h |-> PbufFree(g, p), req |-> first]
        ELSE [h |-> PbufFree(PbufFree(g, first), p), req |-> Null]

(* tcp_input with data for the connection: front bytes are known already,
   the window ends after keep bytes.  Without data left, TCP frees it. *)
TcpInput(opt, front, keep, more) ==
    LET p == inp.p
        h1 == StripOptions(pb, p, opt)
        h2 == IF front > 0 THEN TrimFront(h1, p, front) ELSE h1
        h3 == PbufRealloc(h2, p, keep)
        r == IF h3[p].tot > 0 THEN HttpRecv(h3, p, more) ELSE [h |-> PbufFree(h3, p), req |-> req]
    IN  /\ inp.at = "transport"
        /\ pb[p].len >= Th /\ Th + opt <= pb[p].tot
        /\ OptionsFit(pb, p, opt)
        /\ front <= h1[p].tot
        /\ pb' = r.h /\ req' = r.req
        /\ inp' = Nothing
        /\ UNCHANGED << frags, sending, fault >>

(* Data that arrives while the answer is being sent is ignored. *)
TcpIgnored ==
    /\ inp.at = "transport" /\ pb[inp.p].len >= Th
    /\ pb' = PbufFree(StripOptions(pb, inp.p, 0), inp.p)
    /\ inp' = Nothing
    /\ UNCHANGED << frags, req, sending, fault >>

(* The connection ends: http_state_eof and tcp_pcb_purge. *)
ConnectionEnds ==
    /\ inp = Nothing /\ (req # Null \/ segs # << >>)
    /\ pb' = FoldLeft(LAMBDA h, s : PbufFree(h, s.p), FreeIf(pb, req), segs)
    /\ req' = Null /\ segs' = << >>
    /\ UNCHANGED << inp, frags, arpq, wire, fault >>

---------------------------------------------------------------------------
(* TCP output *)

Unsent == {i \in DOMAIN segs : segs[i].st # "unacked"}
Useg == Min(Unsent)
Segment(h, p, n, st) == [p |-> p, len |-> n, hdr |-> h[p].off, st |-> st]

(* tcp_write of n bytes that need not be copied: the last unsent segment is
   filled up, in its last pbuf when the data continues it; the rest becomes
   a segment of its own.  When anything is missing, all is given back. *)
TcpWrite(n, contiguous, avail) ==
    LET last == segs[Len(segs)]
        open == Unsent # {}
        fill == IF open THEN Min({n, Mss - last.len}) ELSE 0
        tail == Chain(pb, last.p)[Len(Chain(pb, last.p))]
        extend == open /\ tail \in RomIds /\ contiguous
        c == IF fill > 0 /\ ~extend THEN PbufAlloc(pb, RomIds, 0, fill) ELSE [h |-> pb, p |-> Null]
        d == PbufAlloc(c.h, RomIds, 0, n - fill)
        e == PbufAlloc(d.h, RamIds, Transport, 0)
        g == AddHeader(PbufCat(e.h, e.p, d.p), e.p, Th)
        Filled(h) ==
            IF fill = 0 THEN h
            ELSE IF ~extend THEN PbufCat(h, last.p, c.p)
            ELSE [q \in DOMAIN h |->
                    IF q \in Range(Chain(h, last.p))
                    THEN [h[q] EXCEPT !.tot = @ + fill, !.len = IF q = tail THEN @ + fill ELSE @,
                                      !.cap = IF q = tail THEN @ + fill ELSE @]
                    ELSE h[q]]
        longer == IF fill = 0 THEN segs
                  ELSE [segs EXCEPT ![Len(segs)].len = @ + fill, ![Len(segs)].st = "new"]
    IN  /\ inp = Nothing
        /\ \/ /\ fill > 0 /\ ~extend /\ c.p = Null
              /\ UNCHANGED << pb, segs >>
           \/ /\ fill = n /\ (extend \/ c.p # Null)
              /\ pb' = Filled(c.h) /\ segs' = longer
           \/ /\ fill < n /\ (fill = 0 \/ extend \/ c.p # Null)
              /\ \/ d.p = Null /\ pb' = FreeIf(c.h, c.p) /\ segs' = segs
                 \/ d.p # Null /\ e.p = Null /\ pb' = FreeIf(PbufFree(d.h, d.p), c.p) /\ segs' = segs
                 \/ /\ d.p # Null /\ e.p # Null /\ ~avail
                    /\ pb' = FreeIf(PbufFree(PbufCat(e.h, e.p, d.p), e.p), c.p)
                    /\ segs' = segs
                 \/ /\ d.p # Null /\ e.p # Null /\ avail /\ Len(segs) < MaxSegs
                    /\ pb' = Filled(g)
                    /\ segs' = Append(longer, Segment(g, e.p, n - fill, "new"))
        /\ UNCHANGED << inp, frags, req, arpq, wire, fault >>

(* Mutant: nobody is ever taken to hold the segment. *)
BusyNever(s) == FALSE

(* tcp_output_segment_busy: the segment is still in the ARP queue. *)
Busy(s) == pb[s.p].ref # 1

(* The payload goes back to the TCP header after an earlier transmission. *)
ToTcpHeader(h, s) == RemoveHeader(h, s.p, s.hdr - h[s.p].off)

(* tcp_output for the first unsent segment. *)
TcpOutput(route) ==
    LET s == segs[Useg]
        o == IF Busy(s) THEN Out
             ELSE IpOutput([Out EXCEPT !.h = ToTcpHeader(@, s)], s.p, Transport + s.len, route)
        ok == Busy(s) \/ (o.room /\ route # "no_memory")
    IN  /\ inp = Nothing /\ Unsent # {}
        /\ pb' = o.h
        /\ Commit(o)
        /\ segs' = IF ok THEN [segs EXCEPT ![Useg].st = "unacked"] ELSE segs
        /\ UNCHANGED << inp, frags, req >>

(* tcp_rexmit_rto_prepare: all of the flight is to be sent again, unless a
   segment of it is still held below. *)
TcpRexmit ==
    /\ inp = Nothing
    /\ \E i \in DOMAIN segs : segs[i].st = "unacked"
    /\ \A i \in DOMAIN segs : segs[i].st = "unacked" => ~Busy(segs[i])
    /\ segs' = [i \in DOMAIN segs |->
                   [segs[i] EXCEPT !.st = IF @ = "unacked" THEN "again" ELSE @]]
    /\ UNCHANGED << pb, inp, frags, req, arpq, wire, fault >>

(* tcp_free_acked_segments: an acknowledged segment, sent once at least. *)
TcpAcked ==
    /\ inp = Nothing
    /\ segs # << >> /\ segs[1].st # "new"
    /\ pb' = PbufFree(pb, segs[1].p)
    /\ segs' = Tail(segs)
    /\ UNCHANGED << inp, frags, req, arpq, wire, fault >>

(* tcp_split_unsent_seg: the first n bytes stay, the remainder is copied to
   a new segment.  Without a tcp_seg for it tcp_create_segment frees the new
   pbuf, and the error path frees it once more. *)
TcpSplit(n, avail) ==
    LET u == segs[Useg]
        rest == u.len - n
        a == PbufAlloc(pb, RamIds, Transport, rest)
        g == AddHeader(a.h, a.p, Th)
        h == PbufRealloc(g, u.p, g[u.p].tot - rest)
        new == Segment(g, a.p, rest, u.st)
    IN  /\ inp = Nothing /\ Unsent # {} /\ n < u.len
        /\ a.p # Null
        /\ \/ /\ avail /\ Len(segs) < MaxSegs
              /\ pb' = h
              /\ segs' = InsertAt([segs EXCEPT ![Useg].len = n], Useg + 1, new)
              /\ UNCHANGED fault
           \/ /\ ~avail
              /\ pb' = PbufFree(a.h, a.p)
              /\ fault' = IF a.p \in DOMAIN pb' THEN fault ELSE "ref"
              /\ UNCHANGED segs
        /\ UNCHANGED << inp, frags, req, arpq, wire >>

---------------------------------------------------------------------------
Sizes == 0..Max(FrameLens)

Input ==
    \/ \E n \in FrameLens : Receive(n)
    \/ \E known \in BOOLEAN : EthernetInput(known)
    \/ \E iplen \in Sizes, good \in BOOLEAN, next \in {"reass", "transport"} :
          Ip4Input(iplen, good, next)
    \/ ReassKeep \/ ReassFinish \/ ReassDrop \/ ReassGiveUp
    \/ TransportDrop
    \/ \E route \in Routes : IcmpEcho(route) \/ Unreachable(route)
    \/ \E opt \in 0..1, front \in Sizes, keep \in Sizes \ {0}, more \in BOOLEAN :
          TcpInput(opt, front, keep, more)
    \/ TcpIgnored
    \/ ConnectionEnds

Output ==
    \/ ArpAnswer \/ ArpGiveUp
    \/ \E n \in 1..Mss, contiguous, avail \in BOOLEAN : TcpWrite(n, contiguous, avail)
    \/ \E route \in Routes : TcpOutput(route)
    \/ TcpRexmit \/ TcpAcked
    \/ \E n \in 1..Mss, avail \in BOOLEAN : TcpSplit(n, avail)

Next == fault = "none" /\ (Input \/ Output)

Spec == Init /\ [][Next]_vars

---------------------------------------------------------------------------
(* Properties *)

Held == Range(frags) \cup {s.p : s \in Range(segs)} \cup {e.p : e \in Range(arpq)}
            \cup ({inp.p, req} \ {Null})

TypeOK ==
    /\ DOMAIN pb \subseteq Ids /\ Range(pb) \subseteq Fields
    /\ inp.p \in DOMAIN pb \cup {Null}
    /\ inp.at \in {"none", "eth", "ip", "reass", "transport"}
    /\ (inp.p = Null) = (inp.at = "none")
    /\ Held \subseteq DOMAIN pb
    /\ wire \in BOOLEAN /\ fault \in {"none", "room", "ref"}

(* Every reference count is the number of parties that hold the pbuf plus
   the pbufs that point to it (pbuf_free: "the reference counter of a pbuf
   equals the number of pointers that refer to the pbuf"). *)
RefsExact ==
    \A p \in DOMAIN pb :
        pb[p].ref = Cardinality({i \in DOMAIN frags : frags[i] = p})
                  + Cardinality({i \in DOMAIN segs : segs[i].p = p})
                  + Cardinality({i \in DOMAIN arpq : arpq[i].p = p})
                  + Cardinality({q \in DOMAIN pb : pb[q].next = p})
                  + (IF req = p THEN 1 ELSE 0) + (IF inp.p = p THEN 1 ELSE 0)

(* Nothing leaks and nothing is freed too early: what is allocated is exactly
   what somebody holds, directly or in a chain. *)
HeldIsLive == DOMAIN pb = UNION {Range(Chain(pb, p)) : p \in Held}

(* tot_len is the number of bytes from a pbuf to the end of its chain,
   through concatenation, trimming at both ends and splitting. *)
TotalsExact ==
    \A p \in DOMAIN pb :
        pb[p].tot = pb[p].len + (IF pb[p].next = Null THEN 0 ELSE pb[pb[p].next].tot)

(* The payload stays inside its buffer. *)
PayloadInside == \A p \in DOMAIN pb : pb[p].off + pb[p].len <= pb[p].cap

(* Every frame given to the driver is its headers and its data, no more and
   no less, also when it waited for ARP, was sent before, or was split. *)
FramesWhole == wire

(* Headers always fit in front of an outgoing packet: replies in received
   pbufs and segments that are sent again included. *)
RoomForHeaders == fault # "room"

(* Nobody frees what another party still uses, and nothing is lost. *)
RefsSafe == TypeOK /\ RefsExact /\ HeldIsLive

(* The lengths that pbuf.c, tcp_in.c and tcp_out.c adjust by hand are exact. *)
LengthsSafe == TotalsExact /\ PayloadInside

(* What reaches the driver is whole, and no header fails for want of room. *)
OutputWhole == FramesWhole /\ RoomForHeaders

(* No pbuf is freed that is not allocated (the assertion of pbuf_free).  Not so
   when a split finds no tcp_seg (README, Disagreements). *)
FreedOnce == fault # "ref"

==========================================================================
