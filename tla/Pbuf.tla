---------------------------- MODULE Pbuf ----------------------------
(***************************************************************************)
(* lwIP's packet buffers (core/pbuf.c) as operators on a heap of pbufs:    *)
(* a function from the pbufs that are allocated to their fields.  A pbuf   *)
(* is a number; the numbers are divided into the three places a pbuf can   *)
(* come from: the pool of the Ethernet driver, the pool of the pbufs that  *)
(* only refer to constant data (PBUF_ROM), and the heap (PBUF_RAM).        *)
(* "off" is the distance of the payload from the start of the buffer and   *)
(* "cap" the size of the buffer, both without struct pbuf itself.          *)
(***************************************************************************)
EXTENDS Integers, Sequences, FiniteSets, FiniteSetsExt

CONSTANTS
    PoolSize,  \* PBUF_POOL_SIZE
    RomSize,   \* MEMP_NUM_PBUF
    RamSize,   \* how many pbufs the heap has room for
    BufSize    \* payload of a pbuf of the pool (PBUF_POOL_BUFSIZE)

ASSUME PbufAssumption == {PoolSize, RomSize, RamSize, BufSize} \subseteq Nat

Null == 0
PoolIds == 1..PoolSize
RomIds == PoolSize + 1..PoolSize + RomSize
RamIds == PoolSize + RomSize + 1..PoolSize + RomSize + RamSize
Ids == PoolIds \cup RomIds \cup RamIds

Fields == [next : Ids \cup {Null}, len : Nat, tot : Nat, ref : Nat, off : Nat, cap : Nat]

(* The pbufs of the chain that starts at p, in order. *)
Chain(h, p) ==
    LET from[q \in DOMAIN h \cup {Null}] ==
            IF q = Null THEN << >> ELSE << q >> \o from[h[q].next]
    IN  from[p]

(* pbuf_alloc finds memory for one pbuf among ids, or returns NULL.  The
   frames of this firmware fit a single pbuf of the pool, so the loop over
   a chain of them runs once. *)
PbufAlloc(h, ids, layer, n) ==
    LET free == ids \ DOMAIN h
        p == Min(free)
        size == IF ids = PoolIds THEN BufSize ELSE layer + n
        new == [next |-> Null, len |-> n, tot |-> n, ref |-> 1, off |-> layer, cap |-> size]
    IN  IF free = {} THEN [h |-> h, p |-> Null]
        ELSE [h |-> [q \in DOMAIN h \cup {p} |-> IF q = p THEN new ELSE h[q]], p |-> p]

(* pbuf_free: from p on, every pbuf with a single reference is deallocated;
   the first with more references loses one and ends the walk. *)
PbufFree(h, p) ==
    LET s == Chain(h, p)
        k == Min({j \in DOMAIN s : h[s[j]].ref # 1} \cup {Len(s) + 1})
        gone == {s[j] : j \in 1..k - 1}
    IN  [q \in DOMAIN h \ gone |->
            IF k <= Len(s) /\ q = s[k] THEN [h[q] EXCEPT !.ref = @ - 1] ELSE h[q]]

PbufRef(h, p) == [h EXCEPT ![p].ref = @ + 1]

(* pbuf_cat(p, t) takes over the caller's reference to t. *)
PbufCat(h, p, t) ==
    LET s == Chain(h, p)
        last == s[Len(s)]
    IN  [q \in DOMAIN h |->
            IF q \in {s[j] : j \in DOMAIN s}
            THEN [h[q] EXCEPT !.tot = @ + h[t].tot, !.next = IF q = last THEN t ELSE @]
            ELSE h[q]]

(* Bytes in the first n pbufs of the chain s. *)
BytesOf(h, s, n) == MapThenSumSet(LAMBDA j : h[s[j]].len, 1..n)

(* Mutant: the totals of the pbufs in front of the new last one stay. *)
PbufReallocOldTotals(h, p, n) ==
    LET s == Chain(h, p)
        k == Min({j \in DOMAIN s : BytesOf(h, s, j) >= n})
        rem == n - BytesOf(h, s, k - 1)
        last == [h[s[k]] EXCEPT !.len = rem, !.tot = rem]
        freed == IF last.next = Null THEN h ELSE PbufFree(h, last.next)
    IN  IF n >= h[p].tot THEN h ELSE [freed EXCEPT ![s[k]] = [last EXCEPT !.next = Null]]

(* pbuf_realloc: the chain is shortened to n bytes.  A pbuf of the heap is
   trimmed with mem_trim; the pbufs behind the new last one are freed. *)
PbufRealloc(h, p, n) ==
    LET s == Chain(h, p)
        k == Min({j \in DOMAIN s : BytesOf(h, s, j) >= n})
        rem == n - BytesOf(h, s, k - 1)
        last == [h[s[k]] EXCEPT !.len = rem, !.tot = rem,
                                !.cap = IF s[k] \in RamIds /\ rem # h[s[k]].len
                                        THEN h[s[k]].off + rem ELSE @]
        cut == [q \in DOMAIN h |->
                   IF q \in {s[j] : j \in 1..k - 1} THEN [h[q] EXCEPT !.tot = @ - (h[p].tot - n)]
                   ELSE IF q = s[k] THEN last ELSE h[q]]
        freed == IF last.next = Null THEN cut ELSE PbufFree(cut, last.next)
    IN  IF n >= h[p].tot THEN h ELSE [freed EXCEPT ![s[k]].next = Null]

(* pbuf_add_header fails for want of room in front, and for a pbuf that only
   refers to its data; pbuf_remove_header fails for more than the pbuf has. *)
CanAddHeader(h, p, n) == p \notin RomIds /\ h[p].off >= n
AddHeader(h, p, n) == [h EXCEPT ![p].off = @ - n, ![p].len = @ + n, ![p].tot = @ + n]
RemoveHeader(h, p, n) ==
    IF n > h[p].len THEN h
    ELSE [h EXCEPT ![p].off = @ + n, ![p].len = @ - n, ![p].tot = @ - n]

=====================================================================
