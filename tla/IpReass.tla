------------------------------ MODULE IpReass -------------------------------
(***************************************************************************)
(* Reassembly of fragmented IP datagrams (ip4_frag.c) with the pool that   *)
(* the Ethernet driver receives into.  The network may lose, repeat and    *)
(* reorder fragments, and different routers may cut a datagram             *)
(* differently.                                                            *)
(*                                                                         *)
(* Positions in a datagram are in units of data.  A datagram is known by   *)
(* its source, destination and identification, together an element of Ids. *)
(***************************************************************************)
EXTENDS Integers, FiniteSets, Sequences, SequencesExt

CONSTANTS Ids,
          Fragments,   \* what may arrive: see FragmentsAssumption
          Length,      \* Length[id]: of the whole datagram
          MaxLen,      \* 0xFFFF - IP_HLEN
          Wrap,        \* the largest offset of a u16_t
          NumReass,    \* MEMP_NUM_REASSDATA
          MaxPbufs,    \* IP_REASS_MAX_PBUFS
          MaxAge,      \* IP_REASS_MAXAGE
          PoolSize     \* PBUF_POOL_SIZE

\* A fragment has the bytes from start to end of its datagram, in clen pbufs; bad
\* ones have options in their header.
FragmentsAssumption ==
    \A f \in Fragments : /\ f.id \in Ids /\ f.start \in Nat /\ f.end \in Nat /\ f.clen \in Nat \ {0}
                         /\ f.start < f.end /\ f.end <= Length[f.id]
                         /\ f.start > 0 \/ f.end < Length[f.id]
                         /\ f.bad \in BOOLEAN

ASSUME IpReassAssumption ==
    /\ {NumReass, MaxPbufs, MaxAge, PoolSize} \subseteq Nat \ {0}
    /\ Length \in [Ids -> Nat]
    /\ FragmentsAssumption

VARIABLES reassdatagrams,     \* the list of ip_reassdata, from its front
          ip_reass_pbufcount,
          pool,               \* free pbufs of MEMP_PBUF_POOL
          out                 \* what the last call of ip4_reass returned

vars == <<reassdatagrams, ip_reass_pbufcount, pool, out>>

\* ip4_reass returned NULL.
Nothing == [p |-> <<>>, datagram_len |-> 0]

Init == /\ reassdatagrams = <<>>
        /\ ip_reass_pbufcount = 0
        /\ pool = PoolSize
        /\ out = Nothing

IsLast(f) == f.end = Length[f.id]

\* The pbufs of the fragments p: number n of the fragment j.
PbufsOf(p) == UNION {{j} \X (1 .. p[j].clen) : j \in DOMAIN p}

\* pbuf_clen of everything that is queued in r.
Pbufs(r) == Cardinality(PbufsOf(r.p))

\* The pbufs of the entries I of a list.
QueuedIn(list, I) == UNION {{i} \X PbufsOf(list[i].p) : i \in I}

-----------------------------------------------------------------------------
\* ip_reass_remove_oldest_datagram.  s has the list and the pbufs freed so far.
Others(s, id) == {i \in DOMAIN s.list : s.list[i].id # id}

Oldest(s, id) ==
    {i \in Others(s, id) :
        \A j \in Others(s, id) : \/ s.list[i].timer < s.list[j].timer
                                 \/ s.list[i].timer = s.list[j].timer /\ j <= i}

\* ip_reass_free_complete_datagram of the oldest.
FreeOldest(s, id) ==
    IF Oldest(s, id) = {} THEN s
    ELSE LET i == CHOOSE k \in Oldest(s, id) : TRUE
         IN  [list |-> RemoveAt(s.list, i), freed |-> s.freed + Pbufs(s.list[i])]

RemoveOldest(list, id, clen) ==
    LET after[n \in 1 .. NumReass] ==
            IF n = 1 THEN FreeOldest([list |-> list, freed |-> 0], id)
            ELSE IF after[n - 1].freed < clen THEN FreeOldest(after[n - 1], id)
            ELSE after[n - 1]
    IN  after[NumReass]

-----------------------------------------------------------------------------
\* Which entry of the list a fragment belongs to, as a set.
Matching(list, id) == {i \in DOMAIN list : list[i].id = id}

\* ip_reass_enqueue_new_datagram puts it at the front.
NewDatagram(f) == [id |-> f.id, p |-> <<>>, first |-> f.start = 0, lastfrag |-> FALSE,
                   datagram_len |-> 0, timer |-> MaxAge]

\* How many queued fragments are before f.
Before(p, f) == Cardinality({i \in DOMAIN p : p[i].start <= f.start})

\* The fragment is there already or overlaps one: the new one is thrown away.
Overlaps(p, f) ==
    LET n == Before(p, f)
    IN  \/ n > 0 /\ (f.start = p[n].start \/ f.start < p[n].end)
        \/ n < Len(p) /\ f.end > p[n + 1].start

\* Mutant: holes behind the fragment are not looked for.
ValidBefore(p, f) ==
    p[1].start = 0 /\ \A i \in 1 .. Before(p, f) - 1 : p[i].end = p[i + 1].start

\* Mutant: only the last fragment completes a datagram.
ValidWhenLast(p, f) ==
    IsLast(f) /\ p[1].start = 0 /\ \A i \in 1 .. Len(p) - 1 : p[i].end = p[i + 1].start

\* The queue p, with f in it, begins at 0 and has no holes.
Valid(p, f) == p[1].start = 0 /\ \A i \in 1 .. Len(p) - 1 : p[i].end = p[i + 1].start

\* u16_t overflow of the length or of the end.
TooLong(f) == (IsLast(f) /\ f.end > MaxLen) \/ f.end > Wrap

\* The header of the first fragment replaces that of another.
Header(r, f) == [r EXCEPT !.first = @ \/ f.start = 0]

\* ip_reass_chain_frag_into_datagram_and_validate and what ip4_reass records.
Chained(r, f) ==
    [r EXCEPT !.p = InsertAt(@, Before(@, f) + 1, f),
              !.lastfrag = @ \/ IsLast(f),
              !.datagram_len = IF IsLast(f) THEN f.end ELSE @]

\* nullreturn: f is freed.  s has the list, and what was freed on the way to it.
Dropped(s, list) ==
    /\ reassdatagrams' = list
    /\ ip_reass_pbufcount' = ip_reass_pbufcount - s.freed
    /\ pool' = pool + s.freed
    /\ out' = Nothing

\* f is queued as the entry q of the list.
Queued(s, i, q, f) ==
    /\ reassdatagrams' = [s.list EXCEPT ![i] = q]
    /\ ip_reass_pbufcount' = ip_reass_pbufcount - s.freed + f.clen
    /\ pool' = pool + s.freed - f.clen
    /\ out' = Nothing

\* Mutant: the last fragment is not counted.
FinishedEarly(s, i, q, f) ==
    /\ reassdatagrams' = RemoveAt(s.list, i)
    /\ ip_reass_pbufcount' = ip_reass_pbufcount - s.freed - Pbufs(s.list[i]) - f.clen
    /\ pool' = pool + s.freed - f.clen + Pbufs(q)
    /\ out' = [p |-> q.p, datagram_len |-> q.datagram_len]

\* The datagram is complete: it leaves the list, and the pool gets it back when
\* the layers above have read it.
Finished(s, i, q, f) ==
    /\ reassdatagrams' = RemoveAt(s.list, i)
    /\ ip_reass_pbufcount' = ip_reass_pbufcount - s.freed + f.clen - Pbufs(q)
    /\ pool' = pool + s.freed - f.clen + Pbufs(q)
    /\ out' = [p |-> q.p, datagram_len |-> q.datagram_len]

\* f and its entry i of the list s.list.  An entry without fragments is removed
\* with f.
Take(s, i, f) ==
    LET r == Header(s.list[i], f)
        q == Chained(r, f)
    IN  IF TooLong(f) \/ Overlaps(r.p, f)
        THEN Dropped(s, IF r.p = <<>> THEN RemoveAt(s.list, i) ELSE [s.list EXCEPT ![i] = r])
        ELSE IF q.lastfrag /\ Valid(q.p, f) THEN Finished(s, i, q, f)
        ELSE Queued(s, i, q, f)

\* The list after others were removed for the limit of pbufs.
Limited(f) ==
    IF ip_reass_pbufcount + f.clen > MaxPbufs
    THEN RemoveOldest(reassdatagrams, f.id, f.clen)
    ELSE [list |-> reassdatagrams, freed |-> 0]

Refused(s, f) == ip_reass_pbufcount - s.freed + f.clen > MaxPbufs

\* The list with an entry for f, after others were removed for want of one.
Enlisted(s, f) ==
    LET t == RemoveOldest(s.list, f.id, f.clen)
    IN  IF Matching(s.list, f.id) # {} THEN s
        ELSE IF Len(s.list) < NumReass
        THEN [list |-> <<NewDatagram(f)>> \o s.list, freed |-> s.freed]
        ELSE [list |-> IF t.freed >= f.clen THEN <<NewDatagram(f)>> \o t.list ELSE t.list,
              freed |-> s.freed + t.freed]

\* ip4_reass of a fragment that low_level_input had pbufs for.
ip4_reass(f) ==
    LET s == Limited(f)
        t == Enlisted(s, f)
    IN  /\ pool >= f.clen
        /\ \/ /\ f.bad
              /\ Dropped([freed |-> 0], reassdatagrams)
           \/ /\ ~f.bad /\ Refused(s, f)
              /\ Dropped(s, s.list)
           \/ /\ ~f.bad /\ ~Refused(s, f)
              /\ Matching(t.list, f.id) = {}
              /\ Dropped(t, t.list)
           \/ /\ ~f.bad /\ ~Refused(s, f)
              /\ \E i \in Matching(t.list, f.id) : Take(t, i, f)

\* The pbufs of the entries whose time is over.
ExpiredPbufs(list) ==
    Cardinality(QueuedIn(list, {i \in DOMAIN list : list[i].timer = 0}))

\* The entries that stay, a second older.
Aged(list) ==
    LET left[n \in 0 .. Len(list)] ==
            IF n = 0 THEN <<>>
            ELSE IF list[n].timer > 0
            THEN Append(left[n - 1], [list[n] EXCEPT !.timer = @ - 1])
            ELSE left[n - 1]
    IN  left[Len(list)]

\* Mutant: a datagram whose time is over is not freed.
ip_reass_tmrKeep ==
    /\ reassdatagrams # <<>>
    /\ reassdatagrams' = [i \in DOMAIN reassdatagrams |->
            [reassdatagrams[i] EXCEPT !.timer = IF @ > 0 THEN @ - 1 ELSE @]]
    /\ out' = Nothing
    /\ UNCHANGED <<ip_reass_pbufcount, pool>>

ip_reass_tmr ==
    /\ reassdatagrams # <<>>
    /\ reassdatagrams' = Aged(reassdatagrams)
    /\ ip_reass_pbufcount' = ip_reass_pbufcount - ExpiredPbufs(reassdatagrams)
    /\ pool' = pool + ExpiredPbufs(reassdatagrams)
    /\ out' = Nothing

Next == (\E f \in Fragments : ip4_reass(f)) \/ ip_reass_tmr

Spec == Init /\ [][Next]_vars

\* sys_check_timeouts calls ip_reass_tmr every second.
FairSpec == Spec /\ WF_vars(ip_reass_tmr)

-----------------------------------------------------------------------------
(***************************************************************************)
(* Properties                                                              *)
(***************************************************************************)
Entries == [id : Ids, p : Seq(Fragments), first : BOOLEAN, lastfrag : BOOLEAN,
            datagram_len : Nat, timer : 0 .. MaxAge]

\* The types of the variables: no entry is empty.
TypeOK ==
    /\ reassdatagrams \in Seq(Entries)
    /\ \A i \in DOMAIN reassdatagrams : reassdatagrams[i].p # <<>>
    /\ ip_reass_pbufcount \in Int
    /\ pool \in Int

\* ip_reass_pbufcount is what is queued, within its limit, and the pool has the
\* rest: whatever was dropped, removed, timed out or delivered, no pbuf is lost
\* and none is freed twice.
CountExact ==
    LET queued == Cardinality(QueuedIn(reassdatagrams, DOMAIN reassdatagrams))
    IN  /\ ip_reass_pbufcount = queued
        /\ queued <= MaxPbufs
        /\ pool = PoolSize - queued

\* Whatever arrived in which order, a datagram that is returned is the whole one:
\* from 0 to its length without hole or overlap, in order.
DeliveredWhole ==
    out # Nothing =>
        /\ \A i \in DOMAIN out.p : out.p[i].id = out.p[1].id
        /\ out.p[1].start = 0 /\ IsLast(out.p[Len(out.p)])
        /\ \A i \in 1 .. Len(out.p) - 1 : out.p[i].end = out.p[i + 1].start
        /\ out.datagram_len = Length[out.p[1].id]

\* No datagram waits although everything of it has arrived, in particular when
\* the fragment that was missing is in the middle or the first one.
NoCompleteWaits ==
    \A i \in DOMAIN reassdatagrams :
        LET r == reassdatagrams[i]
        IN  ~(UNION {f.start .. f.end - 1 : f \in Range(r.p)} = 0 .. Length[r.id] - 1)

\* Queued fragments are in order and disjoint, of one datagram, and the flag and
\* the length of the entry are those of a fragment that is queued.
QueueOrdered ==
    \A i \in DOMAIN reassdatagrams :
        LET r == reassdatagrams[i]
        IN  /\ \A j \in 1 .. Len(r.p) - 1 : r.p[j].end <= r.p[j + 1].start
            /\ r.lastfrag <=> \E f \in Range(r.p) : IsLast(f)
            /\ r.lastfrag => r.datagram_len = Length[r.id]
            /\ \A j \in DOMAIN reassdatagrams : reassdatagrams[j].id = r.id => i = j

\* Once the first fragment is queued, the header kept for the datagram, and for
\* the ICMP message about its time, is that of a first fragment.
FirstHeader ==
    \A i \in DOMAIN reassdatagrams :
        reassdatagrams[i].p[1].start = 0 => reassdatagrams[i].first

\* The list is ordered by age: as the remark in the code suspects, the oldest
\* datagram is always the last of the others.
OldestLast ==
    /\ \A i, j \in DOMAIN reassdatagrams :
        i < j => reassdatagrams[i].timer >= reassdatagrams[j].timer
    /\ Len(reassdatagrams) <= NumReass

\* The list and the count kept by hand beside it are exact and ordered by age.
CountsSafe == TypeOK /\ CountExact /\ OldestLast

\* What waits is in order, has the header of its first fragment, and waits for
\* something that is really missing.
QueuesReady == QueueOrdered /\ FirstHeader /\ NoCompleteWaits

\* An incomplete datagram is given up.
GivenUp ==
    \A d \in Ids : Matching(reassdatagrams, d) # {} ~> Matching(reassdatagrams, d) = {}

\* opt.h asks for a pool with which frames are received even if the reassembly
\* holds all it may.  Not so with this firmware's sizes (README, Disagreements).
StillReceives == pool > 0
=============================================================================
