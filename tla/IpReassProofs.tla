---------------------------- MODULE IpReassProofs ----------------------------
(***************************************************************************)
(* What ip4_reass returns is whole, what waits is in order and incomplete, *)
(* and no pbuf is lost, however datagrams are cut and fragments arrive,    *)
(* for all limits of entries, pbufs and time.                              *)
(***************************************************************************)
EXTENDS IpReass, FiniteSetTheorems, SequenceTheorems, TLAPS

(***************************************************************************)
(* The invariant                                                           *)
(***************************************************************************)
\* Fragments are in order and do not overlap.
Ordered(p) == \A j, k \in DOMAIN p : j < k => p[j].end <= p[k].start

\* They begin at 0 and leave no hole.
Whole(p) == p[1].start = 0 /\ \A j \in 1 .. Len(p) - 1 : p[j].end = p[j + 1].start

\* What is queued is of one datagram, in order, and described by its entry; the
\* last fragment is not there or there is a hole.
EntryInv(r) ==
  /\ \A j \in DOMAIN r.p : r.p[j].id = r.id
  /\ Ordered(r.p)
  /\ r.lastfrag <=> \E j \in DOMAIN r.p : IsLast(r.p[j])
  /\ r.lastfrag => r.datagram_len = Length[r.id]
  /\ \A j \in DOMAIN r.p : r.p[j].start = 0 => r.first
  /\ ~(r.lastfrag /\ Whole(r.p))

\* No datagram has two entries.
UniqueIds(l) == \A i, j \in DOMAIN l : l[i].id = l[j].id => i = j

ByAge(l) == \A i, j \in DOMAIN l : i < j => l[i].timer >= l[j].timer

GoodList(l) ==
  /\ l \in Seq(Entries) /\ UniqueIds(l) /\ ByAge(l)
  /\ \A i \in DOMAIN l : EntryInv(l[i])

NonEmpty(l) == \A i \in DOMAIN l : l[i].p # <<>>

\* The pbufs of a list.
Count(l) == Cardinality(QueuedIn(l, DOMAIN l))

IInv ==
  /\ GoodList(reassdatagrams) /\ NonEmpty(reassdatagrams)
  /\ Len(reassdatagrams) <= NumReass
  /\ ip_reass_pbufcount = Count(reassdatagrams)
  /\ Count(reassdatagrams) <= MaxPbufs
  /\ pool = PoolSize - Count(reassdatagrams)
  /\ DeliveredWhole

\* The assumptions on the constants, one by one.
LEMMA Const ==
  /\ NumReass \in Nat /\ NumReass > 0 /\ MaxPbufs \in Nat /\ MaxPbufs > 0
  /\ MaxAge \in Nat /\ MaxAge > 0 /\ PoolSize \in Nat /\ PoolSize > 0
  /\ \A d \in Ids : Length[d] \in Nat
BY IpReassAssumption

\* The fields of a fragment.
LEMMA FragParts ==
  ASSUME NEW f \in Fragments
  PROVE  /\ f.id \in Ids /\ f.start \in Nat /\ f.end \in Nat /\ f.clen \in Nat /\ f.clen > 0
         /\ f.start < f.end /\ f.end <= Length[f.id] /\ f.bad \in BOOLEAN
         /\ Length[f.id] \in Nat
BY IpReassAssumption, Const DEF FragmentsAssumption

\* The fields of an entry.
LEMMA EntryParts ==
  ASSUME NEW r \in Entries
  PROVE  /\ r.id \in Ids /\ r.p \in Seq(Fragments) /\ r.first \in BOOLEAN
         /\ r.lastfrag \in BOOLEAN /\ r.datagram_len \in Nat /\ r.timer \in 0 .. MaxAge
BY DEF Entries

-----------------------------------------------------------------------------
(***************************************************************************)
(* Sequences                                                               *)
(***************************************************************************)
\* A set of numbers has a least one.
LEMMA LeastOf ==
  ASSUME NEW S \in SUBSET Nat, S # {}
  PROVE  \E x \in S : \A y \in S : x <= y
<1> DEFINE R == {ss \in Nat \X Nat : ss[1] < ss[2]}
<1>1. IsWellFoundedOn(R, Nat)
  BY NatLessThanWellFounded DEF OpToRel
<1> HIDE DEF R
<1>2. PICK x \in S : \A y \in S : ~(<<y, x>> \in R)
  BY <1>1, WFMin
<1>3. \A y \in S : x <= y
  <2> SUFFICES ASSUME NEW y \in S, ~(x <= y) PROVE FALSE
    OBVIOUS
  <2>1. <<y, x>> \in Nat \X Nat /\ <<y, x>>[1] < <<y, x>>[2]
    OBVIOUS
  <2>2. <<y, x>> \in R
    BY <2>1, Zenon DEF R
  <2> QED
    BY <2>2, <1>2
<1> QED
  BY <1>3

\* What holds at 0 and is passed on from each number to the next holds up to any.
LEMMA Inductive ==
  ASSUME NEW m \in Nat, NEW S, 0 \in S, \A n \in 0 .. m - 1 : n \in S => n + 1 \in S
  PROVE  \A n \in 0 .. m : n \in S
<1> DEFINE B == {n \in 0 .. m : n \notin S}
<1> SUFFICES ASSUME B # {} PROVE FALSE
  OBVIOUS
<1>1. B \in SUBSET Nat
  OBVIOUS
<1>2. PICK x \in B : \A y \in B : x <= y
  BY <1>1, LeastOf
<1>3. x # 0 /\ x \in Nat /\ x <= m
  BY <1>2
<1>4. x - 1 \in 0 .. m - 1 /\ x - 1 \notin B
  BY <1>2, <1>3
<1>5. x - 1 \in S
  BY <1>3, <1>4
<1>6. x \in S
  BY <1>3, <1>4, <1>5
<1> QED
  BY <1>2, <1>6

\* r is s with e inserted at k.
Inserted(S, s, k, e, r) ==
  /\ r \in Seq(S) /\ Len(r) = Len(s) + 1
  /\ \A j \in 1 .. Len(s) + 1 :
        r[j] = IF j < k THEN s[j] ELSE IF j = k THEN e ELSE s[j - 1]

\* What InsertAt makes of a sequence.
LEMMA InsertAtIs ==
  ASSUME NEW S, NEW s \in Seq(S), NEW e \in S, NEW k \in 1 .. Len(s) + 1
  PROVE  Inserted(S, s, k, e, InsertAt(s, k, e))
<1>1. PICK n \in Nat : n = Len(s)
  OBVIOUS
<1> DEFINE a == SubSeq(s, 1, k - 1)
           b == SubSeq(s, k, n)
           c == a \o <<e>>
<1>2. a \in Seq(S) /\ Len(a) = k - 1 /\ \A j \in 1 .. k - 1 : a[j] = s[j]
  BY <1>1
<1>3. b \in Seq(S) /\ Len(b) = n - k + 1 /\ \A j \in 1 .. n - k + 1 : b[j] = s[k + j - 1]
  BY <1>1, SubSeqProperties
<1>4. InsertAt(s, k, e) = c \o b
  BY <1>1 DEF InsertAt
<1> HIDE DEF a, b
<1>5. c \in Seq(S) /\ Len(c) = k /\ c[k] = e /\ \A j \in 1 .. k - 1 : c[j] = a[j]
  BY <1>1, <1>2
<1> HIDE DEF c
<1>6. /\ c \o b \in Seq(S) /\ Len(c \o b) = Len(c) + Len(b)
      /\ \A j \in 1 .. Len(c) + Len(b) : (c \o b)[j] = IF j <= Len(c) THEN c[j] ELSE b[j - Len(c)]
  BY <1>3, <1>5, ConcatProperties
<1> DEFINE r == c \o b
<1>7. r \in Seq(S) /\ Len(r) = n + 1
  BY <1>1, <1>3, <1>5, <1>6
<1>8. \A j \in 1 .. n + 1 : r[j] = IF j <= k THEN c[j] ELSE b[j - k]
  BY <1>1, <1>3, <1>5, <1>6
<1> HIDE DEF r
<1>9. ASSUME NEW j \in 1 .. n + 1
      PROVE  r[j] = IF j < k THEN s[j] ELSE IF j = k THEN e ELSE s[j - 1]
  <2>1. CASE j <= k
    BY <2>1, <1>1, <1>2, <1>5, <1>8
  <2>2. CASE j > k
    <3>1. j - k \in 1 .. n - k + 1 /\ k + (j - k) - 1 = j - 1
      BY <2>2, <1>1
    <3> QED
      BY <3>1, <2>2, <1>1, <1>3, <1>8
  <2> QED
    BY <2>1, <2>2, <1>1
<1> QED
  BY <1>1, <1>4, <1>7, <1>9 DEF Inserted, r

\* What RemoveAt makes of a sequence.
LEMMA RemoveAtIs ==
  ASSUME NEW S, NEW s \in Seq(S), NEW k \in DOMAIN s
  PROVE  /\ RemoveAt(s, k) \in Seq(S) /\ Len(RemoveAt(s, k)) = Len(s) - 1
         /\ \A j \in 1 .. Len(s) - 1 : RemoveAt(s, k)[j] = IF j < k THEN s[j] ELSE s[j + 1]
<1>1. PICK n \in Nat : n = Len(s) /\ k \in 1 .. n
  OBVIOUS
<1> DEFINE a == SubSeq(s, 1, k - 1)
           b == SubSeq(s, k + 1, n)
<1>2. a \in Seq(S) /\ Len(a) = k - 1 /\ \A j \in 1 .. k - 1 : a[j] = s[j]
  BY <1>1
<1>3. b \in Seq(S) /\ Len(b) = n - k /\ \A j \in 1 .. n - k : b[j] = s[k + j]
  <2>1. CASE k = n
    BY <2>1, <1>1, SubSeqEmpty
  <2>2. CASE k < n
    BY <2>2, <1>1, SubSeqProperties
  <2> QED
    BY <2>1, <2>2, <1>1
<1>4. RemoveAt(s, k) = a \o b
  BY <1>1 DEF RemoveAt
<1> HIDE DEF a, b
<1>5. /\ a \o b \in Seq(S) /\ Len(a \o b) = Len(a) + Len(b)
      /\ \A j \in 1 .. Len(a) + Len(b) : (a \o b)[j] = IF j <= Len(a) THEN a[j] ELSE b[j - Len(a)]
  BY <1>2, <1>3, ConcatProperties
<1> DEFINE r == a \o b
<1>6. r \in Seq(S) /\ Len(r) = n - 1
  BY <1>1, <1>2, <1>3, <1>5
<1>7. \A j \in 1 .. n - 1 : r[j] = IF j < k THEN a[j] ELSE b[j - (k - 1)]
  BY <1>1, <1>2, <1>3, <1>5
<1> HIDE DEF r
<1>8. ASSUME NEW j \in 1 .. n - 1
      PROVE  r[j] = IF j < k THEN s[j] ELSE s[j + 1]
  <2>1. CASE j < k
    BY <2>1, <1>1, <1>2, <1>7
  <2>2. CASE j >= k
    <3>1. PICK m \in 1 .. n - k : m = j - (k - 1)
      BY <2>2, <1>1
    <3>2. k + m = j + 1
      BY <3>1, <1>1
    <3>3. r[j] = b[m] /\ b[m] = s[k + m]
      BY <3>1, <2>2, <1>1, <1>3, <1>7
    <3> QED
      BY <3>2, <3>3, <2>2, <1>1
  <2> QED
    BY <2>1, <2>2, <1>1
<1> QED
  BY <1>1, <1>4, <1>6, <1>8 DEF r

\* A sequence has finitely many elements.
LEMMA RangeFinite ==
  ASSUME NEW S, NEW s \in Seq(S)
  PROVE  IsFiniteSet(Range(s)) /\ Range(s) \subseteq S
<1>1. DOMAIN s = 1 .. Len(s) /\ Len(s) \in Nat
  OBVIOUS
<1>2. IsFiniteSet(DOMAIN s)
  BY <1>1, FS_Interval
<1>3. s \in Surjection(DOMAIN s, Range(s))
  BY DEF Surjection, Range
<1> QED
  BY <1>2, <1>3, FS_Surjection DEF Range

-----------------------------------------------------------------------------
(***************************************************************************)
(* Counting pbufs                                                          *)
(***************************************************************************)
\* The pbufs of a set of fragments, and the fragments of a set of entries.
PbufSet(F) == UNION {{f} \X (1 .. f.clen) : f \in F}

FragSet(E) == UNION {Range(r.p) : r \in E}

\* A finite set of fragments has finitely many pbufs.
LEMMA PbufsFinite ==
  ASSUME NEW F \in SUBSET Fragments, IsFiniteSet(F)
  PROVE  IsFiniteSet(PbufSet(F)) /\ Cardinality(PbufSet(F)) \in Nat
<1> DEFINE T == {{f} \X (1 .. f.clen) : f \in F}
           g == [f \in F |-> {f} \X (1 .. f.clen)]
<1>1. g \in Surjection(F, T)
  BY DEF Surjection
<1>2. IsFiniteSet(T)
  BY <1>1, FS_Surjection
<1>3. ASSUME NEW f \in F PROVE IsFiniteSet({f} \X (1 .. f.clen))
  <2>1. PICK n \in Nat : n = f.clen
    BY FragParts
  <2>2. IsFiniteSet({f}) /\ IsFiniteSet(1 .. n)
    <3>1. IsFiniteSet({f})
      BY FS_Singleton
    <3>2. IsFiniteSet(1 .. n)
      BY FS_Interval
    <3> QED
      BY <3>1, <3>2
  <2> QED
    BY <2>1, <2>2, FS_Product
<1>4. \A t \in T : IsFiniteSet(t)
  BY <1>3
<1> HIDE DEF T
<1>5. IsFiniteSet(UNION T)
  BY <1>2, <1>4, FS_UNION
<1>6. PbufSet(F) = UNION T
  BY DEF PbufSet, T
<1> QED
  BY <1>5, <1>6, FS_CardinalityType

\* No fragments have no pbufs, one fragment has its own.
LEMMA PbufsFew ==
  /\ Cardinality(PbufSet({})) = 0
  /\ \A f \in Fragments : Cardinality(PbufSet({f})) = f.clen
<1>1. PbufSet({}) = {}
  BY DEF PbufSet
<1>2. ASSUME NEW f \in Fragments PROVE Cardinality(PbufSet({f})) = f.clen
  <2>1. PICK n \in Nat : n = f.clen
    BY FragParts
  <2>2. PbufSet({f}) = {f} \X (1 .. n)
    BY <2>1 DEF PbufSet
  <2>3. /\ IsFiniteSet({f}) /\ Cardinality({f}) = 1
        /\ IsFiniteSet(1 .. n) /\ Cardinality(1 .. n) = n
    <3>1. IsFiniteSet({f}) /\ Cardinality({f}) = 1
      BY FS_Singleton
    <3>2. IsFiniteSet(1 .. n) /\ Cardinality(1 .. n) = n
      BY FS_Interval
    <3> QED
      BY <3>1, <3>2
  <2>4. Cardinality({f} \X (1 .. n)) = Cardinality({f}) * Cardinality(1 .. n)
    BY <2>3, FS_Product
  <2>5. Cardinality(PbufSet({f})) = 1 * n
    BY <2>2, <2>3, <2>4
  <2> QED
    BY <2>1, <2>5
<1> QED
  BY <1>1, <1>2, FS_EmptySet

\* Different fragments have different pbufs.
LEMMA PbufsAdd ==
  ASSUME NEW F \in SUBSET Fragments, IsFiniteSet(F), NEW G \in SUBSET Fragments, IsFiniteSet(G),
         F \cap G = {}
  PROVE  Cardinality(PbufSet(F \cup G)) = Cardinality(PbufSet(F)) + Cardinality(PbufSet(G))
<1>1. PbufSet(F \cup G) = PbufSet(F) \cup PbufSet(G)
  BY DEF PbufSet
<1>2. PbufSet(F) \cap PbufSet(G) = {}
  <2> SUFFICES ASSUME NEW x \in PbufSet(F), x \in PbufSet(G) PROVE FALSE
    OBVIOUS
  <2>1. PICK f \in F : x \in {f} \X (1 .. f.clen)
    BY DEF PbufSet
  <2>2. PICK g \in G : x \in {g} \X (1 .. g.clen)
    BY DEF PbufSet
  <2>3. x[1] = f /\ x[1] = g
    BY <2>1, <2>2
  <2> QED
    BY <2>3
<1>3. IsFiniteSet(PbufSet(F)) /\ IsFiniteSet(PbufSet(G))
      /\ Cardinality(PbufSet(F)) \in Nat /\ Cardinality(PbufSet(G)) \in Nat
  BY PbufsFinite
<1>4. Cardinality(PbufSet(F) \cup PbufSet(G))
        = Cardinality(PbufSet(F)) + Cardinality(PbufSet(G)) - Cardinality({})
  BY <1>2, <1>3, FS_Union
<1>5. Cardinality({}) = 0
  BY FS_EmptySet
<1> QED
  BY <1>1, <1>3, <1>4, <1>5

\* Fragments in order are different.
LEMMA OrderedDiffer ==
  ASSUME NEW p \in Seq(Fragments), Ordered(p), NEW i \in DOMAIN p, NEW j \in DOMAIN p, p[i] = p[j]
  PROVE  i = j
<1>1. i \in Nat /\ j \in Nat /\ p[i] \in Fragments
  OBVIOUS
<1>2. p[i].start \in Nat /\ p[i].end \in Nat /\ p[i].start < p[i].end
  BY <1>1, FragParts
<1>3. ~(i < j) /\ ~(j < i)
  BY <1>1, <1>2 DEF Ordered
<1> QED
  BY <1>1, <1>3

\* The pbufs of a queue are those of its fragments.
LEMMA PbufsQueue ==
  ASSUME NEW p \in Seq(Fragments), Ordered(p)
  PROVE  Cardinality(PbufsOf(p)) = Cardinality(PbufSet(Range(p)))
<1> DEFINE S == PbufsOf(p)
           T == PbufSet(Range(p))
           g == [b \in S |-> <<p[b[1]], b[2]>>]
<1>1. ASSUME NEW b \in S
      PROVE  b[1] \in DOMAIN p /\ b[2] \in 1 .. p[b[1]].clen /\ b = <<b[1], b[2]>>
  BY DEF PbufsOf
<1>2. ASSUME NEW j \in DOMAIN p, NEW n \in 1 .. p[j].clen PROVE <<j, n>> \in S
  BY DEF PbufsOf
<1>3. ASSUME NEW j \in DOMAIN p, NEW n \in 1 .. p[j].clen PROVE <<p[j], n>> \in T
  BY DEF PbufSet, Range
<1>4. ASSUME NEW t \in T PROVE \E j \in DOMAIN p : \E n \in 1 .. p[j].clen : t = <<p[j], n>>
  <2>1. PICK f \in Range(p) : t \in {f} \X (1 .. f.clen)
    BY DEF PbufSet
  <2>2. PICK j \in DOMAIN p : f = p[j]
    BY DEF Range
  <2> QED
    BY <2>1, <2>2
<1> HIDE DEF S, T
<1>5. \A b \in S : g[b] \in T
  BY <1>1, <1>3
<1>6. \A a, b \in S : g[a] = g[b] => a = b
  <2> SUFFICES ASSUME NEW a \in S, NEW b \in S, g[a] = g[b] PROVE a = b
    OBVIOUS
  <2>1. p[a[1]] = p[b[1]] /\ a[2] = b[2]
    OBVIOUS
  <2>2. a[1] = b[1]
    BY <2>1, <1>1, OrderedDiffer
  <2> QED
    BY <2>1, <2>2, <1>1
<1>7. \A t \in T : \E b \in S : g[b] = t
  <2> SUFFICES ASSUME NEW t \in T PROVE \E b \in S : g[b] = t
    OBVIOUS
  <2>0. PICK j \in DOMAIN p : \E n \in 1 .. p[j].clen : t = <<p[j], n>>
    BY <1>4
  <2>1. PICK n \in 1 .. p[j].clen : t = <<p[j], n>>
    BY <2>0
  <2>2. <<j, n>> \in S /\ g[<<j, n>>] = <<p[j], n>>
    BY <1>2
  <2> QED
    BY <2>1, <2>2
<1>8. g \in Bijection(S, T)
  BY <1>5, <1>6, <1>7 DEF Bijection, Injection, Surjection, IsInjective
<1>9. IsFiniteSet(Range(p)) /\ Range(p) \subseteq Fragments
  BY RangeFinite
<1>10. IsFiniteSet(T)
  BY <1>9, PbufsFinite DEF T
<1>11. g \in Injection(S, T) /\ g \in Surjection(S, T)
  BY <1>8 DEF Bijection
<1>12. Cardinality(S) = Cardinality(T)
  BY <1>10, <1>11, FS_Injection
<1> QED
  BY <1>12 DEF S, T

\* What is kept in a set of entries.
Held(E) == Cardinality(PbufSet(FragSet(E)))

\* What is kept in the entries I of a list.
HeldIn(l, I) == Held({l[i] : i \in I})

\* An entry of a good list, and its fragments.
LEMMA ListParts ==
  ASSUME NEW l, GoodList(l), NEW i \in DOMAIN l
  PROVE  /\ i \in Nat /\ i >= 1 /\ i <= Len(l) /\ Len(l) \in Nat /\ DOMAIN l = 1 .. Len(l)
         /\ l[i] \in Entries /\ l[i].p \in Seq(Fragments) /\ EntryInv(l[i]) /\ Ordered(l[i].p)
         /\ \A j \in DOMAIN l[i].p : l[i].p[j] \in Fragments /\ l[i].p[j].id = l[i].id
<1>1. l \in Seq(Entries) /\ EntryInv(l[i])
  BY DEF GoodList
<1>2. l[i] \in Entries
  BY <1>1
<1>3. l[i].p \in Seq(Fragments)
  BY <1>2, EntryParts
<1> QED
  BY <1>1, <1>2, <1>3 DEF EntryInv

\* Fragments of a set of entries of a good list.
LEMMA FragSetFinite ==
  ASSUME NEW l, GoodList(l), NEW I \in SUBSET DOMAIN l
  PROVE  LET E == {l[i] : i \in I}
         IN  IsFiniteSet(FragSet(E)) /\ FragSet(E) \in SUBSET Fragments /\ HeldIn(l, I) \in Nat
<1> DEFINE E == {l[i] : i \in I}
           T == {Range(r.p) : r \in E}
           g == [i \in I |-> Range(l[i].p)]
<1>1. l \in Seq(Entries)
  BY DEF GoodList
<1>2. IsFiniteSet(DOMAIN l)
  <2>1. DOMAIN l = 1 .. Len(l) /\ Len(l) \in Nat
    BY <1>1
  <2>2. PICK n \in Nat : n = Len(l)
    BY <2>1
  <2>3. IsFiniteSet(1 .. n)
    BY FS_Interval
  <2> QED
    BY <2>1, <2>2, <2>3
<1>3. IsFiniteSet(I)
  BY <1>2, FS_Subset
<1>4. g \in Surjection(I, T)
  BY DEF Surjection
<1>5. IsFiniteSet(T)
  BY <1>3, <1>4, FS_Surjection
<1>6. ASSUME NEW i \in I PROVE IsFiniteSet(Range(l[i].p)) /\ Range(l[i].p) \subseteq Fragments
  <2>1. l[i].p \in Seq(Fragments)
    BY ListParts
  <2> QED
    BY <2>1, RangeFinite
<1>7. \A t \in T : IsFiniteSet(t) /\ t \subseteq Fragments
  BY <1>6
<1> HIDE DEF T
<1>8. IsFiniteSet(UNION T) /\ UNION T \subseteq Fragments
  BY <1>5, <1>7, FS_UNION
<1>9. FragSet(E) = UNION T
  BY DEF FragSet, T
<1> QED
  BY <1>8, <1>9, PbufsFinite DEF Held, HeldIn

\* Entries of a list have no fragment in common.
LEMMA EntriesApart ==
  ASSUME NEW l, GoodList(l), NEW I \in SUBSET DOMAIN l, NEW J \in SUBSET DOMAIN l, I \cap J = {}
  PROVE  FragSet({l[i] : i \in I}) \cap FragSet({l[j] : j \in J}) = {}
<1> SUFFICES ASSUME NEW f \in FragSet({l[i] : i \in I}), f \in FragSet({l[j] : j \in J}) PROVE FALSE
  OBVIOUS
<1>1. PICK i \in I : f \in Range(l[i].p)
  BY DEF FragSet
<1>2. PICK j \in J : f \in Range(l[j].p)
  BY DEF FragSet
<1>3. f.id = l[i].id /\ f.id = l[j].id
  BY <1>1, <1>2, ListParts DEF Range
<1>4. i = j
  BY <1>3 DEF GoodList, UniqueIds
<1> QED
  BY <1>4

\* What is kept in two parts of a list.
LEMMA HeldAdd ==
  ASSUME NEW l, GoodList(l), NEW I \in SUBSET DOMAIN l, NEW J \in SUBSET DOMAIN l, I \cap J = {}
  PROVE  HeldIn(l, I \cup J) = HeldIn(l, I) + HeldIn(l, J)
<1> DEFINE E == {l[i] : i \in I}
           G == {l[i] : i \in J}
<1>1. IsFiniteSet(FragSet(E)) /\ FragSet(E) \in SUBSET Fragments
  BY FragSetFinite
<1>2. IsFiniteSet(FragSet(G)) /\ FragSet(G) \in SUBSET Fragments
  BY FragSetFinite
<1>3. FragSet(E) \cap FragSet(G) = {}
  BY EntriesApart
<1>4. FragSet({l[i] : i \in I \cup J}) = FragSet(E) \cup FragSet(G)
  BY DEF FragSet
<1> HIDE DEF E, G
<1>5. Cardinality(PbufSet(FragSet(E) \cup FragSet(G))) = Held(E) + Held(G)
  BY <1>1, <1>2, <1>3, PbufsAdd DEF Held
<1> QED
  BY <1>4, <1>5 DEF Held, HeldIn, E, G

\* Counting the pbufs of a list is counting those of its fragments.
LEMMA QueuedInIs ==
  ASSUME NEW l, GoodList(l), NEW I \in SUBSET DOMAIN l
  PROVE  Cardinality(QueuedIn(l, I)) = HeldIn(l, I)
<1> DEFINE E == {l[i] : i \in I}
           S == QueuedIn(l, I)
           T == PbufSet(FragSet(E))
           g == [b \in S |-> <<l[b[1]].p[b[2][1]], b[2][2]>>]
<1>1. ASSUME NEW b \in S
      PROVE  \E i \in I : \E j \in DOMAIN l[i].p : \E n \in 1 .. l[i].p[j].clen : b = <<i, <<j, n>>>>
  <2>1. PICK i \in I : b \in {i} \X PbufsOf(l[i].p)
    BY DEF QueuedIn
  <2>2. b[1] = i /\ b[2] \in PbufsOf(l[i].p) /\ b = <<i, b[2]>>
    BY <2>1
  <2>3. PICK j \in DOMAIN l[i].p : b[2] \in {j} \X (1 .. l[i].p[j].clen)
    BY <2>2 DEF PbufsOf
  <2>4. PICK n \in 1 .. l[i].p[j].clen : b[2] = <<j, n>>
    BY <2>3
  <2> QED
    BY <2>2, <2>4
<1>2. ASSUME NEW i \in I, NEW j \in DOMAIN l[i].p, NEW n \in 1 .. l[i].p[j].clen
      PROVE  <<i, <<j, n>>>> \in S /\ <<l[i].p[j], n>> \in T
  <2>1. <<j, n>> \in PbufsOf(l[i].p)
    BY DEF PbufsOf
  <2>2. <<i, <<j, n>>>> \in S
    BY <2>1 DEF QueuedIn
  <2>3. l[i].p[j] \in FragSet(E)
    BY DEF FragSet, Range
  <2>4. ASSUME NEW f \in FragSet(E), NEW k \in 1 .. f.clen PROVE <<f, k>> \in T
    <3>1. <<f, k>> \in {f} \X (1 .. f.clen)
      OBVIOUS
    <3> HIDE DEF E
    <3> QED
      BY <3>1 DEF PbufSet
  <2> HIDE DEF T, S
  <2> QED
    BY <2>2, <2>3, <2>4
<1>3. ASSUME NEW t \in T
      PROVE  \E i \in I : \E j \in DOMAIN l[i].p : \E n \in 1 .. l[i].p[j].clen : t = <<l[i].p[j], n>>
  <2>1. PICK f \in FragSet(E) : t \in {f} \X (1 .. f.clen)
    BY DEF PbufSet
  <2>2. PICK i \in I : f \in Range(l[i].p)
    BY DEF FragSet
  <2>3. PICK j \in DOMAIN l[i].p : f = l[i].p[j]
    BY <2>2 DEF Range
  <2>4. PICK n \in 1 .. l[i].p[j].clen : t = <<l[i].p[j], n>>
    BY <2>1, <2>3
  <2> QED
    BY <2>4
<1> HIDE DEF S, T, E
<1>4. ASSUME NEW i \in I, NEW j \in DOMAIN l[i].p, NEW n \in 1 .. l[i].p[j].clen
      PROVE  g[<<i, <<j, n>>>>] = <<l[i].p[j], n>>
  BY <1>2
<1>5. \A b \in S : g[b] \in T
  <2> SUFFICES ASSUME NEW b \in S PROVE g[b] \in T
    OBVIOUS
  <2>1. PICK i \in I : \E j \in DOMAIN l[i].p : \E n \in 1 .. l[i].p[j].clen : b = <<i, <<j, n>>>>
    BY <1>1
  <2>2. PICK j \in DOMAIN l[i].p : \E n \in 1 .. l[i].p[j].clen : b = <<i, <<j, n>>>>
    BY <2>1
  <2>3. PICK n \in 1 .. l[i].p[j].clen : b = <<i, <<j, n>>>>
    BY <2>2
  <2> HIDE DEF g
  <2> QED
    BY <2>3, <1>2, <1>4
<1>6. \A a, b \in S : g[a] = g[b] => a = b
  <2> SUFFICES ASSUME NEW a \in S, NEW b \in S, g[a] = g[b] PROVE a = b
    OBVIOUS
  <2>1. PICK i \in I : \E j \in DOMAIN l[i].p : \E n \in 1 .. l[i].p[j].clen : a = <<i, <<j, n>>>>
    BY <1>1
  <2>2. PICK j \in DOMAIN l[i].p : \E n \in 1 .. l[i].p[j].clen : a = <<i, <<j, n>>>>
    BY <2>1
  <2>3. PICK n \in 1 .. l[i].p[j].clen : a = <<i, <<j, n>>>>
    BY <2>2
  <2>4. PICK k \in I : \E m \in DOMAIN l[k].p : \E o \in 1 .. l[k].p[m].clen : b = <<k, <<m, o>>>>
    BY <1>1
  <2>5. PICK m \in DOMAIN l[k].p : \E o \in 1 .. l[k].p[m].clen : b = <<k, <<m, o>>>>
    BY <2>4
  <2>6. PICK o \in 1 .. l[k].p[m].clen : b = <<k, <<m, o>>>>
    BY <2>5
  <2>7. g[a] = <<l[i].p[j], n>> /\ g[b] = <<l[k].p[m], o>>
    BY <2>3, <2>6, <1>4
  <2>8. l[i].p[j] = l[k].p[m] /\ n = o
    <3>1. <<l[i].p[j], n>> = <<l[k].p[m], o>>
      BY <2>7
    <3> HIDE DEF g
    <3> QED
      BY <3>1
  <2> HIDE DEF g
  <2>9. l[i].p[j].id = l[i].id /\ l[k].p[m].id = l[k].id
    BY ListParts
  <2>10. i = k
    BY <2>8, <2>9 DEF GoodList, UniqueIds
  <2>11. l[i].p \in Seq(Fragments) /\ Ordered(l[i].p)
    BY ListParts
  <2>12. j = m
    BY <2>8, <2>10, <2>11, OrderedDiffer
  <2> QED
    BY <2>3, <2>6, <2>8, <2>10, <2>12
<1>7. \A t \in T : \E b \in S : g[b] = t
  <2> SUFFICES ASSUME NEW t \in T PROVE \E b \in S : g[b] = t
    OBVIOUS
  <2>1. PICK i \in I : \E j \in DOMAIN l[i].p : \E n \in 1 .. l[i].p[j].clen : t = <<l[i].p[j], n>>
    BY <1>3
  <2>2. PICK j \in DOMAIN l[i].p : \E n \in 1 .. l[i].p[j].clen : t = <<l[i].p[j], n>>
    BY <2>1
  <2>3. PICK n \in 1 .. l[i].p[j].clen : t = <<l[i].p[j], n>>
    BY <2>2
  <2>4. <<i, <<j, n>>>> \in S
    BY <1>2
  <2>5. g[<<i, <<j, n>>>>] = t
    BY <2>3, <1>4
  <2> HIDE DEF g
  <2> QED
    BY <2>4, <2>5
<1>8. g \in Injection(S, T) /\ g \in Surjection(S, T)
  BY <1>5, <1>6, <1>7 DEF Injection, Surjection, IsInjective
<1>9. IsFiniteSet(T)
  <2>1. IsFiniteSet(FragSet(E)) /\ FragSet(E) \in SUBSET Fragments
    BY FragSetFinite DEF E
  <2> QED
    BY <2>1, PbufsFinite DEF T
<1>10. Cardinality(S) = Cardinality(T)
  BY <1>8, <1>9, FS_Injection
<1> QED
  BY <1>10 DEF S, T, E, Held, HeldIn

-----------------------------------------------------------------------------
(***************************************************************************)
(* The list of datagrams                                                   *)
(***************************************************************************)
\* The pbufs of a list, of one of its entries, and of the others.
LEMMA CountIs ==
  ASSUME NEW l, GoodList(l)
  PROVE  /\ Count(l) = Held(Range(l)) /\ Count(l) \in Nat
         /\ \A i \in DOMAIN l : /\ Pbufs(l[i]) = Held({l[i]}) /\ Pbufs(l[i]) \in Nat
                                /\ HeldIn(l, DOMAIN l \ {i}) \in Nat
                                /\ Count(l) = Pbufs(l[i]) + HeldIn(l, DOMAIN l \ {i})
<1>1. {l[i] : i \in DOMAIN l} = Range(l)
  BY DEF Range
<1>2. Count(l) = HeldIn(l, DOMAIN l)
  BY QueuedInIs DEF Count
<1>3. HeldIn(l, DOMAIN l) \in Nat
  BY FragSetFinite
<1>4. ASSUME NEW i \in DOMAIN l
      PROVE  /\ Pbufs(l[i]) = Held({l[i]}) /\ Pbufs(l[i]) \in Nat
             /\ HeldIn(l, DOMAIN l \ {i}) \in Nat
             /\ Count(l) = Pbufs(l[i]) + HeldIn(l, DOMAIN l \ {i})
  <2>1. l[i].p \in Seq(Fragments) /\ Ordered(l[i].p)
    BY ListParts
  <2>2. FragSet({l[i]}) = Range(l[i].p)
    BY DEF FragSet
  <2>3. Pbufs(l[i]) = Held({l[i]})
    BY <2>1, <2>2, PbufsQueue DEF Pbufs, Held
  <2> DEFINE I == {i}
             J == DOMAIN l \ {i}
  <2>4. {l[j] : j \in I} = {l[i]} /\ I \cup J = DOMAIN l /\ I \cap J = {}
        /\ I \in SUBSET DOMAIN l /\ J \in SUBSET DOMAIN l
    OBVIOUS
  <2> HIDE DEF I, J
  <2>5. HeldIn(l, I) \in Nat /\ HeldIn(l, J) \in Nat
    BY <2>4, FragSetFinite
  <2>6. HeldIn(l, I \cup J) = HeldIn(l, I) + HeldIn(l, J)
    BY <2>4, HeldAdd
  <2>7. Count(l) = Pbufs(l[i]) + HeldIn(l, J) /\ Pbufs(l[i]) \in Nat
    BY <2>3, <2>4, <2>5, <2>6, <1>2 DEF HeldIn
  <2> QED
    BY <2>3, <2>5, <2>7 DEF J
<1> QED
  BY <1>1, <1>2, <1>3, <1>4 DEF HeldIn

\* r has some entries of l, in the same order.
LEMMA SubListGood ==
  ASSUME NEW l, GoodList(l), NEW r \in Seq(Entries), NEW h,
         \A j \in DOMAIN r : h[j] \in DOMAIN l /\ r[j] = l[h[j]],
         \A j, k \in DOMAIN r : j < k => h[j] < h[k]
  PROVE  GoodList(r)
<1>1. UniqueIds(r)
  <2> SUFFICES ASSUME NEW j \in DOMAIN r, NEW k \in DOMAIN r, r[j].id = r[k].id PROVE j = k
    BY DEF UniqueIds
  <2>1. h[j] = h[k]
    BY DEF GoodList, UniqueIds
  <2>2. h[j] \in Nat /\ j \in Nat /\ k \in Nat
    BY ListParts
  <2>3. ~(j < k) /\ ~(k < j)
    BY <2>1, <2>2
  <2> QED
    BY <2>2, <2>3
<1>2. ByAge(r)
  BY DEF GoodList, ByAge
<1>3. \A j \in DOMAIN r : EntryInv(r[j])
  BY DEF GoodList
<1> QED
  BY <1>1, <1>2, <1>3 DEF GoodList

\* An entry is taken from the list.
LEMMA RemovedGood ==
  ASSUME NEW l, GoodList(l), NEW i \in DOMAIN l
  PROVE  LET r == RemoveAt(l, i)
         IN  /\ GoodList(r) /\ Len(r) = Len(l) - 1 /\ Range(r) \subseteq Range(l)
             /\ Count(r) = Count(l) - Pbufs(l[i])
             /\ l[i] \notin Range(r)
<1> DEFINE r == RemoveAt(l, i)
           h == [j \in 1 .. Len(l) - 1 |-> IF j < i THEN j ELSE j + 1]
<1>1. l \in Seq(Entries) /\ Len(l) \in Nat /\ DOMAIN l = 1 .. Len(l) /\ i \in 1 .. Len(l)
  BY ListParts DEF GoodList
<1>2. r \in Seq(Entries) /\ Len(r) = Len(l) - 1
      /\ \A j \in 1 .. Len(l) - 1 : r[j] = IF j < i THEN l[j] ELSE l[j + 1]
  BY <1>1, RemoveAtIs
<1> HIDE DEF r
<1>3. DOMAIN r = 1 .. Len(l) - 1
  BY <1>2
<1>4. \A j \in DOMAIN r : h[j] \in DOMAIN l /\ h[j] # i /\ r[j] = l[h[j]]
  BY <1>1, <1>2, <1>3
<1>5. \A j, k \in DOMAIN r : j < k => h[j] < h[k]
  BY <1>1, <1>3
<1>6. \A k \in DOMAIN l \ {i} : \E j \in DOMAIN r : h[j] = k
  <2> SUFFICES ASSUME NEW k \in DOMAIN l, k # i PROVE \E j \in DOMAIN r : h[j] = k
    OBVIOUS
  <2>1. CASE k < i
    <3>1. k \in DOMAIN r /\ h[k] = k
      BY <2>1, <1>1, <1>3
    <3> QED
      BY <3>1
  <2>2. CASE k > i
    <3>1. k - 1 \in DOMAIN r /\ h[k - 1] = k
      BY <2>2, <1>1, <1>3
    <3> QED
      BY <3>1
  <2> QED
    BY <2>1, <2>2, <1>1
<1> HIDE DEF h
<1>7. GoodList(r)
  BY <1>2, <1>4, <1>5, SubListGood
<1>8. Range(r) = {l[j] : j \in DOMAIN l \ {i}}
  <2>1. ASSUME NEW e \in Range(r) PROVE e \in {l[j] : j \in DOMAIN l \ {i}}
    BY <1>4 DEF Range
  <2>2. ASSUME NEW k \in DOMAIN l \ {i} PROVE l[k] \in Range(r)
    BY <1>4, <1>6 DEF Range
  <2> QED
    BY <2>1, <2>2
<1>9. Count(r) = HeldIn(l, DOMAIN l \ {i})
  BY <1>7, <1>8, CountIs DEF HeldIn
<1>10. Count(r) = Count(l) - Pbufs(l[i])
  <2>1. /\ Pbufs(l[i]) \in Nat /\ HeldIn(l, DOMAIN l \ {i}) \in Nat
        /\ Count(l) = Pbufs(l[i]) + HeldIn(l, DOMAIN l \ {i})
    BY CountIs
  <2> QED
    BY <2>1, <1>9
<1>11. l[i] \notin Range(r)
  <2> SUFFICES ASSUME l[i] \in Range(r) PROVE FALSE
    OBVIOUS
  <2>1. PICK j \in DOMAIN l \ {i} : l[i] = l[j]
    BY <1>8
  <2> QED
    BY <2>1 DEF GoodList, UniqueIds
<1> QED
  BY <1>2, <1>7, <1>8, <1>10, <1>11 DEF r, Range

\* An entry without fragments comes to the front of the list.
LEMMA FrontGood ==
  ASSUME NEW l, GoodList(l), NEW e \in Entries, EntryInv(e), e.p = <<>>, e.timer = MaxAge,
         \A i \in DOMAIN l : l[i].id # e.id
  PROVE  LET r == <<e>> \o l
         IN  /\ GoodList(r) /\ Len(r) = Len(l) + 1 /\ r[1] = e
             /\ \A j \in DOMAIN l : r[j + 1] = l[j]
             /\ Count(r) = Count(l)
<1> DEFINE r == <<e>> \o l
<1>1. l \in Seq(Entries) /\ Len(l) \in Nat /\ DOMAIN l = 1 .. Len(l)
  BY DEF GoodList
<1>2. /\ r \in Seq(Entries) /\ Len(r) = Len(l) + 1 /\ r[1] = e
      /\ \A j \in 1 .. Len(l) : r[j + 1] = l[j]
  BY <1>1
<1> HIDE DEF r
<1>3. DOMAIN r = 1 .. Len(l) + 1
  BY <1>1, <1>2
<1>4. ASSUME NEW j \in DOMAIN r
      PROVE  (j = 1 /\ r[j] = e) \/ (j - 1 \in DOMAIN l /\ r[j] = l[j - 1] /\ j > 1)
  <2>1. CASE j = 1
    BY <2>1, <1>2
  <2>2. CASE j > 1
    <3>1. PICK k \in 1 .. Len(l) : k = j - 1
      BY <2>2, <1>1, <1>3
    <3>2. k + 1 = j /\ r[k + 1] = l[k]
      BY <3>1, <1>1, <1>2, <1>3
    <3> QED
      BY <3>1, <3>2, <2>2, <1>1
  <2> QED
    BY <2>1, <2>2, <1>1, <1>3
<1>5. GoodList(r)
  <2>1. UniqueIds(r)
    <3> SUFFICES ASSUME NEW j \in DOMAIN r, NEW k \in DOMAIN r, r[j].id = r[k].id PROVE j = k
      BY DEF UniqueIds
    <3>1. j \in Int /\ k \in Int
      BY <1>1, <1>3
    <3>2. CASE j = 1 /\ k = 1
      BY <3>2
    <3>3. CASE j > 1 /\ k > 1
      <4>1. j - 1 \in DOMAIN l /\ k - 1 \in DOMAIN l /\ l[j - 1].id = l[k - 1].id
        BY <3>3, <1>4
      <4>2. j - 1 = k - 1
        BY <4>1 DEF GoodList, UniqueIds
      <4> QED
        BY <4>2, <3>1
    <3>4. CASE j = 1 /\ k > 1
      BY <3>4, <1>4
    <3>5. CASE j > 1 /\ k = 1
      BY <3>5, <1>4
    <3> QED
      BY <3>2, <3>3, <3>4, <3>5, <1>4
  <2>2. ByAge(r)
    <3> SUFFICES ASSUME NEW j \in DOMAIN r, NEW k \in DOMAIN r, j < k
                 PROVE  r[j].timer >= r[k].timer
      BY DEF ByAge
    <3>1. j \in Int /\ k \in Int /\ j >= 1
      BY <1>1, <1>3
    <3>2. k - 1 \in DOMAIN l /\ r[k] = l[k - 1]
      BY <3>1, <1>4
    <3>3. r[k].timer \in 0 .. MaxAge
      BY <1>2, EntryParts
    <3>4. CASE j = 1
      BY <3>3, <3>4, <1>4, Const
    <3>5. CASE j > 1
      <4>1. j - 1 \in DOMAIN l /\ r[j] = l[j - 1]
        BY <3>5, <1>4
      <4>2. j - 1 < k - 1
        BY <3>1
      <4> QED
        BY <4>1, <4>2, <3>2 DEF GoodList, ByAge
    <3> QED
      BY <3>1, <3>4, <3>5
  <2>3. \A j \in DOMAIN r : EntryInv(r[j])
    BY <1>4 DEF GoodList
  <2> QED
    BY <2>1, <2>2, <2>3, <1>2 DEF GoodList
<1>6. Count(r) = Count(l)
  <2>1. Range(r) = Range(l) \cup {e}
    <3>1. ASSUME NEW x \in Range(r) PROVE x \in Range(l) \cup {e}
      BY <1>4 DEF Range
    <3>2. e \in Range(r)
      <4>1. 1 \in DOMAIN r
        BY <1>1, <1>3
      <4> QED
        BY <4>1, <1>2 DEF Range
    <3>3. ASSUME NEW j \in DOMAIN l PROVE l[j] \in Range(r)
      <4>1. PICK k \in DOMAIN r : k = j + 1
        BY <1>1, <1>3
      <4>2. r[k] = l[j]
        BY <4>1, <1>1, <1>2
      <4> QED
        BY <4>2 DEF Range
    <3> QED
      BY <3>1, <3>2, <3>3 DEF Range
  <2>2. FragSet(Range(r)) = FragSet(Range(l))
    <3>1. Range(e.p) = {}
      BY DEF Range
    <3> QED
      BY <2>1, <3>1 DEF FragSet
  <2> QED
    BY <2>2, <1>5, CountIs DEF Held
<1> QED
  BY <1>1, <1>2, <1>5, <1>6 DEF r

\* An entry of the list changes.
LEMMA ChangedGood ==
  ASSUME NEW l, GoodList(l), NEW i \in DOMAIN l, NEW e \in Entries, EntryInv(e),
         e.id = l[i].id, e.timer = l[i].timer
  PROVE  LET r == [l EXCEPT ![i] = e]
         IN  /\ GoodList(r) /\ Len(r) = Len(l) /\ DOMAIN r = DOMAIN l /\ r[i] = e
             /\ \A j \in DOMAIN l \ {i} : r[j] = l[j]
             /\ Count(r) = Count(l) - Pbufs(l[i]) + Pbufs(e)
<1> DEFINE r == [l EXCEPT ![i] = e]
<1>1. l \in Seq(Entries) /\ Len(l) \in Nat /\ DOMAIN l = 1 .. Len(l)
  BY DEF GoodList
<1>2. /\ r \in Seq(Entries) /\ Len(r) = Len(l) /\ DOMAIN r = DOMAIN l /\ r[i] = e
      /\ \A j \in DOMAIN l \ {i} : r[j] = l[j]
  BY <1>1, ExceptSeq
<1> HIDE DEF r
<1>3. \A j \in DOMAIN l : r[j].id = l[j].id /\ r[j].timer = l[j].timer
  BY <1>2
<1>4. GoodList(r)
  <2>1. UniqueIds(r)
    BY <1>2, <1>3 DEF GoodList, UniqueIds
  <2>2. ByAge(r)
    BY <1>2, <1>3 DEF GoodList, ByAge
  <2>3. \A j \in DOMAIN r : EntryInv(r[j])
    BY <1>2 DEF GoodList
  <2> QED
    BY <2>1, <2>2, <2>3, <1>2 DEF GoodList
<1>5. {r[j] : j \in DOMAIN r \ {i}} = {l[j] : j \in DOMAIN l \ {i}}
  BY <1>2
<1>6. /\ Count(l) = Pbufs(l[i]) + HeldIn(l, DOMAIN l \ {i})
      /\ Pbufs(l[i]) \in Nat /\ HeldIn(l, DOMAIN l \ {i}) \in Nat
  BY CountIs
<1>7. Count(r) = Pbufs(e) + HeldIn(l, DOMAIN l \ {i}) /\ Pbufs(e) \in Nat
  <2>1. i \in DOMAIN r /\ r[i] = e
    BY <1>2
  <2>2. /\ Pbufs(r[i]) \in Nat
        /\ Count(r) = Pbufs(r[i]) + HeldIn(r, DOMAIN r \ {i})
    BY <2>1, <1>4, CountIs
  <2> QED
    BY <2>1, <2>2, <1>5 DEF HeldIn
<1>8. Count(r) = Count(l) - Pbufs(l[i]) + Pbufs(e)
  BY <1>6, <1>7
<1> QED
  BY <1>2, <1>4, <1>8 DEF r

\* s has what is left of the list l, and the pbufs that were freed.
Reduced(l, s) ==
  /\ GoodList(s.list) /\ s.freed \in Nat /\ Count(s.list) + s.freed = Count(l)
  /\ Range(s.list) \subseteq Range(l)
  /\ Len(s.list) <= Len(l) /\ (s.freed > 0 => Len(s.list) < Len(l))

\* Nothing was freed.
LEMMA ReducedSelf ==
  ASSUME NEW l, GoodList(l)
  PROVE  Reduced(l, [list |-> l, freed |-> 0])
<1>1. Count(l) \in Nat
  BY CountIs
<1>2. Len(l) \in Nat
  BY DEF GoodList
<1> QED
  BY <1>1, <1>2 DEF Reduced

\* ip_reass_free_complete_datagram
LEMMA FreeOldestGood ==
  ASSUME NEW l, GoodList(l), NEW s, NEW d, Reduced(l, s)
  PROVE  Reduced(l, FreeOldest(s, d))
<1>1. CASE Oldest(s, d) = {}
  BY <1>1 DEF FreeOldest
<1>2. CASE Oldest(s, d) # {}
  <2> DEFINE i == CHOOSE k \in Oldest(s, d) : TRUE
             r == RemoveAt(s.list, i)
  <2>1. i \in DOMAIN s.list
    BY <1>2 DEF Oldest, Others
  <2>2. FreeOldest(s, d) = [list |-> r, freed |-> s.freed + Pbufs(s.list[i])]
    BY <1>2 DEF FreeOldest
  <2> HIDE DEF i
  <2>3. /\ GoodList(r) /\ Len(r) = Len(s.list) - 1 /\ Range(r) \subseteq Range(s.list)
        /\ Count(r) = Count(s.list) - Pbufs(s.list[i])
    BY <2>1, RemovedGood DEF Reduced
  <2>4. Pbufs(s.list[i]) \in Nat /\ Count(s.list) \in Nat
    BY <2>1, CountIs DEF Reduced
  <2>5. Len(l) \in Nat /\ Len(s.list) \in Nat
    BY DEF GoodList, Reduced
  <2> HIDE DEF r
  <2> DEFINE t == [list |-> r, freed |-> s.freed + Pbufs(s.list[i])]
  <2>6. t.list = r /\ t.freed = s.freed + Pbufs(s.list[i])
    OBVIOUS
  <2> HIDE DEF t
  <2>7. Reduced(l, t)
    BY <2>3, <2>4, <2>5, <2>6 DEF Reduced
  <2> QED
    BY <2>2, <2>7 DEF t
<1> QED
  BY <1>1, <1>2

\* Another turn of the loop, unless enough has been freed.
Again(s, d, clen) == IF s.freed < clen THEN FreeOldest(s, d) ELSE s

\* g has the results of the first m turns.
Turns(g, m, s, d, clen) ==
  g = [n \in 1 .. m |-> IF n = 1 THEN s ELSE Again(g[n - 1], d, clen)]

\* The loop makes as many turns as it may.
LEMMA TurnsExist ==
  ASSUME NEW m \in Nat, NEW s, NEW d, NEW clen
  PROVE  \E g : Turns(g, m, s, d, clen)
<1> DEFINE S == {n \in Nat : \E g : Turns(g, n, s, d, clen)}
<1>1. 0 \in S
  <2> DEFINE g == [n \in 1 .. 0 |-> s]
  <2>1. g = [n \in 1 .. 0 |-> IF n = 1 THEN s ELSE Again(g[n - 1], d, clen)]
    OBVIOUS
  <2>2. Turns(g, 0, s, d, clen)
    BY <2>1 DEF Turns
  <2> QED
    BY <2>2
<1>2. ASSUME NEW n \in 0 .. m - 1, n \in S PROVE n + 1 \in S
  <2>1. PICK g : Turns(g, n, s, d, clen)
    BY <1>2
  <2>2. n \in Nat /\ DOMAIN g = 1 .. n
        /\ \A k \in 1 .. n : g[k] = IF k = 1 THEN s ELSE Again(g[k - 1], d, clen)
    BY <2>1 DEF Turns
  <2> DEFINE h == [k \in 1 .. n + 1 |-> IF k <= n THEN g[k] ELSE IF k = 1 THEN s ELSE Again(g[n], d, clen)]
  <2>3. ASSUME NEW k \in 1 .. n + 1
        PROVE  h[k] = IF k = 1 THEN s ELSE Again(h[k - 1], d, clen)
    <3>1. CASE k <= n
      <4>1. k # 1 => k - 1 \in 1 .. n + 1 /\ h[k - 1] = g[k - 1]
        BY <3>1, <2>2
      <4>2. h[k] = g[k] /\ k \in 1 .. n
        BY <3>1, <2>2
      <4> HIDE DEF h
      <4> QED
        BY <4>1, <4>2, <2>2
    <3>2. CASE k = n + 1
      <4>1. k # 1 => k - 1 = n /\ n \in 1 .. n + 1 /\ h[n] = g[n]
        BY <3>2, <2>2
      <4>2. h[k] = IF k = 1 THEN s ELSE Again(g[n], d, clen)
        BY <3>2, <2>2
      <4> HIDE DEF h
      <4> QED
        BY <4>1, <4>2
    <3> QED
      BY <3>1, <3>2, <2>2
  <2>4. h = [k \in 1 .. n + 1 |-> h[k]]
    OBVIOUS
  <2> HIDE DEF h
  <2>5. h = [k \in 1 .. n + 1 |-> IF k = 1 THEN s ELSE Again(h[k - 1], d, clen)]
    BY <2>3, <2>4
  <2>6. Turns(h, n + 1, s, d, clen)
    BY <2>5 DEF Turns
  <2> QED
    BY <2>2, <2>6
<1> HIDE DEF S
<1>3. m \in S
  BY <1>1, <1>2, Inductive
<1> QED
  BY <1>3 DEF S

\* ip_reass_remove_oldest_datagram
LEMMA RemoveOldestGood ==
  ASSUME NEW l, GoodList(l), NEW d, NEW clen
  PROVE  Reduced(l, RemoveOldest(l, d, clen))
<1> DEFINE s == FreeOldest([list |-> l, freed |-> 0], d)
           after == CHOOSE g : Turns(g, NumReass, s, d, clen)
<1>1. RemoveOldest(l, d, clen) = after[NumReass]
  BY DEF RemoveOldest, Turns, Again
<1>2. Reduced(l, s)
  BY ReducedSelf, FreeOldestGood
<1> HIDE DEF s
<1>3. \E g : Turns(g, NumReass, s, d, clen)
  BY Const, TurnsExist
<1>4. Turns(after, NumReass, s, d, clen)
  BY <1>3
<1> HIDE DEF after
<1>5. \A n \in 1 .. NumReass : after[n] = IF n = 1 THEN s ELSE Again(after[n - 1], d, clen)
  BY <1>4 DEF Turns
<1> DEFINE S == {n \in Nat : n = 0 \/ Reduced(l, after[n])}
<1>6. 0 \in S
  OBVIOUS
<1>7. ASSUME NEW n \in 0 .. NumReass - 1, n \in S PROVE n + 1 \in S
  <2>1. n + 1 \in 1 .. NumReass /\ n + 1 \in Nat /\ (n + 1) - 1 = n
    BY Const
  <2>2. after[n + 1] = IF n + 1 = 1 THEN s ELSE Again(after[n], d, clen)
    BY <2>1, <1>5
  <2>3. CASE n = 0
    BY <2>1, <2>2, <2>3, <1>2
  <2>4. CASE n # 0
    <3>1. Reduced(l, after[n])
      BY <2>4, <1>7
    <3>2. Reduced(l, Again(after[n], d, clen))
      BY <3>1, FreeOldestGood DEF Again
    <3>3. n + 1 # 1
      BY <2>4
    <3> QED
      BY <3>2, <3>3, <2>1, <2>2
  <2> QED
    BY <2>3, <2>4
<1> HIDE DEF S
<1>8. NumReass \in S
  BY <1>6, <1>7, Const, Inductive
<1>9. Reduced(l, after[NumReass])
  BY <1>8, Const DEF S
<1> QED
  BY <1>1, <1>9

\* An entry a second later.
Older(e) == [e EXCEPT !.timer = @ - 1]

\* It keeps what it has.
LEMMA OlderIs ==
  ASSUME NEW e \in Entries, e.timer > 0
  PROVE  /\ Older(e) \in Entries /\ Older(e).id = e.id /\ Older(e).p = e.p
         /\ Older(e).timer = e.timer - 1 /\ (EntryInv(e) => EntryInv(Older(e)))
<1>1. e.timer \in 0 .. MaxAge /\ MaxAge \in Nat
  BY EntryParts, Const
<1>2. e.timer - 1 \in 0 .. MaxAge
  BY <1>1
<1>3. /\ Older(e) \in Entries /\ Older(e).id = e.id /\ Older(e).p = e.p
      /\ Older(e).timer = e.timer - 1 /\ Older(e).first = e.first
      /\ Older(e).lastfrag = e.lastfrag /\ Older(e).datagram_len = e.datagram_len
  BY <1>2 DEF Older, Entries
<1> QED
  BY <1>3 DEF EntryInv

\* The entry e is looked at after those that left x.
Kept(e, x) == IF e.timer > 0 THEN Append(x, Older(e)) ELSE x

\* g has the list after the first m entries have been looked at.
Passed(g, m, l) ==
  g = [n \in 0 .. m |-> IF n = 0 THEN <<>> ELSE Kept(l[n], g[n - 1])]

\* ip_reass_tmr gets to the end of the list.
LEMMA PassedExist ==
  ASSUME NEW m \in Nat, NEW l
  PROVE  \E g : Passed(g, m, l)
<1> DEFINE S == {n \in Nat : \E g : Passed(g, n, l)}
<1>1. 0 \in S
  <2> DEFINE g == [n \in 0 .. 0 |-> <<>>]
  <2>1. g = [n \in 0 .. 0 |-> IF n = 0 THEN <<>> ELSE Kept(l[n], g[n - 1])]
    OBVIOUS
  <2>2. Passed(g, 0, l)
    BY <2>1 DEF Passed
  <2> QED
    BY <2>2
<1>2. ASSUME NEW n \in 0 .. m - 1, n \in S PROVE n + 1 \in S
  <2>1. PICK g : Passed(g, n, l)
    BY <1>2
  <2>2. n \in Nat /\ \A k \in 0 .. n : g[k] = IF k = 0 THEN <<>> ELSE Kept(l[k], g[k - 1])
    BY <2>1 DEF Passed
  <2> DEFINE h == [k \in 0 .. n + 1 |-> IF k <= n THEN g[k] ELSE Kept(l[n + 1], g[n])]
  <2>3. ASSUME NEW k \in 0 .. n + 1
        PROVE  h[k] = IF k = 0 THEN <<>> ELSE Kept(l[k], h[k - 1])
    <3>1. CASE k <= n
      <4>1. k # 0 => k - 1 \in 0 .. n + 1 /\ h[k - 1] = g[k - 1]
        BY <3>1, <2>2
      <4>2. h[k] = g[k] /\ k \in 0 .. n
        BY <3>1, <2>2
      <4> HIDE DEF h
      <4> QED
        BY <4>1, <4>2, <2>2
    <3>2. CASE k = n + 1
      <4>1. k # 0 /\ k - 1 = n /\ h[n] = g[n]
        BY <3>2, <2>2
      <4>2. h[k] = Kept(l[k], g[n])
        BY <3>2, <2>2
      <4> HIDE DEF h
      <4> QED
        BY <4>1, <4>2
    <3> QED
      BY <3>1, <3>2, <2>2
  <2>4. h = [k \in 0 .. n + 1 |-> h[k]]
    OBVIOUS
  <2> HIDE DEF h
  <2>5. h = [k \in 0 .. n + 1 |-> IF k = 0 THEN <<>> ELSE Kept(l[k], h[k - 1])]
    BY <2>3, <2>4
  <2>6. Passed(h, n + 1, l)
    BY <2>5 DEF Passed
  <2> QED
    BY <2>2, <2>6
<1> HIDE DEF S
<1>3. m \in S
  BY <1>1, <1>2, Inductive
<1> QED
  BY <1>3 DEF S

\* r is what stays of the first n entries of l.
Stays(l, n, r) ==
  /\ GoodList(r) /\ Len(r) <= n
  /\ \A j \in DOMAIN r : \E i \in 1 .. n : l[i].timer > 0 /\ r[j] = Older(l[i])
  /\ \A i \in 1 .. n : l[i].timer > 0 => \E j \in DOMAIN r : r[j] = Older(l[i])

\* The next entry of the list.
LEMMA StaysNext ==
  ASSUME NEW l, GoodList(l), NEW n \in Nat, n + 1 \in DOMAIN l, NEW r, Stays(l, n, r),
         NEW q, q = Kept(l[n + 1], r)
  PROVE  Stays(l, n + 1, q)
<1>1. /\ l[n + 1] \in Entries /\ EntryInv(l[n + 1]) /\ l[n + 1].timer \in Int
      /\ n + 1 <= Len(l) /\ DOMAIN l = 1 .. Len(l) /\ Len(l) \in Nat
  BY ListParts, EntryParts
<1>2. r \in Seq(Entries) /\ Len(r) \in Nat /\ DOMAIN r = 1 .. Len(r) /\ Len(r) <= n
  BY DEF Stays, GoodList
<1>3. CASE ~(l[n + 1].timer > 0)
  <2>1. \A i \in 1 .. n + 1 : l[i].timer > 0 => i \in 1 .. n
    BY <1>3
  <2>2. 1 .. n \subseteq 1 .. n + 1
    OBVIOUS
  <2> QED
    BY <1>2, <1>3, <2>1, <2>2 DEF Stays, Kept
<1>4. CASE l[n + 1].timer > 0
  <2> DEFINE e == Older(l[n + 1])
  <2>1. e \in Entries /\ e.id = l[n + 1].id /\ e.timer = l[n + 1].timer - 1 /\ EntryInv(e)
    BY <1>1, <1>4, OlderIs
  <2>2. q = Append(r, e)
    BY <1>4 DEF Kept
  <2>2a. PICK u : u = e
    OBVIOUS
  <2>3. /\ q \in Seq(Entries) /\ Len(q) = Len(r) + 1 /\ DOMAIN q = 1 .. Len(r) + 1
        /\ q[Len(r) + 1] = u /\ \A j \in DOMAIN r : q[j] = r[j]
    BY <2>1, <2>2, <2>2a, <1>2, AppendProperties
  <2> HIDE DEF e
  <2>4. ASSUME NEW j \in DOMAIN r
        PROVE  r[j].id # u.id /\ r[j].timer >= u.timer
    <3>1. PICK i \in 1 .. n : l[i].timer > 0 /\ r[j] = Older(l[i])
      BY DEF Stays
    <3>2. i \in DOMAIN l /\ i < n + 1
      BY <1>1
    <3>3. l[i] \in Entries /\ l[i].timer \in Int
      BY <3>2, ListParts, EntryParts
    <3>4. r[j].id = l[i].id /\ r[j].timer = l[i].timer - 1
      BY <3>1, <3>3, OlderIs
    <3>5. l[i].id # l[n + 1].id
      BY <3>2 DEF GoodList, UniqueIds
    <3>6. l[i].timer >= l[n + 1].timer
      BY <3>2 DEF GoodList, ByAge
    <3> QED
      BY <3>3, <3>4, <3>5, <3>6, <2>1, <2>2a, <1>1
  <2>5. ASSUME NEW j \in DOMAIN q PROVE (j \in DOMAIN r /\ q[j] = r[j]) \/ (j = Len(r) + 1 /\ q[j] = u)
    BY <2>3, <1>2
  <2>6. GoodList(q)
    <3>1. UniqueIds(q)
      <4> SUFFICES ASSUME NEW j \in DOMAIN q, NEW k \in DOMAIN q, q[j].id = q[k].id PROVE j = k
        BY DEF UniqueIds
      <4>1. CASE j \in DOMAIN r /\ k \in DOMAIN r
        BY <4>1, <2>3 DEF Stays, GoodList, UniqueIds
      <4>2. CASE j \notin DOMAIN r \/ k \notin DOMAIN r
        BY <4>2, <2>4, <2>5
      <4> QED
        BY <4>1, <4>2
    <3>2. ByAge(q)
      <4> SUFFICES ASSUME NEW j \in DOMAIN q, NEW k \in DOMAIN q, j < k PROVE q[j].timer >= q[k].timer
        BY DEF ByAge
      <4>1. CASE k \in DOMAIN r
        <5>1. j \in DOMAIN r
          BY <4>1, <2>3, <1>2
        <5> QED
          BY <5>1, <4>1, <2>3 DEF Stays, GoodList, ByAge
      <4>2. CASE k = Len(r) + 1
        <5>1. j \in DOMAIN r
          BY <4>2, <2>3, <1>2
        <5> QED
          BY <5>1, <4>2, <2>3, <2>4
      <4> QED
        BY <4>1, <4>2, <2>5
    <3>3. \A j \in DOMAIN q : EntryInv(q[j])
      BY <2>1, <2>2a, <2>5 DEF Stays, GoodList
    <3> QED
      BY <3>1, <3>2, <3>3, <2>3 DEF GoodList
  <2>7. ASSUME NEW j \in DOMAIN q
        PROVE  \E i \in 1 .. n + 1 : l[i].timer > 0 /\ q[j] = Older(l[i])
    <3>1. CASE j \in DOMAIN r
      <4>1. PICK i \in 1 .. n : l[i].timer > 0 /\ r[j] = Older(l[i])
        BY <3>1 DEF Stays
      <4>2. i \in 1 .. n + 1
        OBVIOUS
      <4> QED
        BY <4>1, <4>2, <3>1, <2>3
    <3>2. CASE j = Len(r) + 1
      <4>1. n + 1 \in 1 .. n + 1 /\ q[j] = Older(l[n + 1])
        BY <3>2, <2>2a, <2>3 DEF e
      <4> QED
        BY <4>1, <1>4
    <3> QED
      BY <3>1, <3>2, <2>5
  <2>8. ASSUME NEW i \in 1 .. n + 1, l[i].timer > 0
        PROVE  \E j \in DOMAIN q : q[j] = Older(l[i])
    <3>1. CASE i \in 1 .. n
      <4>1. PICK j \in DOMAIN r : r[j] = Older(l[i])
        BY <3>1, <2>8 DEF Stays
      <4>2. j \in DOMAIN q /\ q[j] = r[j]
        BY <2>3, <1>2
      <4> QED
        BY <4>1, <4>2
    <3>2. CASE i = n + 1
      <4>1. Len(r) + 1 \in DOMAIN q /\ q[Len(r) + 1] = Older(l[i])
        BY <3>2, <2>2a, <2>3, <1>2 DEF e
      <4> QED
        BY <4>1
    <3> QED
      BY <3>1, <3>2
  <2>9. Len(q) <= n + 1
    BY <2>3, <1>2
  <2> QED
    BY <2>6, <2>7, <2>8, <2>9 DEF Stays
<1> QED
  BY <1>3, <1>4

\* What is left by Aged is what stays of the whole list.
LEMMA AgedStays ==
  ASSUME NEW l, GoodList(l)
  PROVE  Stays(l, Len(l), Aged(l))
<1> DEFINE left == CHOOSE g : Passed(g, Len(l), l)
<1>0. Len(l) \in Nat /\ DOMAIN l = 1 .. Len(l)
  BY DEF GoodList
<1>1. Aged(l) = left[Len(l)]
  BY DEF Aged, Passed, Kept, Older
<1>2. \E g : Passed(g, Len(l), l)
  BY <1>0, PassedExist
<1>3. Passed(left, Len(l), l)
  BY <1>2
<1> HIDE DEF left
<1>4. \A n \in 0 .. Len(l) : left[n] = IF n = 0 THEN <<>> ELSE Kept(l[n], left[n - 1])
  BY <1>3 DEF Passed
<1> DEFINE S == {n \in Nat : Stays(l, n, left[n])}
<1>5. 0 \in S
  <2>1. left[0] = <<>>
    BY <1>0, <1>4
  <2>2. GoodList(<<>>)
    BY DEF GoodList, UniqueIds, ByAge
  <2>3. Stays(l, 0, <<>>)
    BY <2>2 DEF Stays
  <2> QED
    BY <2>1, <2>3
<1>6. ASSUME NEW n \in 0 .. Len(l) - 1, n \in S PROVE n + 1 \in S
  <2>1. n + 1 \in 0 .. Len(l) /\ n + 1 \in DOMAIN l /\ n + 1 # 0 /\ n + 1 \in Nat /\ (n + 1) - 1 = n
        /\ n \in Nat
    BY <1>0
  <2>2. left[n + 1] = Kept(l[n + 1], left[n])
    BY <2>1, <1>4
  <2>3. Stays(l, n, left[n])
    BY <1>6
  <2>4. Stays(l, n + 1, left[n + 1])
    BY <2>1, <2>2, <2>3, StaysNext
  <2> QED
    BY <2>1, <2>4
<1> HIDE DEF S
<1>6a. PICK m \in Nat : m = Len(l)
  BY <1>0
<1>6b. \A n \in 0 .. m - 1 : n \in S => n + 1 \in S
  BY <1>6, <1>6a
<1>6c. \A n \in 0 .. m : n \in S
  BY <1>5, <1>6b, Inductive
<1>7. Len(l) \in S
  BY <1>6a, <1>6c
<1> QED
  BY <1>1, <1>7 DEF S

\* ip_reass_tmr frees what it counts.
LEMMA AgedGood ==
  ASSUME NEW l, GoodList(l), NonEmpty(l)
  PROVE  /\ GoodList(Aged(l)) /\ NonEmpty(Aged(l)) /\ Len(Aged(l)) <= Len(l)
         /\ ExpiredPbufs(l) \in Nat /\ Count(Aged(l)) = Count(l) - ExpiredPbufs(l)
<1> DEFINE r == Aged(l)
           I == {i \in DOMAIN l : l[i].timer = 0}
           J == {i \in DOMAIN l : l[i].timer > 0}
<1>0. Len(l) \in Nat /\ DOMAIN l = 1 .. Len(l)
  BY DEF GoodList
<1>1. /\ GoodList(r) /\ Len(r) <= Len(l)
      /\ \A j \in DOMAIN r : \E i \in J : r[j] = Older(l[i])
      /\ \A i \in J : \E j \in DOMAIN r : r[j] = Older(l[i])
  BY <1>0, AgedStays DEF Stays
<1> HIDE DEF r
<1>2. \A i \in J : Older(l[i]).p = l[i].p
  BY ListParts, OlderIs
<1>3. NonEmpty(r)
  <2> SUFFICES ASSUME NEW j \in DOMAIN r PROVE r[j].p # <<>>
    BY DEF NonEmpty
  <2>1. PICK i \in J : r[j] = Older(l[i])
    BY <1>1
  <2>2. r[j].p = l[i].p
    BY <2>1, <1>2
  <2>3. l[i].p # <<>>
    BY DEF NonEmpty
  <2> QED
    BY <2>2, <2>3
<1>4. FragSet(Range(r)) = FragSet({l[i] : i \in J})
  <2>1. ASSUME NEW x \in Range(r) PROVE \E i \in J : x.p = l[i].p
    BY <1>1, <1>2 DEF Range
  <2>2. ASSUME NEW i \in J PROVE \E x \in Range(r) : x.p = l[i].p
    BY <1>1, <1>2 DEF Range
  <2> HIDE DEF J
  <2> QED
    BY <2>1, <2>2 DEF FragSet
<1>5. Count(r) = HeldIn(l, J)
  BY <1>1, <1>4, CountIs DEF HeldIn, Held
<1>6. ExpiredPbufs(l) = HeldIn(l, I)
  BY QueuedInIs DEF ExpiredPbufs
<1>7. I \cup J = DOMAIN l /\ I \cap J = {} /\ I \in SUBSET DOMAIN l /\ J \in SUBSET DOMAIN l
  <2>1. \A i \in DOMAIN l : l[i].timer \in 0 .. MaxAge
    BY ListParts, EntryParts
  <2> QED
    BY <2>1, Const
<1> HIDE DEF I, J
<1>8. HeldIn(l, I) \in Nat /\ HeldIn(l, J) \in Nat
  BY <1>7, FragSetFinite
<1>9. HeldIn(l, DOMAIN l) = HeldIn(l, I) + HeldIn(l, J)
  BY <1>7, HeldAdd
<1>10. Count(l) = HeldIn(l, DOMAIN l)
  BY QueuedInIs DEF Count
<1>11. Count(r) = Count(l) - ExpiredPbufs(l)
  BY <1>5, <1>6, <1>8, <1>9, <1>10
<1> QED
  BY <1>1, <1>3, <1>6, <1>8, <1>11 DEF r

-----------------------------------------------------------------------------
(***************************************************************************)
(* A fragment and its queue                                                *)
(***************************************************************************)
\* The queue is cut where the fragment belongs.
LEMMA BeforeIs ==
  ASSUME NEW p \in Seq(Fragments), Ordered(p), NEW f \in Fragments
  PROVE  /\ Before(p, f) \in 0 .. Len(p)
         /\ \A i \in DOMAIN p : p[i].start <= f.start <=> i <= Before(p, f)
<1>0. Len(p) \in Nat /\ DOMAIN p = 1 .. Len(p) /\ f.start \in Nat
  BY FragParts
<1>1. \A i \in DOMAIN p : p[i].start \in Nat /\ p[i].end \in Nat /\ p[i].start < p[i].end
  BY FragParts
<1>2. \A i, j \in DOMAIN p : i < j => p[i].start < p[j].start
  BY <1>1 DEF Ordered
<1> DEFINE B == {i \in DOMAIN p : p[i].start <= f.start}
           S == {i \in DOMAIN p : p[i].start > f.start}
<1>3. PICK n \in 0 .. Len(p) : B = 1 .. n
  <2>1. CASE S = {}
    <3>1. B = 1 .. Len(p)
      BY <2>1, <1>0, <1>1
    <3> QED
      BY <3>1, <1>0
  <2>2. CASE S # {}
    <3>1. S \in SUBSET Nat
      BY <1>0
    <3>2. PICK m \in S : \A y \in S : m <= y
      BY <2>2, <3>1, LeastOf
    <3>3. m \in 1 .. Len(p) /\ p[m].start > f.start
      BY <1>0
    <3>4. ASSUME NEW i \in 1 .. Len(p) PROVE i \in B <=> i <= m - 1
      <4>1. CASE i < m
        <5>1. i \notin S
          BY <4>1, <3>2, <3>3
        <5> QED
          BY <5>1, <4>1, <3>3, <1>0, <1>1
      <4>2. CASE i >= m
        <5>1. p[i].start > f.start
          BY <4>2, <3>3, <1>0, <1>1, <1>2
        <5> QED
          BY <5>1, <4>2, <3>3, <1>0, <1>1
      <4> QED
        BY <4>1, <4>2, <3>3
    <3>5. B = 1 .. m - 1
      BY <3>3, <3>4, <1>0
    <3> QED
      BY <3>3, <3>5, <1>0
  <2> QED
    BY <2>1, <2>2
<1>4. Cardinality(1 .. n) = n
  BY FS_Interval
<1>5. Before(p, f) = n
  BY <1>3, <1>4 DEF Before
<1> QED
  BY <1>0, <1>3, <1>5

\* The queue with a fragment that overlaps none is in order, and has its pbufs too.
LEMMA QueueInsert ==
  ASSUME NEW p \in Seq(Fragments), Ordered(p), NEW f \in Fragments, ~Overlaps(p, f),
         NEW q, q = InsertAt(p, Before(p, f) + 1, f)
  PROVE  /\ q \in Seq(Fragments) /\ q # <<>> /\ Ordered(q)
         /\ Range(q) = Range(p) \cup {f}
         /\ Cardinality(PbufsOf(p)) \in Nat
         /\ Cardinality(PbufsOf(q)) = Cardinality(PbufsOf(p)) + f.clen
<1>0. Len(p) \in Nat /\ DOMAIN p = 1 .. Len(p) /\ f.start \in Nat /\ f.end \in Nat /\ f.start < f.end
      /\ f.clen \in Nat
  BY FragParts
<1>1. \A i \in DOMAIN p : p[i].start \in Nat /\ p[i].end \in Nat /\ p[i].start < p[i].end
  BY FragParts
<1>2. PICK n \in 0 .. Len(p) : n = Before(p, f)
  BY BeforeIs
<1>3. n \in Nat /\ n + 1 \in 1 .. Len(p) + 1
  BY <1>0
<1>4. Inserted(Fragments, p, n + 1, f, q)
  BY <1>2, <1>3, InsertAtIs
<1>5. /\ q \in Seq(Fragments) /\ Len(q) = Len(p) + 1 /\ DOMAIN q = 1 .. Len(p) + 1
      /\ \A j \in 1 .. Len(p) + 1 :
            q[j] = IF j < n + 1 THEN p[j] ELSE IF j = n + 1 THEN f ELSE p[j - 1]
  BY <1>4 DEF Inserted
<1>6. (n > 0 => p[n].end <= f.start) /\ (n < Len(p) => f.end <= p[n + 1].start)
  <2>1. n > 0 => ~(f.start < p[n].end)
    BY <1>2 DEF Overlaps
  <2>2. n < Len(p) => ~(f.end > p[n + 1].start)
    BY <1>2 DEF Overlaps
  <2>3. n > 0 => n \in DOMAIN p
    BY <1>0, <1>3
  <2>4. n < Len(p) => n + 1 \in DOMAIN p
    BY <1>0, <1>3
  <2> QED
    BY <2>1, <2>2, <2>3, <2>4, <1>0, <1>1
<1>7. ASSUME NEW j \in 1 .. n PROVE p[j].end <= f.start
  <2>1. n > 0 /\ n \in DOMAIN p /\ j \in DOMAIN p
    BY <1>0, <1>3
  <2>2. CASE j < n
    <3>1. p[j].end <= p[n].start
      BY <2>1, <2>2 DEF Ordered
    <3> QED
      BY <3>1, <2>1, <1>0, <1>1, <1>6
  <2>3. CASE j = n
    BY <2>1, <2>3, <1>6
  <2> QED
    BY <2>2, <2>3, <1>3
<1>8. ASSUME NEW k \in n + 1 .. Len(p) PROVE f.end <= p[k].start
  <2>1. n < Len(p) /\ n + 1 \in DOMAIN p /\ k \in DOMAIN p
    BY <1>0, <1>3
  <2>2. CASE n + 1 < k
    <3>1. p[n + 1].end <= p[k].start
      BY <2>1, <2>2 DEF Ordered
    <3> QED
      BY <3>1, <2>1, <1>0, <1>1, <1>6
  <2>3. CASE k = n + 1
    BY <2>1, <2>3, <1>6
  <2> QED
    BY <2>2, <2>3, <1>3
<1>9. Ordered(q)
  <2> SUFFICES ASSUME NEW j \in DOMAIN q, NEW k \in DOMAIN q, j < k PROVE q[j].end <= q[k].start
    BY DEF Ordered
  <2>1. j \in 1 .. Len(p) + 1 /\ k \in 1 .. Len(p) + 1
    BY <1>5
  <2>2. CASE k < n + 1
    <3>1. j \in DOMAIN p /\ k \in DOMAIN p /\ q[j] = p[j] /\ q[k] = p[k]
      BY <2>1, <2>2, <1>0, <1>3, <1>5
    <3> QED
      BY <3>1 DEF Ordered
  <2>3. CASE k = n + 1
    <3>1. j \in 1 .. n /\ q[j] = p[j] /\ q[k] = f
      BY <2>1, <2>3, <1>0, <1>3, <1>5
    <3> QED
      BY <3>1, <1>7
  <2>4. CASE k > n + 1
    <3>1. q[k] = p[k - 1] /\ k - 1 \in n + 1 .. Len(p) /\ k - 1 \in DOMAIN p
      BY <2>1, <2>4, <1>0, <1>3, <1>5
    <3>2. CASE j < n + 1
      <4>1. q[j] = p[j] /\ j \in DOMAIN p /\ j < k - 1
        BY <2>1, <2>4, <3>2, <1>0, <1>3, <1>5
      <4> QED
        BY <3>1, <4>1 DEF Ordered
    <3>3. CASE j = n + 1
      <4>1. q[j] = f
        BY <2>1, <3>3, <1>5
      <4> QED
        BY <3>1, <4>1, <1>8
    <3>4. CASE j > n + 1
      <4>1. q[j] = p[j - 1] /\ j - 1 \in DOMAIN p /\ j - 1 < k - 1
        BY <2>1, <3>4, <1>0, <1>3, <1>5
      <4> QED
        BY <3>1, <4>1 DEF Ordered
    <3> QED
      BY <3>2, <3>3, <3>4, <2>1, <1>3
  <2> QED
    BY <2>2, <2>3, <2>4, <2>1, <1>3
<1>10. n + 1 \in DOMAIN q /\ q[n + 1] = f
  <2>1. n + 1 \in DOMAIN q
    BY <1>3, <1>5
  <2>2. PICK k \in DOMAIN q : k = n + 1
    BY <2>1
  <2>3. ~(k < n + 1)
    BY <2>2, <1>3
  <2>4. q[k] = f
    BY <2>2, <2>3, <1>5
  <2> QED
    BY <2>2, <2>4
<1>11. ASSUME NEW i \in DOMAIN p PROVE \E j \in DOMAIN q : j # n + 1 /\ q[j] = p[i]
  <2>1. CASE i <= n
    <3>1. i \in DOMAIN q /\ i # n + 1 /\ q[i] = p[i]
      BY <2>1, <1>0, <1>3, <1>5
    <3> QED
      BY <3>1
  <2>2. CASE i > n
    <3>1. PICK k \in 1 .. Len(p) + 1 : k = i + 1
      BY <1>0
    <3>2. k \in DOMAIN q /\ k > n + 1 /\ k - 1 = i
      BY <2>2, <3>1, <1>0, <1>3, <1>5
    <3>3. q[k] = p[k - 1] /\ k # n + 1
      BY <3>2, <1>3, <1>5
    <3> QED
      BY <3>2, <3>3
  <2> QED
    BY <2>1, <2>2, <1>0, <1>3
<1>12. ASSUME NEW j \in DOMAIN q PROVE q[j] = f \/ \E i \in DOMAIN p : q[j] = p[i]
  <2>1. CASE j < n + 1
    BY <2>1, <1>0, <1>3, <1>5
  <2>2. CASE j = n + 1
    BY <2>2, <1>10
  <2>3. CASE j > n + 1
    <3>1. j - 1 \in DOMAIN p /\ q[j] = p[j - 1]
      BY <2>3, <1>0, <1>3, <1>5
    <3> QED
      BY <3>1
  <2> QED
    BY <2>1, <2>2, <2>3, <1>3, <1>5
<1>13. Range(q) = Range(p) \cup {f}
  BY <1>10, <1>11, <1>12 DEF Range
<1>14. f \notin Range(p)
  <2> SUFFICES ASSUME f \in Range(p) PROVE FALSE
    OBVIOUS
  <2>1. PICK i \in DOMAIN p : p[i] = f
    BY DEF Range
  <2>2. PICK j \in DOMAIN q : j # n + 1 /\ q[j] = f
    BY <2>1, <1>11
  <2> QED
    BY <2>2, <1>5, <1>9, <1>10, OrderedDiffer
<1>15. IsFiniteSet(Range(p)) /\ Range(p) \in SUBSET Fragments
  BY RangeFinite
<1>16. IsFiniteSet({f}) /\ {f} \in SUBSET Fragments /\ Range(p) \cap {f} = {}
  BY <1>14, FS_Singleton
<1>17. Cardinality(PbufSet(Range(p) \cup {f})) = Cardinality(PbufSet(Range(p))) + Cardinality(PbufSet({f}))
  BY <1>15, <1>16, PbufsAdd
<1>18. Cardinality(PbufsOf(q)) = Cardinality(PbufSet(Range(q)))
  BY <1>5, <1>9, PbufsQueue
<1>19. Cardinality(PbufsOf(p)) = Cardinality(PbufSet(Range(p))) /\ Cardinality(PbufSet(Range(p))) \in Nat
  BY <1>15, PbufsQueue, PbufsFinite
<1>20. Cardinality(PbufSet({f})) = f.clen
  BY PbufsFew
<1>21. q # <<>>
  BY <1>0, <1>5
<1> QED
  BY <1>5, <1>9, <1>13, <1>17, <1>18, <1>19, <1>20, <1>21

\* The entry with its header renewed.
LEMMA HeaderIs ==
  ASSUME NEW r \in Entries, NEW f \in Fragments
  PROVE  LET h == Header(r, f)
         IN  /\ h \in Entries /\ h.id = r.id /\ h.p = r.p /\ h.lastfrag = r.lastfrag
             /\ h.datagram_len = r.datagram_len /\ h.timer = r.timer
             /\ h.first = (r.first \/ f.start = 0)
             /\ EntryInv(r) => EntryInv(h)
<1> DEFINE h == Header(r, f)
<1>1. /\ h \in Entries /\ h.id = r.id /\ h.p = r.p /\ h.lastfrag = r.lastfrag
      /\ h.datagram_len = r.datagram_len /\ h.timer = r.timer
      /\ h.first = (r.first \/ f.start = 0)
  BY DEF Header, Entries
<1> HIDE DEF h
<1>2. EntryInv(r) => EntryInv(h)
  BY <1>1 DEF EntryInv
<1> QED
  BY <1>1, <1>2 DEF h

\* The entry with one more fragment is complete, or good and still waiting.
LEMMA ChainedGood ==
  ASSUME NEW r \in Entries, EntryInv(r), NEW f \in Fragments, f.id = r.id, ~Overlaps(r.p, f),
         f.start = 0 => r.first
  PROVE  LET q == Chained(r, f)
         IN  /\ q \in Entries /\ q.id = r.id /\ q.timer = r.timer /\ q.p # <<>> /\ Ordered(q.p)
             /\ \A j \in DOMAIN q.p : q.p[j].id = q.id
             /\ q.lastfrag <=> \E j \in DOMAIN q.p : IsLast(q.p[j])
             /\ q.lastfrag => q.datagram_len = Length[q.id]
             /\ ~(q.lastfrag /\ Valid(q.p, f)) => EntryInv(q)
             /\ Pbufs(r) \in Nat /\ Pbufs(q) = Pbufs(r) + f.clen
<1> DEFINE q == Chained(r, f)
           p == InsertAt(r.p, Before(r.p, f) + 1, f)
<1>0. /\ r.p \in Seq(Fragments) /\ Ordered(r.p) /\ r.lastfrag \in BOOLEAN /\ r.first \in BOOLEAN
      /\ f.end \in Nat /\ r.datagram_len \in Nat
  BY EntryParts, FragParts DEF EntryInv
<1>1. /\ p \in Seq(Fragments) /\ p # <<>> /\ Ordered(p)
      /\ Range(p) = Range(r.p) \cup {f}
      /\ Cardinality(PbufsOf(r.p)) \in Nat
      /\ Cardinality(PbufsOf(p)) = Cardinality(PbufsOf(r.p)) + f.clen
  BY <1>0, QueueInsert
<1>1a. q = [r EXCEPT !.p = p, !.lastfrag = @ \/ IsLast(f),
                     !.datagram_len = IF IsLast(f) THEN f.end ELSE @]
  BY DEF Chained
<1> HIDE DEF p, q
<1>2. /\ q \in Entries /\ q.id = r.id /\ q.timer = r.timer /\ q.p = p /\ q.first = r.first
      /\ q.lastfrag = (r.lastfrag \/ IsLast(f))
      /\ q.datagram_len = IF IsLast(f) THEN f.end ELSE r.datagram_len
  BY <1>0, <1>1, <1>1a DEF Entries, IsLast
<1>3. \A j \in DOMAIN p : p[j] = f \/ \E i \in DOMAIN r.p : p[j] = r.p[i]
  BY <1>1 DEF Range
<1>4. \A i \in DOMAIN r.p : \E j \in DOMAIN p : p[j] = r.p[i]
  BY <1>1 DEF Range
<1>5. \E j \in DOMAIN p : p[j] = f
  BY <1>1 DEF Range
<1>6. \A j \in DOMAIN q.p : q.p[j].id = q.id
  BY <1>2, <1>3 DEF EntryInv
<1>7. q.lastfrag <=> \E j \in DOMAIN q.p : IsLast(q.p[j])
  <2>1. r.lastfrag <=> \E j \in DOMAIN r.p : IsLast(r.p[j])
    BY DEF EntryInv
  <2>2. ASSUME q.lastfrag PROVE \E j \in DOMAIN p : IsLast(p[j])
    BY <2>1, <2>2, <1>2, <1>4, <1>5
  <2>3. ASSUME NEW j \in DOMAIN p, IsLast(p[j]) PROVE q.lastfrag
    BY <2>1, <2>3, <1>2, <1>3
  <2> QED
    BY <2>2, <2>3, <1>2
<1>8. q.lastfrag => q.datagram_len = Length[q.id]
  <2>1. CASE IsLast(f)
    BY <2>1, <1>2 DEF IsLast
  <2>2. CASE ~IsLast(f)
    BY <2>2, <1>2 DEF EntryInv
  <2> QED
    BY <2>1, <2>2
<1>9. \A j \in DOMAIN q.p : q.p[j].start = 0 => q.first
  BY <1>2, <1>3 DEF EntryInv
<1>10. Valid(q.p, f) <=> Whole(q.p)
  BY DEF Valid, Whole
<1>11. Pbufs(r) \in Nat /\ Pbufs(q) = Pbufs(r) + f.clen
  BY <1>1, <1>2 DEF Pbufs
<1>12. ~(q.lastfrag /\ Valid(q.p, f)) => EntryInv(q)
  BY <1>1, <1>2, <1>6, <1>7, <1>8, <1>9, <1>10 DEF EntryInv
<1> QED
  BY <1>1, <1>2, <1>6, <1>7, <1>8, <1>11, <1>12 DEF q

-----------------------------------------------------------------------------
(***************************************************************************)
(* The steps                                                               *)
(***************************************************************************)
\* What a queue with the last fragment and without holes is.
LEMMA QueueWhole ==
  ASSUME NEW q \in Entries, q.p # <<>>, Ordered(q.p), \A j \in DOMAIN q.p : q.p[j].id = q.id,
         \E j \in DOMAIN q.p : IsLast(q.p[j]), q.datagram_len = Length[q.id],
         NEW f, Valid(q.p, f)
  PROVE  /\ \A i \in DOMAIN q.p : q.p[i].id = q.p[1].id
         /\ q.p[1].start = 0 /\ IsLast(q.p[Len(q.p)])
         /\ \A i \in 1 .. Len(q.p) - 1 : q.p[i].end = q.p[i + 1].start
         /\ q.datagram_len = Length[q.p[1].id]
<1>1. q.p \in Seq(Fragments) /\ Len(q.p) \in Nat /\ DOMAIN q.p = 1 .. Len(q.p)
  BY EntryParts
<1>2. Len(q.p) > 0 /\ 1 \in DOMAIN q.p /\ Len(q.p) \in DOMAIN q.p
  BY <1>1
<1>3. PICK j \in DOMAIN q.p : IsLast(q.p[j])
  OBVIOUS
<1>4. j = Len(q.p)
  <2> SUFFICES ASSUME j # Len(q.p) PROVE FALSE
    OBVIOUS
  <2>1. j < Len(q.p)
    BY <1>1
  <2>2. q.p[j].end <= q.p[Len(q.p)].start
    BY <2>1, <1>2 DEF Ordered
  <2>3. /\ q.p[j] \in Fragments /\ q.p[Len(q.p)] \in Fragments
        /\ q.p[j].id = q.id /\ q.p[Len(q.p)].id = q.id
    BY <1>1, <1>2
  <2>4. q.p[j].end = Length[q.id]
    BY <2>3, <1>3 DEF IsLast
  <2>5. /\ q.p[Len(q.p)].start \in Nat /\ q.p[Len(q.p)].end \in Nat /\ Length[q.id] \in Nat
        /\ q.p[Len(q.p)].start < q.p[Len(q.p)].end /\ q.p[Len(q.p)].end <= Length[q.id]
    BY <2>3, FragParts
  <2> QED
    BY <2>2, <2>4, <2>5
<1> QED
  BY <1>2, <1>3, <1>4 DEF Valid

\* A queue without fragments has no pbufs.
LEMMA EmptyPbufs ==
  ASSUME NEW r, r.p = <<>>
  PROVE  Pbufs(r) = 0
<1>1. PbufsOf(<<>>) = {}
  BY DEF PbufsOf
<1> QED
  BY <1>1, FS_EmptySet DEF Pbufs

\* The entry that ip_reass_enqueue_new_datagram makes.
LEMMA NewDatagramIs ==
  ASSUME NEW f \in Fragments
  PROVE  LET e == NewDatagram(f)
         IN  e \in Entries /\ EntryInv(e) /\ e.p = <<>> /\ e.timer = MaxAge /\ e.id = f.id
<1> DEFINE e == NewDatagram(f)
<1>1. e.p = <<>> /\ e.timer = MaxAge /\ e.id = f.id /\ e.lastfrag = FALSE
  BY DEF NewDatagram
<1>2. e \in Entries
  <2>1. f.id \in Ids /\ MaxAge \in 0 .. MaxAge /\ <<>> \in Seq(Fragments)
    BY FragParts, Const
  <2> QED
    BY <2>1 DEF NewDatagram, Entries
<1> HIDE DEF e
<1>3. EntryInv(e)
  BY <1>1 DEF EntryInv, Ordered
<1> QED
  BY <1>1, <1>2, <1>3 DEF e

\* What a call has made of the list when f is about to be queued in it: an entry
\* without fragments is the one for f.
Prepared(s, f) ==
  /\ GoodList(s.list) /\ s.freed \in Nat /\ Count(s.list) + s.freed = Count(reassdatagrams)
  /\ Len(s.list) <= NumReass
  /\ \A i \in DOMAIN s.list : s.list[i].p # <<>> \/ s.list[i].id = f.id

\* Nothing that is left of a list without empty entries is empty.
LEMMA ReducedNonEmpty ==
  ASSUME NEW l, NonEmpty(l), NEW s, Reduced(l, s)
  PROVE  NonEmpty(s.list)
<1> SUFFICES ASSUME NEW i \in DOMAIN s.list PROVE s.list[i].p # <<>>
  BY DEF NonEmpty
<1>1. s.list[i] \in Range(l)
  BY DEF Reduced, Range
<1>2. PICK j \in DOMAIN l : s.list[i] = l[j]
  BY <1>1 DEF Range
<1> QED
  BY <1>2 DEF NonEmpty

\* After the limit of pbufs was looked at.
LEMMA LimitedIs ==
  ASSUME IInv, NEW f \in Fragments
  PROVE  Reduced(reassdatagrams, Limited(f)) /\ NonEmpty(Limited(f).list)
<1>1. GoodList(reassdatagrams) /\ NonEmpty(reassdatagrams)
  BY DEF IInv
<1>2. Reduced(reassdatagrams, Limited(f))
  BY <1>1, ReducedSelf, RemoveOldestGood DEF Limited
<1> QED
  BY <1>1, <1>2, ReducedNonEmpty

\* After an entry was looked for.
LEMMA EnlistedIs ==
  ASSUME IInv, NEW f \in Fragments, NEW s, Reduced(reassdatagrams, s), NonEmpty(s.list)
  PROVE  Prepared(Enlisted(s, f), f) /\ Enlisted(s, f).freed >= s.freed
<1> DEFINE l == s.list
           t == RemoveOldest(l, f.id, f.clen)
           e == NewDatagram(f)
<1>0. /\ GoodList(l) /\ s.freed \in Nat /\ Count(l) + s.freed = Count(reassdatagrams)
      /\ Len(l) <= NumReass /\ Len(l) \in Nat /\ NumReass \in Nat
  <2>1. Len(reassdatagrams) <= NumReass /\ Len(reassdatagrams) \in Nat
    BY DEF IInv, GoodList
  <2>2. GoodList(l) /\ s.freed \in Nat /\ Count(l) + s.freed = Count(reassdatagrams)
        /\ Len(l) <= Len(reassdatagrams)
    BY DEF Reduced
  <2>3. Len(l) \in Nat
    BY <2>2 DEF GoodList
  <2> QED
    BY <2>1, <2>2, <2>3, Const
<1>1. e \in Entries /\ EntryInv(e) /\ e.p = <<>> /\ e.timer = MaxAge /\ e.id = f.id
  BY NewDatagramIs
<1>2. Reduced(l, t)
  BY <1>0, RemoveOldestGood
<1>3. NonEmpty(t.list)
  BY <1>2, ReducedNonEmpty
<1>4. /\ GoodList(t.list) /\ t.freed \in Nat /\ Count(t.list) + t.freed = Count(l)
      /\ Range(t.list) \subseteq Range(l)
      /\ Len(t.list) <= Len(l) /\ (t.freed > 0 => Len(t.list) < Len(l))
  BY <1>2 DEF Reduced
<1>4a. Len(t.list) \in Nat /\ Count(t.list) \in Nat /\ Count(l) \in Nat
  BY <1>0, <1>4, CountIs DEF GoodList
<1>4b. Enlisted(s, f) =
         IF Matching(l, f.id) # {} THEN s
         ELSE IF Len(l) < NumReass THEN [list |-> <<e>> \o l, freed |-> s.freed]
         ELSE [list |-> IF t.freed >= f.clen THEN <<e>> \o t.list ELSE t.list,
               freed |-> s.freed + t.freed]
  BY DEF Enlisted
<1> HIDE DEF e, t, l
<1>5. CASE Matching(l, f.id) # {}
  <2>1. Enlisted(s, f) = s
    BY <1>5, <1>4b
  <2> QED
    BY <2>1, <1>0 DEF Prepared, NonEmpty, l
<1>6. CASE Matching(l, f.id) = {}
  <2>1. \A i \in DOMAIN l : l[i].id # e.id
    BY <1>6, <1>1 DEF Matching
  <2>2. CASE Len(l) < NumReass
    <3> DEFINE r == <<e>> \o l
               u == [list |-> <<e>> \o l, freed |-> s.freed]
    <3>1. /\ GoodList(r) /\ Len(r) = Len(l) + 1 /\ r[1] = e
          /\ \A j \in DOMAIN l : r[j + 1] = l[j]
          /\ Count(r) = Count(l)
      BY <1>0, <1>1, <2>1, FrontGood
    <3>2. Enlisted(s, f) = u
      BY <1>6, <2>2, <1>4b
    <3>3. u.list = r /\ u.freed = s.freed
      OBVIOUS
    <3> HIDE DEF r, u
    <3>4. \A i \in DOMAIN r : r[i].p # <<>> \/ r[i].id = f.id
      <4> SUFFICES ASSUME NEW i \in DOMAIN r, i # 1 PROVE r[i].p # <<>>
        BY <3>1, <1>1
      <4>1. DOMAIN r = 1 .. Len(r) /\ DOMAIN l = 1 .. Len(l)
        BY <3>1, <1>0 DEF GoodList
      <4>2. i - 1 \in DOMAIN l /\ (i - 1) + 1 = i
        BY <4>1, <3>1, <1>0
      <4>3. r[i] = l[i - 1]
        BY <4>2, <3>1
      <4> QED
        BY <4>2, <4>3 DEF NonEmpty, l
    <3>5. Len(r) <= NumReass
      BY <3>1, <2>2, <1>0
    <3> QED
      BY <3>1, <3>2, <3>3, <3>4, <3>5, <1>0 DEF Prepared
  <2>3. CASE ~(Len(l) < NumReass)
    <3>1. CASE t.freed >= f.clen
      <4> DEFINE r == <<e>> \o t.list
                 u == [list |-> r, freed |-> s.freed + t.freed]
      <4>1. \A i \in DOMAIN t.list : t.list[i].id # e.id
        BY <2>1, <1>4 DEF Range
      <4>2. /\ GoodList(r) /\ Len(r) = Len(t.list) + 1 /\ r[1] = e
            /\ \A j \in DOMAIN t.list : r[j + 1] = t.list[j]
            /\ Count(r) = Count(t.list)
        BY <4>1, <1>1, <1>4, FrontGood
      <4>3. Enlisted(s, f) = u
        BY <1>6, <2>3, <3>1, <1>4b
      <4>4. u.list = r /\ u.freed = s.freed + t.freed
        OBVIOUS
      <4> HIDE DEF r, u
      <4>5. \A i \in DOMAIN r : r[i].p # <<>> \/ r[i].id = f.id
        <5> SUFFICES ASSUME NEW i \in DOMAIN r, i # 1 PROVE r[i].p # <<>>
          BY <4>2, <1>1
        <5>1. DOMAIN r = 1 .. Len(r) /\ DOMAIN t.list = 1 .. Len(t.list)
          BY <4>2, <1>4 DEF GoodList
        <5>2. i - 1 \in DOMAIN t.list /\ (i - 1) + 1 = i
          BY <5>1, <4>2, <1>4a
        <5>3. r[i] = t.list[i - 1]
          BY <5>2, <4>2
        <5> QED
          BY <5>2, <5>3, <1>3 DEF NonEmpty
      <4>6. Len(r) <= NumReass
        <5>1. t.freed > 0
          BY <3>1, <1>4, FragParts
        <5> QED
          BY <5>1, <4>2, <1>0, <1>4, <1>4a
      <4>7. s.freed + t.freed \in Nat /\ s.freed + t.freed >= s.freed
            /\ Count(r) + (s.freed + t.freed) = Count(reassdatagrams)
        BY <4>2, <1>0, <1>4, <1>4a
      <4> QED
        BY <4>2, <4>3, <4>4, <4>5, <4>6, <4>7 DEF Prepared
    <3>2. CASE ~(t.freed >= f.clen)
      <4> DEFINE u == [list |-> t.list, freed |-> s.freed + t.freed]
      <4>1. Enlisted(s, f) = u
        BY <1>6, <2>3, <3>2, <1>4b
      <4>2. u.list = t.list /\ u.freed = s.freed + t.freed
        OBVIOUS
      <4> HIDE DEF u
      <4>3. Len(t.list) <= NumReass
        BY <1>0, <1>4, <1>4a
      <4>4. s.freed + t.freed \in Nat /\ s.freed + t.freed >= s.freed
            /\ Count(t.list) + (s.freed + t.freed) = Count(reassdatagrams)
        BY <1>0, <1>4, <1>4a
      <4> QED
        BY <4>1, <4>2, <4>3, <4>4, <1>3, <1>4 DEF Prepared, NonEmpty
    <3> QED
      BY <3>1, <3>2
  <2> QED
    BY <2>2, <2>3
<1> QED
  BY <1>5, <1>6

\* nullreturn
LEMMA DropKeeps ==
  ASSUME IInv, NEW s, NEW l, Dropped(s, l), s.freed \in Nat, GoodList(l), NonEmpty(l),
         Len(l) <= NumReass, Count(l) + s.freed = Count(reassdatagrams)
  PROVE  IInv'
<1>1. /\ reassdatagrams' = l /\ ip_reass_pbufcount' = ip_reass_pbufcount - s.freed
      /\ pool' = pool + s.freed /\ out' = Nothing
  BY DEF Dropped
<1>2. /\ GoodList(reassdatagrams) /\ ip_reass_pbufcount = Count(reassdatagrams)
      /\ Count(reassdatagrams) <= MaxPbufs /\ pool = PoolSize - Count(reassdatagrams)
  BY DEF IInv
<1>3. Count(l) \in Nat /\ Count(reassdatagrams) \in Nat /\ PoolSize \in Nat /\ MaxPbufs \in Nat
  BY <1>2, CountIs, Const
<1>4. ip_reass_pbufcount' = Count(l) /\ Count(l) <= MaxPbufs /\ pool' = PoolSize - Count(l)
  <2>1. PICK a \in Nat, c \in Nat, d \in Nat : a = Count(l) /\ c = Count(reassdatagrams) /\ d = s.freed
    BY <1>3
  <2>2. a + d = c
    BY <2>1
  <2>3. ip_reass_pbufcount' = c - d /\ c <= MaxPbufs /\ pool' = (PoolSize - c) + d
    BY <2>1, <1>1, <1>2
  <2>4. ip_reass_pbufcount' = a /\ a <= MaxPbufs /\ pool' = PoolSize - a
    BY <2>2, <2>3, <1>3
  <2> QED
    BY <2>1, <2>4
<1>5. DeliveredWhole'
  BY <1>1 DEF DeliveredWhole, Nothing
<1> QED
  BY <1>1, <1>4, <1>5 DEF IInv, Count, GoodList, UniqueIds, ByAge, NonEmpty, EntryInv, Ordered, Whole

\* The fragment is thrown away, with an entry that was made for it.
LEMMA TakeDrops ==
  ASSUME IInv, NEW f \in Fragments, NEW s, Prepared(s, f), NEW i \in Matching(s.list, f.id),
         NEW l, l = IF s.list[i].p = <<>> THEN RemoveAt(s.list, i)
                    ELSE [s.list EXCEPT ![i] = Header(s.list[i], f)],
         Dropped(s, l)
  PROVE  IInv'
<1>1. /\ GoodList(s.list) /\ s.freed \in Nat /\ Count(s.list) + s.freed = Count(reassdatagrams)
      /\ Len(s.list) <= NumReass /\ Len(s.list) \in Nat
      /\ \A j \in DOMAIN s.list : s.list[j].p # <<>> \/ s.list[j].id = f.id
  BY DEF Prepared, GoodList
<1>2. i \in DOMAIN s.list /\ s.list[i].id = f.id
  BY DEF Matching
<1>3. s.list[i] \in Entries /\ EntryInv(s.list[i])
  BY <1>1, <1>2, ListParts
<1>3a. Count(s.list) \in Nat
  BY <1>1, CountIs
<1>4. \A j \in DOMAIN s.list : j # i => s.list[j].id # f.id
  BY <1>1, <1>2 DEF GoodList, UniqueIds
<1>5. CASE s.list[i].p = <<>>
  <2> DEFINE r == RemoveAt(s.list, i)
  <2>1. /\ GoodList(r) /\ Len(r) = Len(s.list) - 1 /\ Range(r) \subseteq Range(s.list)
        /\ Count(r) = Count(s.list) - Pbufs(s.list[i])
        /\ s.list[i] \notin Range(r)
    BY <1>1, <1>2, RemovedGood
  <2>2. l = r
    BY <1>5
  <2> HIDE DEF r
  <2>3. NonEmpty(r)
    <3> SUFFICES ASSUME NEW k \in DOMAIN r PROVE r[k].p # <<>>
      BY DEF NonEmpty
    <3>1. r[k] \in Range(r)
      BY DEF Range
    <3>2. PICK j \in DOMAIN s.list : r[k] = s.list[j]
      BY <3>1, <2>1 DEF Range
    <3>3. j # i
      BY <3>1, <3>2, <2>1
    <3> QED
      BY <3>2, <3>3, <1>1, <1>4
  <2>4. Pbufs(s.list[i]) = 0
    BY <1>5, EmptyPbufs
  <2>5. Count(r) + s.freed = Count(reassdatagrams) /\ Len(r) <= NumReass
    BY <2>1, <2>4, <1>1, <1>3a, Const
  <2> QED
    BY <2>1, <2>2, <2>3, <2>5, <1>1, DropKeeps
<1>6. CASE s.list[i].p # <<>>
  <2> DEFINE e == Header(s.list[i], f)
             r == [s.list EXCEPT ![i] = e]
  <2>1. e \in Entries /\ e.id = s.list[i].id /\ e.p = s.list[i].p /\ e.timer = s.list[i].timer
        /\ EntryInv(e)
    BY <1>3, HeaderIs
  <2>2. l = r
    BY <1>6
  <2> HIDE DEF e
  <2>3. /\ GoodList(r) /\ Len(r) = Len(s.list) /\ DOMAIN r = DOMAIN s.list /\ r[i] = e
        /\ \A j \in DOMAIN s.list \ {i} : r[j] = s.list[j]
        /\ Count(r) = Count(s.list) - Pbufs(s.list[i]) + Pbufs(e)
    BY <1>1, <1>2, <2>1, ChangedGood
  <2> HIDE DEF r
  <2>4. Pbufs(e) = Pbufs(s.list[i]) /\ Pbufs(s.list[i]) \in Nat
    BY <2>1, <1>1, <1>2, CountIs DEF Pbufs
  <2>5. Count(r) + s.freed = Count(reassdatagrams)
    BY <2>3, <2>4, <1>1, <1>3a
  <2>6. NonEmpty(r)
    <3> SUFFICES ASSUME NEW k \in DOMAIN r PROVE r[k].p # <<>>
      BY DEF NonEmpty
    <3>1. CASE k = i
      BY <3>1, <2>1, <2>3, <1>6
    <3>2. CASE k # i
      BY <3>2, <2>3, <1>1, <1>4
    <3> QED
      BY <3>1, <3>2
  <2> QED
    BY <2>2, <2>3, <2>5, <2>6, <1>1, DropKeeps
<1> QED
  BY <1>5, <1>6

\* The fragment is queued, or its datagram is complete.
LEMMA TakeQueues ==
  ASSUME IInv, NEW f \in Fragments, NEW s, Prepared(s, f), NEW i \in Matching(s.list, f.id),
         NEW r, r = Header(s.list[i], f), ~Overlaps(r.p, f),
         NEW q, q = Chained(r, f),
         Count(reassdatagrams) - s.freed + f.clen <= MaxPbufs,
         IF q.lastfrag /\ Valid(q.p, f) THEN Finished(s, i, q, f) ELSE Queued(s, i, q, f)
  PROVE  IInv'
<1>1. /\ GoodList(s.list) /\ s.freed \in Nat /\ Count(s.list) + s.freed = Count(reassdatagrams)
      /\ Len(s.list) <= NumReass /\ Len(s.list) \in Nat
      /\ \A j \in DOMAIN s.list : s.list[j].p # <<>> \/ s.list[j].id = f.id
  BY DEF Prepared, GoodList
<1>2. i \in DOMAIN s.list /\ s.list[i].id = f.id
  BY DEF Matching
<1>3. s.list[i] \in Entries /\ EntryInv(s.list[i])
  BY <1>1, <1>2, ListParts
<1>4. \A j \in DOMAIN s.list : j # i => s.list[j].id # f.id
  BY <1>1, <1>2 DEF GoodList, UniqueIds
<1>5. /\ r \in Entries /\ r.id = s.list[i].id /\ r.p = s.list[i].p /\ r.timer = s.list[i].timer
      /\ EntryInv(r) /\ r.first = (s.list[i].first \/ f.start = 0)
  BY <1>3, HeaderIs
<1>5a. f.id = r.id /\ (f.start = 0 => r.first)
  BY <1>2, <1>5
<1>6. /\ q \in Entries /\ q.id = r.id /\ q.timer = r.timer /\ q.p # <<>> /\ Ordered(q.p)
      /\ \A j \in DOMAIN q.p : q.p[j].id = q.id
      /\ q.lastfrag <=> \E j \in DOMAIN q.p : IsLast(q.p[j])
      /\ q.lastfrag => q.datagram_len = Length[q.id]
      /\ ~(q.lastfrag /\ Valid(q.p, f)) => EntryInv(q)
      /\ Pbufs(r) \in Nat /\ Pbufs(q) = Pbufs(r) + f.clen
  BY <1>5, <1>5a, ChainedGood
<1>7. Pbufs(s.list[i]) = Pbufs(r)
  BY <1>5 DEF Pbufs
<1>8. /\ GoodList(reassdatagrams) /\ ip_reass_pbufcount = Count(reassdatagrams)
      /\ Count(reassdatagrams) <= MaxPbufs /\ pool = PoolSize - Count(reassdatagrams)
  BY DEF IInv
<1>9. /\ Count(s.list) \in Nat /\ Count(reassdatagrams) \in Nat /\ PoolSize \in Nat
      /\ MaxPbufs \in Nat /\ f.clen \in Nat /\ NumReass \in Nat
  BY <1>1, <1>8, CountIs, Const, FragParts
<1>10. CASE q.lastfrag /\ Valid(q.p, f)
  <2> DEFINE l == RemoveAt(s.list, i)
             o == [p |-> q.p, datagram_len |-> q.datagram_len]
  <2>1. /\ reassdatagrams' = l
        /\ ip_reass_pbufcount' = ip_reass_pbufcount - s.freed + f.clen - Pbufs(q)
        /\ pool' = pool + s.freed - f.clen + Pbufs(q)
        /\ out' = o
    BY <1>10 DEF Finished
  <2>2. /\ GoodList(l) /\ Len(l) = Len(s.list) - 1 /\ Range(l) \subseteq Range(s.list)
        /\ Count(l) = Count(s.list) - Pbufs(s.list[i])
        /\ s.list[i] \notin Range(l)
    BY <1>1, <1>2, RemovedGood
  <2>3. o.p = q.p /\ o.datagram_len = q.datagram_len
    OBVIOUS
  <2> HIDE DEF l, o
  <2>4. NonEmpty(l)
    <3> SUFFICES ASSUME NEW k \in DOMAIN l PROVE l[k].p # <<>>
      BY DEF NonEmpty
    <3>1. l[k] \in Range(l)
      BY DEF Range
    <3>2. PICK j \in DOMAIN s.list : l[k] = s.list[j]
      BY <3>1, <2>2 DEF Range
    <3>3. j # i
      BY <3>1, <3>2, <2>2
    <3> QED
      BY <3>2, <3>3, <1>1, <1>4
  <2>5. Count(l) \in Nat
    BY <2>2, CountIs
  <2>6. /\ ip_reass_pbufcount' = Count(l) /\ Count(l) <= MaxPbufs /\ pool' = PoolSize - Count(l)
        /\ Len(l) <= NumReass
    <3>1. PICK a \in Nat, c \in Nat, d \in Nat, u \in Nat, w \in Nat, z \in Nat :
              /\ a = Count(l) /\ c = Count(reassdatagrams) /\ d = s.freed /\ u = Count(s.list)
              /\ w = Pbufs(r) /\ z = f.clen
      BY <2>5, <1>1, <1>6, <1>9
    <3>2. u + d = c /\ a = u - w /\ Pbufs(q) = w + z
      BY <3>1, <2>2, <1>1, <1>6, <1>7
    <3>3. ip_reass_pbufcount' = c - d + z - (w + z) /\ c <= MaxPbufs /\ pool' = PoolSize - c + d - z + (w + z)
      BY <3>1, <3>2, <2>1, <1>8
    <3>4. ip_reass_pbufcount' = a /\ a <= MaxPbufs /\ pool' = PoolSize - a
      BY <3>2, <3>3, <1>9
    <3>5. Len(l) <= NumReass
      BY <2>2, <1>1, <1>9
    <3> QED
      BY <3>1, <3>4, <3>5
  <2>7. /\ \A j \in DOMAIN q.p : q.p[j].id = q.p[1].id
        /\ q.p[1].start = 0 /\ IsLast(q.p[Len(q.p)])
        /\ \A j \in 1 .. Len(q.p) - 1 : q.p[j].end = q.p[j + 1].start
        /\ q.datagram_len = Length[q.p[1].id]
    BY <1>6, <1>10, QueueWhole
  <2>7a. out'.p = q.p /\ out'.datagram_len = q.datagram_len
    BY <2>1, <2>3
  <2>8. DeliveredWhole'
    BY <2>7, <2>7a DEF DeliveredWhole
  <2> QED
    BY <2>1, <2>2, <2>4, <2>6, <2>8
    DEF IInv, Count, GoodList, UniqueIds, ByAge, NonEmpty, EntryInv, Ordered, Whole
<1>11. CASE ~(q.lastfrag /\ Valid(q.p, f))
  <2> DEFINE l == [s.list EXCEPT ![i] = q]
  <2>1. /\ reassdatagrams' = l
        /\ ip_reass_pbufcount' = ip_reass_pbufcount - s.freed + f.clen
        /\ pool' = pool + s.freed - f.clen
        /\ out' = Nothing
    BY <1>11 DEF Queued
  <2>2. EntryInv(q) /\ q.id = s.list[i].id /\ q.timer = s.list[i].timer
    BY <1>5, <1>6, <1>11
  <2>3. /\ GoodList(l) /\ Len(l) = Len(s.list) /\ DOMAIN l = DOMAIN s.list /\ l[i] = q
        /\ \A j \in DOMAIN s.list \ {i} : l[j] = s.list[j]
        /\ Count(l) = Count(s.list) - Pbufs(s.list[i]) + Pbufs(q)
    <3>1. q \in Entries
      BY <1>6
    <3> QED
      BY <3>1, <2>2, <1>1, <1>2, ChangedGood
  <2> HIDE DEF l
  <2>4. NonEmpty(l)
    <3> SUFFICES ASSUME NEW k \in DOMAIN l PROVE l[k].p # <<>>
      BY DEF NonEmpty
    <3>1. CASE k = i
      BY <3>1, <2>3, <1>6
    <3>2. CASE k # i
      BY <3>2, <2>3, <1>1, <1>4
    <3> QED
      BY <3>1, <3>2
  <2>5. Count(l) \in Nat
    BY <2>3, CountIs
  <2>6. /\ ip_reass_pbufcount' = Count(l) /\ Count(l) <= MaxPbufs /\ pool' = PoolSize - Count(l)
        /\ Len(l) <= NumReass
    <3>1. PICK a \in Nat, c \in Nat, d \in Nat, u \in Nat, w \in Nat, z \in Nat :
              /\ a = Count(l) /\ c = Count(reassdatagrams) /\ d = s.freed /\ u = Count(s.list)
              /\ w = Pbufs(r) /\ z = f.clen
      BY <2>5, <1>1, <1>6, <1>9
    <3>2. u + d = c /\ a = u - w + (w + z) /\ c - d + z <= MaxPbufs
      BY <3>1, <2>3, <1>1, <1>6, <1>7
    <3>3. ip_reass_pbufcount' = c - d + z /\ pool' = PoolSize - c + d - z
      BY <3>1, <2>1, <1>8
    <3>4. ip_reass_pbufcount' = a /\ a <= MaxPbufs /\ pool' = PoolSize - a
      BY <3>2, <3>3, <1>9
    <3>5. Len(l) <= NumReass
      BY <2>3, <1>1, <1>9
    <3> QED
      BY <3>1, <3>4, <3>5
  <2>7. DeliveredWhole'
    BY <2>1 DEF DeliveredWhole, Nothing
  <2> QED
    BY <2>1, <2>3, <2>4, <2>6, <2>7
    DEF IInv, Count, GoodList, UniqueIds, ByAge, NonEmpty, EntryInv, Ordered, Whole
<1> QED
  BY <1>10, <1>11

\* ip4_reass
LEMMA ReassKeeps ==
  ASSUME IInv, NEW f \in Fragments, ip4_reass(f)
  PROVE  IInv'
<1> DEFINE s == Limited(f)
           t == Enlisted(s, f)
<1>0. /\ GoodList(reassdatagrams) /\ NonEmpty(reassdatagrams) /\ Len(reassdatagrams) <= NumReass
      /\ Len(reassdatagrams) \in Nat /\ NumReass \in Nat
      /\ ip_reass_pbufcount = Count(reassdatagrams)
  BY Const DEF IInv, GoodList
<1>0a. Count(reassdatagrams) \in Nat /\ f.clen \in Nat /\ MaxPbufs \in Nat
  BY <1>0, CountIs, FragParts, Const
<1>1. Reduced(reassdatagrams, s) /\ NonEmpty(s.list)
  BY LimitedIs
<1>2. Prepared(t, f) /\ t.freed >= s.freed
  BY <1>1, EnlistedIs
<1>3. \/ Dropped([freed |-> 0], reassdatagrams)
      \/ Refused(s, f) /\ Dropped(s, s.list)
      \/ Matching(t.list, f.id) = {} /\ Dropped(t, t.list)
      \/ ~Refused(s, f) /\ \E i \in Matching(t.list, f.id) : Take(t, i, f)
  BY DEF ip4_reass
<1> HIDE DEF s, t
<1>4. CASE Dropped([freed |-> 0], reassdatagrams)
  <2> DEFINE z == [freed |-> 0]
  <2>1. z.freed = 0
    OBVIOUS
  <2>2. Dropped(z, reassdatagrams)
    BY <1>4
  <2> HIDE DEF z
  <2>3. z.freed \in Nat /\ Count(reassdatagrams) + z.freed = Count(reassdatagrams)
    BY <2>1, <1>0a
  <2> QED
    BY <2>2, <2>3, <1>0, DropKeeps
<1>5. CASE Dropped(s, s.list)
  <2>1. /\ GoodList(s.list) /\ s.freed \in Nat /\ Count(s.list) + s.freed = Count(reassdatagrams)
        /\ Len(s.list) <= Len(reassdatagrams)
    BY <1>1 DEF Reduced
  <2>2. Len(s.list) <= NumReass
    BY <2>1, <1>0 DEF GoodList
  <2> QED
    BY <2>1, <2>2, <1>1, <1>5, DropKeeps
<1>6. CASE Matching(t.list, f.id) = {} /\ Dropped(t, t.list)
  <2>1. /\ GoodList(t.list) /\ t.freed \in Nat /\ Count(t.list) + t.freed = Count(reassdatagrams)
        /\ Len(t.list) <= NumReass
    BY <1>2 DEF Prepared
  <2>2. NonEmpty(t.list)
    BY <1>2, <1>6 DEF Prepared, NonEmpty, Matching
  <2> QED
    BY <2>1, <2>2, <1>6, DropKeeps
<1>7. ASSUME ~Refused(s, f), NEW i \in Matching(t.list, f.id), Take(t, i, f) PROVE IInv'
  <2> DEFINE r == Header(t.list[i], f)
             q == Chained(r, f)
  <2>1. Count(reassdatagrams) - t.freed + f.clen <= MaxPbufs
    <3>1. s.freed \in Nat /\ t.freed \in Nat
      BY <1>1, <1>2 DEF Reduced, Prepared
    <3> QED
      BY <3>1, <1>0, <1>0a, <1>2, <1>7 DEF Refused
  <2>2. t.list[i] \in Entries
    <3>1. GoodList(t.list) /\ i \in DOMAIN t.list
      BY <1>2 DEF Prepared, Matching
    <3> QED
      BY <3>1, ListParts
  <2>3. r.p = t.list[i].p
    BY <2>2, HeaderIs
  <2>4. CASE TooLong(f) \/ Overlaps(r.p, f)
    <3> DEFINE l == IF t.list[i].p = <<>> THEN RemoveAt(t.list, i)
                    ELSE [t.list EXCEPT ![i] = Header(t.list[i], f)]
    <3>1. Dropped(t, l)
      BY <1>7, <2>3, <2>4 DEF Take
    <3> HIDE DEF r, q
    <3> QED
      BY <3>1, <1>2, TakeDrops
  <2>5. CASE ~(TooLong(f) \/ Overlaps(r.p, f))
    <3>1. IF q.lastfrag /\ Valid(q.p, f) THEN Finished(t, i, q, f) ELSE Queued(t, i, q, f)
      BY <1>7, <2>5 DEF Take
    <3>2. ~Overlaps(r.p, f)
      BY <2>5
    <3>3. PICK a, b : a = r /\ b = Chained(a, f)
      OBVIOUS
    <3> HIDE DEF q
    <3>4. b = q /\ a = Header(t.list[i], f)
      BY <3>3 DEF q
    <3> HIDE DEF r
    <3>5. ~Overlaps(a.p, f)
      BY <3>2, <3>3
    <3>6. IF b.lastfrag /\ Valid(b.p, f) THEN Finished(t, i, b, f) ELSE Queued(t, i, b, f)
      BY <3>1, <3>4
    <3> QED
      BY <3>3, <3>4, <3>5, <3>6, <2>1, <1>2, TakeQueues
  <2> QED
    BY <2>4, <2>5
<1> QED
  BY <1>3, <1>4, <1>5, <1>6, <1>7

\* ip_reass_tmr
LEMMA TmrKeeps ==
  ASSUME IInv, ip_reass_tmr
  PROVE  IInv'
<1> DEFINE l == Aged(reassdatagrams)
           x == ExpiredPbufs(reassdatagrams)
<1>1. /\ GoodList(reassdatagrams) /\ NonEmpty(reassdatagrams) /\ Len(reassdatagrams) <= NumReass
      /\ Len(reassdatagrams) \in Nat /\ NumReass \in Nat
  BY Const DEF IInv, GoodList
<1>2. /\ GoodList(l) /\ NonEmpty(l) /\ Len(l) <= Len(reassdatagrams)
      /\ x \in Nat /\ Count(l) = Count(reassdatagrams) - x
  BY <1>1, AgedGood
<1>3. /\ reassdatagrams' = l /\ ip_reass_pbufcount' = ip_reass_pbufcount - x
      /\ pool' = pool + x /\ out' = Nothing
  BY DEF ip_reass_tmr
<1> HIDE DEF l, x
<1> DEFINE s == [freed |-> x]
<1>4. s.freed = x
  OBVIOUS
<1> HIDE DEF s
<1>5. Dropped(s, l)
  BY <1>3, <1>4 DEF Dropped
<1>6. Count(reassdatagrams) \in Nat
  BY <1>1, CountIs
<1>7. s.freed \in Nat /\ Count(l) + s.freed = Count(reassdatagrams)
  BY <1>2, <1>4, <1>6
<1>8. Len(l) <= NumReass
  BY <1>1, <1>2 DEF GoodList
<1> QED
  BY <1>2, <1>5, <1>7, <1>8, DropKeeps

\* Every step
LEMMA StepKeeps ==
  ASSUME IInv, [Next]_vars
  PROVE  IInv'
<1>1. CASE Next
  BY <1>1, ReassKeeps, TmrKeeps DEF Next
<1>2. CASE UNCHANGED vars
  BY <1>2
  DEF vars, IInv, Count, GoodList, UniqueIds, ByAge, NonEmpty, EntryInv, Ordered, Whole, DeliveredWhole
<1> QED
  BY <1>1, <1>2

\* The first state
LEMMA InitIInv ==
  ASSUME Init
  PROVE  IInv
<1>1. reassdatagrams = <<>> /\ ip_reass_pbufcount = 0 /\ pool = PoolSize /\ out = Nothing
  BY DEF Init
<1>2. QueuedIn(<<>>, DOMAIN <<>>) = {}
  BY DEF QueuedIn
<1>3. Count(<<>>) = 0
  BY <1>2, FS_EmptySet DEF Count
<1>4. GoodList(<<>>) /\ NonEmpty(<<>>) /\ Len(<<>>) = 0
  BY DEF GoodList, UniqueIds, ByAge, NonEmpty
<1>5. DeliveredWhole
  BY <1>1 DEF DeliveredWhole
<1>6. 0 <= NumReass /\ 0 <= MaxPbufs /\ PoolSize = PoolSize - 0
  BY Const
<1> QED
  BY <1>1, <1>3, <1>4, <1>5, <1>6 DEF IInv

-----------------------------------------------------------------------------
(***************************************************************************)
(* What the invariant means                                                *)
(***************************************************************************)
\* A queue that covers its datagram has the last fragment and no hole.
LEMMA CoveredIsWhole ==
  ASSUME NEW r \in Entries, EntryInv(r), r.p # <<>>,
         UNION {f.start .. f.end - 1 : f \in Range(r.p)} = 0 .. Length[r.id] - 1
  PROVE  r.lastfrag /\ Whole(r.p)
<1> DEFINE p == r.p
           L == Length[r.id]
<1>1. p \in Seq(Fragments) /\ Len(p) \in Nat /\ DOMAIN p = 1 .. Len(p) /\ L \in Nat
  BY EntryParts, Const
<1>2. Len(p) > 0 /\ 1 \in DOMAIN p
  BY <1>1
<1>3. \A j \in DOMAIN p : /\ p[j].start \in Nat /\ p[j].end \in Nat /\ p[j].start < p[j].end
                          /\ p[j].end <= L /\ p[j].id = r.id
  <2> TAKE j \in DOMAIN p
  <2>1. p[j] \in Fragments /\ p[j].id = r.id
    BY <1>1 DEF EntryInv
  <2> QED
    BY <2>1, FragParts
<1>4. \A j, k \in DOMAIN p : j < k => p[j].end <= p[k].start
  BY DEF EntryInv, Ordered
<1>5. ASSUME NEW x \in 0 .. L - 1 PROVE \E j \in DOMAIN p : p[j].start <= x /\ x < p[j].end
  <2>1. x \in UNION {f.start .. f.end - 1 : f \in Range(p)}
    OBVIOUS
  <2>2. PICK f \in Range(p) : x \in f.start .. f.end - 1
    BY <2>1
  <2>3. PICK j \in DOMAIN p : f = p[j]
    BY DEF Range
  <2>4. p[j].start \in Nat /\ p[j].end \in Nat /\ x \in Int
    BY <1>1, <1>3
  <2> QED
    BY <2>2, <2>3, <2>4
<1>6. L > 0
  BY <1>1, <1>2, <1>3
<1>7. r.lastfrag <=> \E j \in DOMAIN p : IsLast(p[j])
  BY DEF EntryInv
<1> HIDE DEF p, L
<1>8. p[1].start = 0
  <2>1. PICK j \in DOMAIN p : p[j].start <= 0 /\ 0 < p[j].end
    BY <1>1, <1>5, <1>6
  <2>2. p[j].start = 0
    BY <2>1, <1>3
  <2>3. j = 1
    <3> SUFFICES ASSUME j # 1 PROVE FALSE
      OBVIOUS
    <3>1. 1 < j
      BY <1>1
    <3>2. p[1].end <= p[j].start
      BY <3>1, <1>2, <1>4
    <3> QED
      BY <3>2, <2>2, <1>2, <1>3
  <2> QED
    BY <2>2, <2>3
<1>9. ASSUME NEW j \in 1 .. Len(p) - 1 PROVE p[j].end = p[j + 1].start
  <2>1. j \in DOMAIN p /\ j + 1 \in DOMAIN p /\ j < j + 1
    BY <1>1
  <2>2. p[j].end <= p[j + 1].start
    BY <2>1, <1>4
  <2> SUFFICES ASSUME p[j].end < p[j + 1].start PROVE FALSE
    BY <2>1, <2>2, <1>3
  <2>3. PICK x \in Nat : x = p[j].end
    BY <2>1, <1>3
  <2>4. x \in 0 .. L - 1
    BY <2>1, <2>3, <1>1, <1>3
  <2>5. PICK k \in DOMAIN p : p[k].start <= x /\ x < p[k].end
    BY <2>4, <1>5
  <2>6. CASE k < j
    <3>1. p[k].end <= p[j].start
      BY <2>1, <2>6, <1>4
    <3> QED
      BY <3>1, <2>1, <2>3, <2>5, <1>3
  <2>7. CASE k = j
    BY <2>3, <2>5, <2>7, <1>3, <2>1
  <2>8. CASE k = j + 1
    BY <2>1, <2>3, <2>5, <2>8, <1>3
  <2>9. CASE k > j + 1
    <3>1. p[j + 1].end <= p[k].start
      BY <2>1, <2>9, <1>4
    <3> QED
      BY <3>1, <2>1, <2>3, <2>5, <1>3
  <2> QED
    BY <2>6, <2>7, <2>8, <2>9, <1>1
<1>10. r.lastfrag
  <2>1. L - 1 \in 0 .. L - 1
    BY <1>1, <1>6
  <2>2. PICK j \in DOMAIN p : L - 1 < p[j].end
    BY <2>1, <1>5
  <2>3. p[j].end = L
    BY <2>2, <1>1, <1>3
  <2>4. IsLast(p[j])
    BY <2>3, <1>3 DEF IsLast, L
  <2> QED
    BY <2>4, <1>7
<1> QED
  BY <1>8, <1>9, <1>10 DEF Whole, p

\* The count and the order of the list.
LEMMA IInvCounts ==
  ASSUME IInv
  PROVE  CountsSafe
<1>1. /\ GoodList(reassdatagrams) /\ NonEmpty(reassdatagrams)
      /\ Len(reassdatagrams) <= NumReass
      /\ ip_reass_pbufcount = Count(reassdatagrams)
      /\ Count(reassdatagrams) <= MaxPbufs
      /\ pool = PoolSize - Count(reassdatagrams)
  BY DEF IInv
<1>2. Count(reassdatagrams) \in Nat /\ PoolSize \in Nat
  BY <1>1, CountIs, Const
<1>3. TypeOK
  BY <1>1, <1>2 DEF TypeOK, GoodList, NonEmpty
<1>4. CountExact
  BY <1>1 DEF CountExact, Count
<1>5. OldestLast
  BY <1>1 DEF OldestLast, GoodList, ByAge
<1> QED
  BY <1>3, <1>4, <1>5 DEF CountsSafe

\* The queues of the list.
LEMMA IInvQueues ==
  ASSUME IInv
  PROVE  QueuesReady
<1>1. GoodList(reassdatagrams) /\ NonEmpty(reassdatagrams)
  BY DEF IInv
<1>2. ASSUME NEW i \in DOMAIN reassdatagrams
      PROVE  /\ reassdatagrams[i] \in Entries /\ EntryInv(reassdatagrams[i])
             /\ reassdatagrams[i].p # <<>> /\ reassdatagrams[i].p \in Seq(Fragments)
             /\ Len(reassdatagrams[i].p) \in Nat
             /\ DOMAIN reassdatagrams[i].p = 1 .. Len(reassdatagrams[i].p)
  <2>1. reassdatagrams[i] \in Entries /\ EntryInv(reassdatagrams[i])
        /\ reassdatagrams[i].p # <<>> /\ reassdatagrams[i].p \in Seq(Fragments)
    BY <1>1, ListParts DEF NonEmpty
  <2> QED
    BY <2>1
<1>3. QueueOrdered
  <2> SUFFICES ASSUME NEW i \in DOMAIN reassdatagrams, NEW r, r = reassdatagrams[i]
               PROVE  /\ \A j \in 1 .. Len(r.p) - 1 : r.p[j].end <= r.p[j + 1].start
                      /\ r.lastfrag <=> \E f \in Range(r.p) : IsLast(f)
                      /\ r.lastfrag => r.datagram_len = Length[r.id]
                      /\ \A j \in DOMAIN reassdatagrams : reassdatagrams[j].id = r.id => i = j
    BY DEF QueueOrdered
  <2>1. EntryInv(r) /\ Len(r.p) \in Nat /\ DOMAIN r.p = 1 .. Len(r.p)
    BY <1>2
  <2>2. ASSUME NEW j \in 1 .. Len(r.p) - 1 PROVE r.p[j].end <= r.p[j + 1].start
    <3>1. j \in DOMAIN r.p /\ j + 1 \in DOMAIN r.p /\ j < j + 1
      BY <2>1
    <3> QED
      BY <3>1, <2>1 DEF EntryInv, Ordered
  <2>3. r.lastfrag <=> \E f \in Range(r.p) : IsLast(f)
    BY <2>1 DEF EntryInv, Range
  <2>4. r.lastfrag => r.datagram_len = Length[r.id]
    BY <2>1 DEF EntryInv
  <2>5. \A j \in DOMAIN reassdatagrams : reassdatagrams[j].id = r.id => i = j
    BY <1>1 DEF GoodList, UniqueIds
  <2> QED
    BY <2>2, <2>3, <2>4, <2>5
<1>4. FirstHeader
  <2> SUFFICES ASSUME NEW i \in DOMAIN reassdatagrams, reassdatagrams[i].p[1].start = 0
               PROVE  reassdatagrams[i].first
    BY DEF FirstHeader
  <2>1. 1 \in DOMAIN reassdatagrams[i].p
    BY <1>2
  <2> QED
    BY <2>1, <1>2 DEF EntryInv
<1>5. NoCompleteWaits
  <2> SUFFICES ASSUME NEW i \in DOMAIN reassdatagrams, NEW r, r = reassdatagrams[i],
                      UNION {f.start .. f.end - 1 : f \in Range(r.p)} = 0 .. Length[r.id] - 1
               PROVE  FALSE
    BY DEF NoCompleteWaits
  <2>1. r \in Entries /\ EntryInv(r) /\ r.p # <<>>
    BY <1>2
  <2>2. r.lastfrag /\ Whole(r.p)
    BY <2>1, CoveredIsWhole
  <2> QED
    BY <2>1, <2>2 DEF EntryInv
<1> QED
  BY <1>3, <1>4, <1>5 DEF QueuesReady

\* The invariant holds always.
LEMMA AlwaysIInv == Spec => []IInv
  BY InitIInv, StepKeeps, PTL DEF Spec

(***************************************************************************)
(* ip_reass_pbufcount, kept by hand where fragments are queued, dropped,   *)
(* timed out, thrown out for others and delivered, is the number of pbufs  *)
(* that wait, never above IP_REASS_MAX_PBUFS; no pbuf of the pool is lost  *)
(* or freed twice; and the list is in order of age.                        *)
(***************************************************************************)
THEOREM CountsKept == Spec => []CountsSafe
  BY AlwaysIInv, IInvCounts, PTL

(***************************************************************************)
(* What waits in the list of ip4_reass is in order, without overlaps, with *)
(* the header of its first fragment, and is never a datagram of which all  *)
(* has arrived, whichever fragment came last.                              *)
(***************************************************************************)
THEOREM QueuesKept == Spec => []QueuesReady
  BY AlwaysIInv, IInvQueues, PTL

(***************************************************************************)
(* What ip4_reass returns is a whole datagram: from 0 to its length, each  *)
(* byte once, all of it of one datagram, in order.                         *)
(***************************************************************************)
THEOREM ReturnedWhole == Spec => []DeliveredWhole
<1>1. IInv => DeliveredWhole
  BY DEF IInv
<1> QED
  BY <1>1, AlwaysIInv, PTL
=============================================================================
