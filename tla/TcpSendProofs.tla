---------------------------- MODULE TcpSendProofs ---------------------------
(***************************************************************************)
(* Proofs about TcpSend, for every value of its constants, in three steps: *)
(*   Bounded   the types, the numbers and the timers, whatever happens;    *)
(*   Sound     the two queues hold exactly what is not acknowledged;       *)
(*   Seen      where the FIN is on the wire.                               *)
(* Each is shown for every operator of the pcb, then for every action.     *)
(***************************************************************************)
EXTENDS TcpSend, SequenceTheorems, NaturalsInduction, WellFoundedInduction, TLAPS

-----------------------------------------------------------------------------
(***************************************************************************)
(* The inductive invariant                                                 *)
(***************************************************************************)
\* A segment lies within what was written and carries the FIN only after
\* tcp_send_fin; without bytes it is the FIN behind the last byte.
Placed(g, p) ==
  /\ g.seq + g.len <= p.snd_lbb /\ g.seq + g.len <= Bytes
  /\ g.fin => p.fin
  /\ g.len = 0 => g.fin /\ g.seq = Bytes

QueuePlaced(s, p) == \A i \in 1 .. Len(s) : Placed(s[i], p)

\* All segments in the queues and on the wire.
AllPlaced(p) ==
  /\ QueuePlaced(p.unsent, p) /\ QueuePlaced(p.unacked, p)
  /\ \A g \in p.wire : Placed(g, p) /\ End(g) <= p.snd_nxt

\* The order of the sequence numbers; r is what the peer has received.
Numbers(p, r) ==
  /\ r \in Nat /\ p.lastack <= r /\ r <= p.snd_nxt
  /\ ~p.fin => p.snd_lbb <= Bytes /\ p.snd_nxt <= p.snd_lbb
  /\ p.fin => p.snd_lbb >= Bytes

\* The two timers and what is in flight.
Timed(p) ==
  /\ p.persist => p.unacked = <<>>
  /\ p.unacked # <<>> => p.rtime = 0

\* What holds whatever the network and the memory do.
Bounded(p, r) == p \in Pcb /\ AllPlaced(p) /\ Numbers(p, r) /\ Timed(p)

-----------------------------------------------------------------------------
(***************************************************************************)
(* Constants, records and sequences                                        *)
(***************************************************************************)
\* What TcpSendAssumption says of each constant.
LEMMA Const ==
  /\ MSS \in Nat /\ MSS > 0 /\ Bytes \in Nat /\ Bytes > 0
  /\ MaxRtx \in Nat /\ MaxRtx > 0 /\ MaxAcks \in Nat /\ MaxAcks > 0
  /\ SndBuf \in Nat /\ SndBuf = 2 * MSS /\ Windows \subseteq 0 .. SndBuf
  /\ Chunks \subseteq Nat /\ Shrinks \in BOOLEAN /\ Closes \in BOOLEAN /\ Failures \in BOOLEAN
<1>1. MSS \in Nat \ {0} /\ Bytes \in Nat \ {0} /\ MaxRtx \in Nat \ {0} /\ MaxAcks \in Nat \ {0}
  BY TcpSendAssumption
<1>2. Shrinks \in BOOLEAN /\ Closes \in BOOLEAN /\ Failures \in BOOLEAN
  BY TcpSendAssumption
<1>3. SndBuf \in Nat /\ SndBuf = 2 * MSS
  BY <1>1 DEF SndBuf
<1>4. Windows \subseteq 0 .. SndBuf /\ Chunks \subseteq Nat
  BY TcpSendAssumption
<1> QED
  BY <1>1, <1>2, <1>3, <1>4

\* The fields of a segment.
LEMMA SegParts ==
  ASSUME NEW g \in Segment
  PROVE  /\ g.seq \in Nat /\ g.seq <= Bytes /\ g.len \in Nat /\ g.len <= MSS /\ g.fin \in BOOLEAN
         /\ End(g) \in Nat /\ End(g) = IF g.fin THEN g.seq + g.len + 1 ELSE g.seq + g.len
         /\ (g.len = 0 => g.fin) => g.seq < End(g)
<1>1. g.seq \in Nat /\ g.seq <= Bytes /\ g.len \in Nat /\ g.len <= MSS /\ g.fin \in BOOLEAN
  BY Const DEF Segment
<1> QED
  BY <1>1 DEF End, TCPLEN

\* A segment made of its parts.
LEMMA SegIs ==
  ASSUME NEW s \in Nat, NEW l \in Nat, NEW f \in BOOLEAN, s <= Bytes, l <= MSS
  PROVE  /\ Seg(s, l, f) \in Segment
         /\ Seg(s, l, f).seq = s /\ Seg(s, l, f).len = l /\ Seg(s, l, f).fin = f
BY Const DEF Seg, Segment

\* The fields of a pcb.
LEMMA PcbParts ==
  ASSUME NEW p \in Pcb
  PROVE  /\ p.unsent \in Seq(Segment) /\ p.unacked \in Seq(Segment)
         /\ p.lastack \in Nat /\ p.lastack <= Bytes + 1
         /\ p.snd_nxt \in Nat /\ p.snd_nxt <= Bytes + 1
         /\ p.snd_lbb \in Nat /\ p.snd_lbb <= Bytes + 1
         /\ p.snd_wnd \in Windows /\ p.snd_wnd \in Nat /\ p.snd_wnd <= SndBuf
         /\ p.cwnd \in Nat /\ MSS <= p.cwnd /\ p.cwnd <= SndBuf
         /\ p.rtime \in {-1, 0} /\ p.nrtx \in Nat /\ p.nrtx <= MaxRtx
         /\ p.rto_end \in -1 .. Bytes + 1 /\ p.persist \in BOOLEAN
         /\ p.probe \in Nat /\ p.probe <= MaxRtx /\ p.dupacks \in 0 .. 3
         /\ p.infr \in BOOLEAN /\ p.fin \in BOOLEAN /\ p.open \in BOOLEAN
         /\ p.wire \subseteq Segment
<1>1. /\ p.unsent \in Seq(Segment) /\ p.unacked \in Seq(Segment)
      /\ p.lastack \in 0 .. Bytes + 1 /\ p.snd_nxt \in 0 .. Bytes + 1 /\ p.snd_lbb \in 0 .. Bytes + 1
      /\ p.snd_wnd \in Windows /\ p.cwnd \in MSS .. SndBuf
      /\ p.rtime \in {-1, 0} /\ p.nrtx \in 0 .. MaxRtx
      /\ p.rto_end \in -1 .. Bytes + 1 /\ p.persist \in BOOLEAN
      /\ p.probe \in 0 .. MaxRtx /\ p.dupacks \in 0 .. 3
      /\ p.infr \in BOOLEAN /\ p.fin \in BOOLEAN /\ p.open \in BOOLEAN
      /\ p.wire \subseteq Segment
  BY DEF Pcb
<1>2. p.snd_wnd \in 0 .. SndBuf
  BY <1>1, Const
<1>3. /\ p.lastack \in Nat /\ p.lastack <= Bytes + 1 /\ p.snd_nxt \in Nat /\ p.snd_nxt <= Bytes + 1
      /\ p.snd_lbb \in Nat /\ p.snd_lbb <= Bytes + 1 /\ p.snd_wnd \in Nat /\ p.snd_wnd <= SndBuf
  BY <1>1, <1>2, Const
<1>4. /\ p.cwnd \in Nat /\ MSS <= p.cwnd /\ p.cwnd <= SndBuf /\ p.nrtx \in Nat /\ p.nrtx <= MaxRtx
      /\ p.probe \in Nat /\ p.probe <= MaxRtx
  BY <1>1, Const
<1> QED
  BY <1>1, <1>3, <1>4, Zenon

\* The places of a queue.
LEMMA QueueParts ==
  ASSUME NEW s \in Seq(Segment)
  PROVE  /\ Len(s) \in Nat /\ DOMAIN s = 1 .. Len(s) /\ \A i \in 1 .. Len(s) : s[i] \in Segment
         /\ s # <<>> => Len(s) > 0 /\ 1 \in DOMAIN s /\ Len(s) \in DOMAIN s
         /\ s = <<>> => Len(s) = 0
         /\ Len(s) = 0 => s = <<>>
BY ElementOfSeq, LenProperties, EmptySeq

\* A set of numbers has a least one.
LEMMA LeastOf ==
  ASSUME NEW S \in SUBSET Nat, S # {}
  PROVE  \E x \in S : \A y \in S : x <= y
<1> DEFINE R == {ss \in Nat \X Nat : ss[1] < ss[2]}
<1>1. IsWellFoundedOn(R, Nat)
  BY NatLessThanWellFounded DEF OpToRel
<1> HIDE DEF R
<1>2. PICK x \in S : \A y \in S : ~(<<y, x>> \in R)
  BY <1>1, WFMin
<1>3. \A y \in S : x <= y
  <2> SUFFICES ASSUME NEW y \in S, ~(x <= y) PROVE FALSE
    OBVIOUS
  <2>1. <<y, x>> \in Nat \X Nat /\ <<y, x>>[1] < <<y, x>>[2]
    OBVIOUS
  <2>2. <<y, x>> \in R
    BY <2>1, Zenon DEF R
  <2> QED
    BY <2>2, <1>2
<1> QED
  BY <1>3

\* What holds at 0 and is passed on from each number to the next holds up to any.
LEMMA Inductive ==
  ASSUME NEW m \in Nat, NEW S, 0 \in S, \A n \in 0 .. m - 1 : n \in S => n + 1 \in S
  PROVE  \A n \in 0 .. m : n \in S
<1> DEFINE B == {n \in 0 .. m : n \notin S}
<1> SUFFICES ASSUME B # {} PROVE FALSE
  OBVIOUS
<1>1. B \in SUBSET Nat
  OBVIOUS
<1>2. PICK x \in B : \A y \in B : x <= y
  BY <1>1, LeastOf
<1>3. x # 0 /\ x \in Nat /\ x <= m
  BY <1>2
<1>4. x - 1 \in 0 .. m - 1 /\ x - 1 \notin B
  BY <1>2, <1>3
<1>5. x - 1 \in S
  BY <1>3, <1>4
<1>6. x \in S
  BY <1>3, <1>4, <1>5
<1> QED
  BY <1>2, <1>6

\* Before stops at the first place of the set.
LEMMA BeforeIs ==
  ASSUME NEW s \in Seq(Segment), NEW T \in SUBSET (1 .. Len(s))
  PROVE  /\ Before(s, T) \in Nat /\ Before(s, T) <= Len(s)
         /\ \A i \in T : Before(s, T) < i
         /\ Before(s, T) < Len(s) => Before(s, T) + 1 \in T
<1>1. Len(s) \in Nat
  BY QueueParts
<1> DEFINE B == {Len(s)} \cup {i - 1 : i \in T}
<1>2. B \in SUBSET Nat /\ B # {} /\ Len(s) \in B
  BY <1>1
<1>3. \E x \in B : \A y \in B : x <= y
  BY <1>2, LeastOf
<1>4. Before(s, T) = CHOOSE x \in B : \A y \in B : x <= y
  BY DEF Before, Min
<1>5. Before(s, T) \in B /\ \A y \in B : Before(s, T) <= y
  BY <1>3, <1>4
<1>6. \A i \in T : i \in Nat /\ i - 1 \in B
  BY <1>1
<1>7. PICK n \in Nat : n = Before(s, T)
  BY <1>2, <1>5
<1>8. n <= Len(s) /\ \A i \in T : n < i
  BY <1>1, <1>2, <1>5, <1>6, <1>7
<1>9. n < Len(s) => n + 1 \in T
  BY <1>1, <1>5, <1>7
<1> QED
  BY <1>7, <1>8, <1>9

\* h is behind g, which is not the FIN alone.
After(g, h) == g.len > 0 /\ g.seq + g.len <= h.seq /\ (g.fin => h.fin /\ h.len > 0)

\* The segments of a queue follow each other without gap or overlap.
Chain(q) ==
  /\ \A i, j \in 1 .. Len(q) : i < j => After(q[i], q[j])
  /\ \A i, j \in 1 .. Len(q) : j = i + 1 => q[i].seq + q[i].len = q[j].seq

\* A queue starts at what is acknowledged, except that its first segment may be
\* the acknowledged part of one that was cut at the window.
StartsAt(q, ack, wnd) ==
  /\ q[1].seq <= ack
  /\ \/ ack < End(q[1])
     \/ Len(q) > 1 /\ ack < End(q[2]) /\ q[1].len <= wnd

\* The sequence number behind a segment, for the pcb: the FIN counts only alone.
Behind(g) == IF g.len = 0 THEN g.seq + 1 ELSE g.seq + g.len

\* A queue holds what is not acknowledged, up to what was written.
Exact(q, ack, lbb, wnd) ==
  /\ Chain(q)
  /\ q = <<>> => ack >= lbb
  /\ q # <<>> => StartsAt(q, ack, wnd) /\ Behind(q[Len(q)]) = lbb

-----------------------------------------------------------------------------
\* A queue that moves a segment from its second part to its first stays the same.
LEMMA Moved ==
  ASSUME NEW s \in Seq(Segment), NEW t \in Seq(Segment), t # <<>>
  PROVE  Append(s, t[1]) \o Tail(t) = s \o t
<1>1. Len(t) \in Nat /\ Len(t) > 0 /\ t[1] \in Segment /\ Len(s) \in Nat
  BY QueueParts
<1>2. Tail(t) \in Seq(Segment) /\ Append(s, t[1]) = s \o <<t[1]>>
  BY <1>1, HeadTailProperties, AppendIsConcat
<1>3. <<t[1]>> \in Seq(Segment)
  BY <1>1
<1>4. <<t[1]>> \o Tail(t) = t
  <2>1. t = SubSeq(t, 1, Len(t)) /\ Tail(t) = SubSeq(t, 2, Len(t))
    BY SubSeqFull, TailIsSubSeq
  <2>2. SubSeq(t, 1, Len(t)) = <<t[1]>> \o SubSeq(t, 1 + 1, Len(t))
    BY <1>1, SubSeqRecursiveFirst
  <2> QED
    BY <2>1, <2>2
<1>5. (s \o <<t[1]>>) \o Tail(t) = s \o (<<t[1]>> \o Tail(t))
  BY <1>2, <1>3, ConcatAssociative
<1> QED
  BY <1>2, <1>4, <1>5

\* What is in two parts of a queue.
LEMMA Joined ==
  ASSUME NEW s \in Seq(Segment), NEW t \in Seq(Segment), NEW q, q = s \o t
  PROVE  /\ q \in Seq(Segment) /\ Len(q) = Len(s) + Len(t) /\ Len(s) \in Nat /\ Len(t) \in Nat
         /\ \A i \in 1 .. Len(s) : q[i] = s[i]
         /\ \A i \in 1 .. Len(t) : q[Len(s) + i] = t[i]
         /\ \A i \in 1 .. Len(q) : Len(s) < i => q[i] = t[i - Len(s)] /\ i - Len(s) \in 1 .. Len(t)
         /\ q = <<>> <=> s = <<>> /\ t = <<>>
         /\ s = <<>> => q = t
         /\ t = <<>> => q = s
<1>1. Len(s) \in Nat /\ Len(t) \in Nat
  BY QueueParts
<1>2. /\ q \in Seq(Segment) /\ Len(q) = Len(s) + Len(t)
      /\ \A i \in 1 .. Len(s) + Len(t) : q[i] = IF i <= Len(s) THEN s[i] ELSE t[i - Len(s)]
  BY ConcatProperties
<1>3. \A i \in 1 .. Len(s) : q[i] = s[i]
  BY <1>1, <1>2
<1>4. \A i \in 1 .. Len(t) : q[Len(s) + i] = t[i]
  <2> SUFFICES ASSUME NEW i \in 1 .. Len(t) PROVE q[Len(s) + i] = t[i]
    OBVIOUS
  <2>1. PICK j \in Nat : j = Len(s) + i
    BY <1>1
  <2>2. j \in 1 .. Len(s) + Len(t) /\ ~(j <= Len(s)) /\ j - Len(s) = i
    BY <1>1, <2>1
  <2> QED
    BY <1>2, <2>1, <2>2
<1>5. \A i \in 1 .. Len(q) : Len(s) < i => q[i] = t[i - Len(s)] /\ i - Len(s) \in 1 .. Len(t)
  BY <1>1, <1>2
<1>6. q = <<>> <=> s = <<>> /\ t = <<>>
  BY <1>2, ConcatEqualIffEmpty
<1>7. (s = <<>> => q = t) /\ (t = <<>> => q = s)
  BY ConcatEmptySeq
<1> QED
  BY <1>1, <1>2, <1>3, <1>4, <1>5, <1>6, <1>7

\* The two parts of a chain.
LEMMA ChainParts ==
  ASSUME NEW s \in Seq(Segment), NEW t \in Seq(Segment), Chain(s \o t)
  PROVE  \A i \in 1 .. Len(s), j \in 1 .. Len(t) : After(s[i], t[j])
<1> SUFFICES ASSUME NEW i \in 1 .. Len(s), NEW j \in 1 .. Len(t) PROVE After(s[i], t[j])
  OBVIOUS
<1> DEFINE q == s \o t
<1>1. /\ Len(q) = Len(s) + Len(t) /\ Len(s) \in Nat /\ Len(t) \in Nat
      /\ q[i] = s[i] /\ q[Len(s) + j] = t[j]
  BY Joined
<1>2. Chain(q)
  OBVIOUS
<1> HIDE DEF q
<1>3. PICK n \in Nat : n = Len(s) + j
  BY <1>1
<1>4. i \in 1 .. Len(q) /\ n \in 1 .. Len(q) /\ i < n
  BY <1>1, <1>3
<1>5. After(q[i], q[n])
  BY <1>2, <1>4 DEF Chain
<1> QED
  BY <1>1, <1>3, <1>5

\* Two chains that fit make one.
LEMMA ChainJoin ==
  ASSUME NEW s \in Seq(Segment), NEW t \in Seq(Segment), Chain(s), Chain(t),
         \A i \in 1 .. Len(s), j \in 1 .. Len(t) : After(s[i], t[j]),
         s # <<>> /\ t # <<>> => s[Len(s)].seq + s[Len(s)].len = t[1].seq
  PROVE  Chain(s \o t)
<1> DEFINE q == s \o t
<1>1. /\ Len(q) = Len(s) + Len(t) /\ Len(s) \in Nat /\ Len(t) \in Nat
      /\ \A i \in 1 .. Len(s) : q[i] = s[i]
      /\ \A i \in 1 .. Len(q) : Len(s) < i => q[i] = t[i - Len(s)] /\ i - Len(s) \in 1 .. Len(t)
  BY Joined
<1> HIDE DEF q
<1>2. ASSUME NEW i \in 1 .. Len(q), NEW j \in 1 .. Len(q), i < j
      PROVE  After(q[i], q[j])
  <2>1. CASE j <= Len(s)
    BY <1>1, <1>2, <2>1 DEF Chain
  <2>2. CASE Len(s) < i
    <3>1. PICK m \in 1 .. Len(t), n \in 1 .. Len(t) : m = i - Len(s) /\ n = j - Len(s)
      BY <1>1, <1>2, <2>2
    <3>2. q[i] = t[m] /\ q[j] = t[n] /\ m < n
      BY <1>1, <1>2, <2>2, <3>1
    <3> QED
      BY <3>2 DEF Chain
  <2>3. CASE i <= Len(s) /\ Len(s) < j
    BY <1>1, <2>3
  <2> QED
    BY <1>1, <1>2, <2>1, <2>2, <2>3
<1>3. ASSUME NEW i \in 1 .. Len(q), NEW j \in 1 .. Len(q), j = i + 1
      PROVE  q[i].seq + q[i].len = q[j].seq
  <2>1. CASE j <= Len(s)
    BY <1>1, <1>3, <2>1 DEF Chain
  <2>2. CASE Len(s) < i
    <3>1. PICK m \in 1 .. Len(t), n \in 1 .. Len(t) : m = i - Len(s) /\ n = j - Len(s)
      BY <1>1, <1>3, <2>2
    <3>2. q[i] = t[m] /\ q[j] = t[n] /\ n = m + 1
      BY <1>1, <1>3, <2>2, <3>1
    <3> QED
      BY <3>2 DEF Chain
  <2>3. CASE i <= Len(s) /\ Len(s) < j
    <3>1. i = Len(s) /\ j - Len(s) = 1 /\ Len(t) > 0 /\ Len(s) > 0
      BY <1>1, <1>3, <2>3
    <3>2. q[i] = s[Len(s)] /\ q[j] = t[1] /\ s # <<>> /\ t # <<>>
      BY <1>1, <2>3, <3>1, QueueParts
    <3> QED
      BY <3>2
  <2> QED
    BY <1>1, <1>3, <2>1, <2>2, <2>3
<1>4. Chain(q)
  BY <1>2, <1>3 DEF Chain
<1> QED
  BY <1>4 DEF q

\* One segment is a chain.
LEMMA ChainOne ==
  ASSUME NEW q \in Seq(Segment), Len(q) <= 1
  PROVE  Chain(q)
BY QueueParts DEF Chain

\* The rest of a queue after its first c segments.
LEMMA RestIs ==
  ASSUME NEW q \in Seq(Segment), NEW c \in 0 .. Len(q), NEW r, r = SubSeq(q, c + 1, Len(q))
  PROVE  /\ r \in Seq(Segment) /\ Len(r) = Len(q) - c /\ Len(q) \in Nat
         /\ \A i \in 1 .. Len(r) : r[i] = q[c + i] /\ c + i \in 1 .. Len(q)
<1>1. Len(q) \in Nat /\ \A i \in 1 .. Len(q) : q[i] \in Segment
  BY QueueParts
<1>2. /\ c + 1 \in Int /\ Len(q) \in Int
      /\ \A i \in c + 1 .. Len(q) : q[i] \in Segment
  BY <1>1
<1>3. PICK m \in Int : m = c + 1
  BY <1>2
<1>4. /\ r \in Seq(Segment) /\ Len(r) = IF m <= Len(q) THEN Len(q) - m + 1 ELSE 0
      /\ \A i \in 1 .. Len(q) - m + 1 : r[i] = q[m + i - 1]
  BY <1>2, <1>3, SubSeqProperties
<1>5. Len(r) = Len(q) - c
  BY <1>1, <1>3, <1>4
<1>6. ASSUME NEW i \in 1 .. Len(r)
      PROVE  r[i] = q[c + i] /\ c + i \in 1 .. Len(q)
  <2>1. i \in 1 .. Len(q) - m + 1 /\ m + i - 1 = c + i /\ c + i \in 1 .. Len(q)
    BY <1>1, <1>3, <1>5
  <2> QED
    BY <1>4, <2>1
<1> QED
  BY <1>1, <1>4, <1>5, <1>6

\* It is a chain.
LEMMA ChainRest ==
  ASSUME NEW q \in Seq(Segment), Chain(q), NEW c \in 0 .. Len(q)
  PROVE  Chain(SubSeq(q, c + 1, Len(q)))
<1> DEFINE r == SubSeq(q, c + 1, Len(q))
<1>1. /\ Len(r) = Len(q) - c /\ Len(q) \in Nat
      /\ \A i \in 1 .. Len(r) : r[i] = q[c + i] /\ c + i \in 1 .. Len(q)
  BY RestIs
<1> HIDE DEF r
<1>2. ASSUME NEW i \in 1 .. Len(r), NEW j \in 1 .. Len(r)
      PROVE  /\ i < j => After(r[i], r[j])
             /\ j = i + 1 => r[i].seq + r[i].len = r[j].seq
  <2>1. PICK m \in 1 .. Len(q), n \in 1 .. Len(q) : m = c + i /\ n = c + j
    BY <1>1
  <2>2. r[i] = q[m] /\ r[j] = q[n] /\ (i < j => m < n) /\ (j = i + 1 => n = m + 1)
    BY <1>1, <2>1
  <2> QED
    BY <2>2 DEF Chain
<1>3. Chain(r)
  BY <1>2 DEF Chain
<1> QED
  BY <1>3 DEF r

\* r is q but for its last segment, which becomes h.
LastBecomes(q, h, r) ==
  /\ r \in Seq(Segment) /\ Len(r) = Len(q) /\ r[Len(q)] = h
  /\ \A i \in 1 .. Len(q) : i # Len(q) => r[i] = q[i]

\* Parts of the last step: the last segment keeps its place and grows or gets
\* the FIN.
LEMMA ExactLast ==
  ASSUME NEW q \in Seq(Segment), q # <<>>, NEW ack \in Nat, NEW lbb \in Nat, NEW wnd \in Nat,
         Exact(q, ack, lbb, wnd), NEW h \in Segment, NEW r, LastBecomes(q, h, r),
         h.seq = q[Len(q)].seq, h.len >= q[Len(q)].len, q[Len(q)].fin => h.fin,
         \A i \in 1 .. Len(q) : i # Len(q) => ~q[i].fin
  PROVE  Exact(r, ack, Behind(h), wnd)
<1>1. Len(q) \in Nat /\ Len(q) > 0 /\ \A i \in 1 .. Len(q) : q[i] \in Segment
  BY QueueParts
<1>2. PICK m \in Nat : m = Len(q)
  BY <1>1
<1>3. /\ r \in Seq(Segment) /\ Len(r) = m /\ r[m] = h /\ m > 0 /\ r # <<>>
      /\ \A i \in 1 .. m : i # m => r[i] = q[i]
  BY <1>1, <1>2, QueueParts DEF LastBecomes
<1>4. /\ h.seq = q[m].seq /\ h.len >= q[m].len /\ (q[m].fin => h.fin) /\ q[m] \in Segment
      /\ h.len \in Nat /\ h.seq \in Nat /\ q[m].len \in Nat
  BY <1>1, <1>2, SegParts
<1>5. Chain(r)
  <2>1. ASSUME NEW i \in 1 .. m, NEW j \in 1 .. m
        PROVE  /\ i < j => After(r[i], r[j])
               /\ j = i + 1 => r[i].seq + r[i].len = r[j].seq
    <3>1. i < j => After(q[i], q[j]) /\ i # m /\ ~q[i].fin
      BY <1>2, <1>3 DEF Exact, Chain
    <3>2. j = i + 1 => q[i].seq + q[i].len = q[j].seq
      BY <1>2 DEF Exact, Chain
    <3>3. r[j].seq = q[j].seq
      BY <1>3, <1>4
    <3>4. i < j => r[i] = q[i]
      BY <1>3
    <3>5. i < j => After(r[i], r[j])
      BY <3>1, <3>3, <3>4 DEF After
    <3> QED
      BY <3>2, <3>3, <3>4, <3>5
  <2> QED
    BY <1>3, <2>1 DEF Chain
<1>6. End(q[m]) <= End(h) /\ End(q[m]) \in Nat /\ End(h) \in Nat
  <2>1. /\ End(q[m]) \in Nat /\ q[m].fin \in BOOLEAN
        /\ End(q[m]) = IF q[m].fin THEN q[m].seq + q[m].len + 1 ELSE q[m].seq + q[m].len
    BY <1>4, SegParts
  <2>2. /\ End(h) \in Nat /\ h.fin \in BOOLEAN
        /\ End(h) = IF h.fin THEN h.seq + h.len + 1 ELSE h.seq + h.len
    BY SegParts
  <2> QED
    BY <1>4, <2>1, <2>2
<1>7. StartsAt(r, ack, wnd)
  <2>1. StartsAt(q, ack, wnd)
    BY DEF Exact
  <2>2. CASE m = 1
    <3>1. q[1].seq <= ack /\ ack < End(q[1])
      BY <1>2, <2>1, <2>2 DEF StartsAt
    <3> QED
      BY <1>3, <1>4, <1>6, <2>2, <3>1 DEF StartsAt
  <2>3. CASE m > 1
    <3>1. r[1] = q[1]
      BY <1>3, <2>3
    <3>2. m = 2 => End(q[2]) <= End(r[2]) /\ End(q[2]) \in Nat /\ End(r[2]) \in Nat
      BY <1>3, <1>6
    <3>3. m > 2 => r[2] = q[2]
      BY <1>3
    <3> QED
      BY <1>2, <1>3, <2>1, <2>3, <3>1, <3>2, <3>3 DEF StartsAt
  <2> QED
    BY <1>3, <2>2, <2>3
<1> QED
  BY <1>3, <1>5, <1>7 DEF Exact

\* Segments that begin where the queue ends, on a queue without the FIN.
LEMMA ExactMore ==
  ASSUME NEW q \in Seq(Segment), NEW ack \in Nat, NEW lbb \in Nat, NEW wnd \in Nat,
         Exact(q, ack, lbb, wnd), ack <= lbb, NEW t \in Seq(Segment), Chain(t), t # <<>>,
         \A i \in 1 .. Len(q) : ~q[i].fin /\ q[i].len > 0,
         \A i \in 1 .. Len(t) : lbb <= t[i].seq,
         t[1].seq = lbb, t[1].len = 0 => t[1].fin
  PROVE  Exact(q \o t, ack, Behind(t[Len(t)]), wnd)
<1> DEFINE r == q \o t
<1>1. /\ r \in Seq(Segment) /\ Len(r) = Len(q) + Len(t) /\ Len(q) \in Nat /\ Len(t) \in Nat
      /\ \A i \in 1 .. Len(q) : r[i] = q[i]
      /\ \A i \in 1 .. Len(t) : r[Len(q) + i] = t[i]
      /\ (q = <<>> => r = t) /\ r # <<>>
  BY Joined
<1>2. /\ Len(t) > 0 /\ \A i \in 1 .. Len(q) : q[i] \in Segment
      /\ \A i \in 1 .. Len(t) : t[i] \in Segment
  BY QueueParts
<1>3. q # <<>> => Len(q) > 0 /\ q[Len(q)] \in Segment /\ q[Len(q)].len > 0
                  /\ q[Len(q)].seq + q[Len(q)].len = lbb
  BY <1>2, QueueParts, SegParts DEF Exact, Behind
<1>4. ASSUME NEW i \in 1 .. Len(q), NEW j \in 1 .. Len(t) PROVE After(q[i], t[j])
  <2>1. PICK m \in Nat : m = Len(q)
    BY <1>1
  <2>2. m \in 1 .. m /\ q # <<>> /\ q[i].len > 0 /\ ~q[i].fin
    BY <1>1, <2>1, QueueParts
  <2>3. q[m].seq + q[m].len = lbb /\ q[m].len \in Nat /\ q[m].seq \in Nat
    BY <1>3, <2>1, <2>2, SegParts
  <2>4. q[i].seq + q[i].len <= lbb
    <3>1. CASE i = m
      BY <2>3, <3>1
    <3>2. CASE i < m
      <4>1. q[i].seq + q[i].len <= q[m].seq
        BY <2>1, <2>2, <3>2 DEF Exact, Chain, After
      <4>2. q[i].seq \in Nat /\ q[i].len \in Nat
        BY <1>2, SegParts
      <4>3. PICK a \in Nat, b \in Nat, c \in Nat, d \in Nat :
              a = q[i].seq /\ b = q[i].len /\ c = q[m].seq /\ d = q[m].len
        BY <2>3, <4>2
      <4>4. a + b <= c /\ c + d = lbb
        BY <2>3, <4>1, <4>3
      <4>5. a + b <= lbb
        BY <4>4
      <4> QED
        BY <4>3, <4>5, Zenon
    <3> QED
      BY <1>1, <2>1, <3>1, <3>2
  <2>5. lbb <= t[j].seq /\ t[j].seq \in Nat /\ q[i].seq \in Nat /\ q[i].len \in Nat
    BY <1>2, SegParts
  <2> QED
    BY <2>2, <2>4, <2>5 DEF After
<1>5. Chain(r)
  BY <1>3, <1>4, ChainJoin DEF Exact
<1>6. StartsAt(r, ack, wnd)
  <2>1. CASE q = <<>>
    <3>1. ack = lbb
      BY <2>1 DEF Exact
    <3>2. t[1] \in Segment
      BY <1>1, <1>2
    <3>3. ack < End(t[1])
      BY <3>1, <3>2, SegParts
    <3> QED
      BY <1>1, <2>1, <3>1, <3>3 DEF StartsAt
  <2>2. CASE q # <<>>
    <3>1. StartsAt(q, ack, wnd) /\ r[1] = q[1] /\ (Len(q) > 1 => Len(r) > 1 /\ r[2] = q[2])
      BY <1>1, <1>2, <1>3, <2>2 DEF Exact
    <3> QED
      BY <3>1 DEF StartsAt
  <2> QED
    BY <2>1, <2>2
<1>7. r[Len(r)] = t[Len(t)]
  BY <1>1, <1>2
<1>8. Exact(r, ack, Behind(t[Len(t)]), wnd)
  BY <1>1, <1>5, <1>6, <1>7 DEF Exact
<1> QED
  BY <1>8 DEF r

\* An ACK takes the first c segments away.
LEMMA ExactFree ==
  ASSUME NEW q \in Seq(Segment), NEW ack \in Nat, NEW lbb \in Nat, NEW wnd \in Nat,
         Exact(q, ack, lbb, wnd), NEW a \in Nat, ack <= a, NEW c \in 0 .. Len(q), NEW w \in Nat,
         c > 0 => End(q[c]) <= a, c < Len(q) => a < End(q[c + 1]),
         \A i \in 1 .. Len(q) : q[i].len = 0 => q[i].fin
  PROVE  Exact(SubSeq(q, c + 1, Len(q)), a, lbb, w)
<1> DEFINE r == SubSeq(q, c + 1, Len(q))
<1>1. /\ r \in Seq(Segment) /\ Len(r) = Len(q) - c /\ Len(q) \in Nat
      /\ \A i \in 1 .. Len(r) : r[i] = q[c + i] /\ c + i \in 1 .. Len(q)
  BY RestIs
<1>2. Chain(r)
  BY ChainRest DEF Exact
<1>3. \A i \in 1 .. Len(q) : q[i] \in Segment
  BY QueueParts
<1>4. r # <<>> => Len(r) > 0
  BY <1>1, QueueParts
<1> HIDE DEF r
<1>5. c > 0 => q[c] \in Segment /\ c \in 1 .. Len(q) /\ q[c].seq + q[c].len <= a
  <2> SUFFICES ASSUME c > 0 PROVE q[c] \in Segment /\ c \in 1 .. Len(q) /\ q[c].seq + q[c].len <= a
    OBVIOUS
  <2>1. c \in 1 .. Len(q) /\ q[c] \in Segment
    BY <1>1, <1>3
  <2>2. /\ q[c].seq \in Nat /\ q[c].len \in Nat /\ q[c].fin \in BOOLEAN
        /\ End(q[c]) = IF q[c].fin THEN q[c].seq + q[c].len + 1 ELSE q[c].seq + q[c].len
    BY <2>1, SegParts
  <2>3. End(q[c]) <= a
    OBVIOUS
  <2> QED
    BY <2>1, <2>2, <2>3
<1>6. ASSUME r = <<>> PROVE Exact(r, a, lbb, w)
  <2>1. c = Len(q)
    BY <1>1, <1>6, QueueParts
  <2>2. CASE c = 0
    <3>1. q = <<>>
      BY <2>1, <2>2, QueueParts
    <3> QED
      BY <1>2, <1>6, <3>1 DEF Exact
  <2>3. CASE c > 0
    <3>1. q # <<>> /\ Behind(q[c]) = lbb
      BY <1>1, <2>1, <2>3, QueueParts DEF Exact
    <3>2. Behind(q[c]) <= End(q[c]) /\ End(q[c]) \in Nat
      BY <1>5, <2>3, SegParts DEF Behind
    <3> QED
      BY <1>2, <1>6, <2>3, <3>1, <3>2 DEF Exact
  <2> QED
    BY <2>2, <2>3
<1>7. ASSUME r # <<>> PROVE Exact(r, a, lbb, w)
  <2>1. PICK n \in 1 .. Len(q) : n = c + 1
    BY <1>1, <1>4, <1>7
  <2>2. r[1] = q[n] /\ a < End(q[n]) /\ q # <<>>
    BY <1>1, <1>4, <1>7, <2>1, QueueParts
  <2>3. q[n].seq <= a
    <3>1. CASE c = 0
      <4>1. q[1].seq <= ack /\ n = 1 /\ q[1].seq \in Nat
        BY <1>3, <2>1, <2>2, <3>1, SegParts DEF Exact, StartsAt
      <4> QED
        BY <4>1
    <3>2. CASE c > 0
      <4>1. q[c].seq + q[c].len = q[n].seq
        BY <1>5, <2>1, <3>2 DEF Exact, Chain
      <4> QED
        BY <1>5, <3>2, <4>1
    <3> QED
      BY <3>1, <3>2
  <2>4. r[Len(r)] = q[Len(q)]
    <3>1. Len(r) \in 1 .. Len(r) /\ c + Len(r) = Len(q)
      BY <1>1, <1>4, <1>7
    <3> QED
      BY <1>1, <3>1
  <2> QED
    BY <1>2, <1>7, <2>2, <2>3, <2>4 DEF Exact, StartsAt
<1>8. Exact(r, a, lbb, w)
  BY <1>6, <1>7
<1> QED
  BY <1>8 DEF r

\* A window that opens.
LEMMA ExactOpens ==
  ASSUME NEW q \in Seq(Segment), NEW ack \in Nat, NEW lbb \in Nat, NEW wnd \in Nat,
         Exact(q, ack, lbb, wnd), NEW w \in Nat, wnd <= w
  PROVE  Exact(q, ack, lbb, w)
<1>1. q # <<>> => q[1].len \in Nat
  BY QueueParts, SegParts
<1> QED
  BY <1>1 DEF Exact, StartsAt

\* The first segment is cut at the window.
LEMMA ExactSplit ==
  ASSUME NEW q \in Seq(Segment), q # <<>>, NEW ack \in Nat, NEW lbb \in Nat, NEW wnd \in Nat,
         Exact(q, ack, lbb, wnd), wnd > 0, NEW g \in Segment, g = q[1], wnd < g.len,
         NEW h \in Segment, h.seq = g.seq, h.len = wnd, h.fin = g.fin,
         NEW x \in Segment, x.seq = g.seq + wnd, x.len = g.len - wnd, x.fin = g.fin,
         NEW r \in Seq(Segment), Len(r) = Len(q) + 1, r[1] = h, r[2] = x,
         \A i \in 3 .. Len(r) : r[i] = q[i - 1]
  PROVE  Exact(r, ack, lbb, wnd)
<1>1. /\ Len(q) \in Nat /\ Len(q) > 0 /\ r # <<>>
      /\ \A i \in 1 .. Len(q) : q[i] \in Segment
  BY QueueParts
<1>2. /\ g.seq \in Nat /\ g.len \in Nat /\ g.fin \in BOOLEAN
      /\ End(g) = End(x) /\ End(g) \in Nat
  <2>1. /\ g.seq \in Nat /\ g.len \in Nat /\ g.fin \in BOOLEAN /\ End(g) \in Nat
        /\ End(g) = IF g.fin THEN g.seq + g.len + 1 ELSE g.seq + g.len
    BY SegParts
  <2>2. End(x) = IF x.fin THEN x.seq + x.len + 1 ELSE x.seq + x.len
    BY SegParts
  <2>3. PICK a \in Nat, b \in Nat : a = g.seq /\ b = g.len
    BY <2>1
  <2>4. x.seq = a + wnd /\ x.len = b - wnd
    BY <2>3
  <2>5. x.seq + x.len = a + b /\ x.seq + x.len + 1 = a + b + 1
    BY <2>4
  <2> QED
    BY <2>1, <2>2, <2>3, <2>5
<1>3. After(h, x) /\ h.seq + h.len = x.seq /\ x.seq + x.len = g.seq + g.len
  <2>3. PICK a \in Nat, b \in Nat : a = g.seq /\ b = g.len
    BY <1>2
  <2>4. x.seq = a + wnd /\ x.len = b - wnd /\ h.seq = a /\ h.len = wnd /\ wnd < b
    BY <2>3
  <2>1. h.seq + h.len = x.seq /\ x.seq + x.len = g.seq + g.len /\ h.len > 0 /\ x.len > 0
    <3>1. a + wnd = a + wnd /\ (a + wnd) + (b - wnd) = a + b /\ wnd > 0 /\ b - wnd > 0
      BY <2>4
    <3> QED
      BY <2>3, <2>4, <3>1, Zenon
  <2> QED
    BY <1>2, <2>1 DEF After
<1>4. ASSUME NEW j \in 2 .. Len(q)
      PROVE  After(h, q[j]) /\ After(x, q[j])
  <2>1. 1 \in 1 .. Len(q) /\ j \in 1 .. Len(q) /\ 1 < j
    BY <1>1
  <2>2. After(g, q[j])
    BY <2>1 DEF Exact, Chain
  <2>3. q[j].seq \in Nat
    BY <1>1, <2>1, SegParts
  <2>5. PICK a \in Nat, b \in Nat, c \in Nat : a = g.seq /\ b = g.len /\ c = q[j].seq
    BY <1>2, <2>3
  <2>6. x.seq = a + wnd /\ x.len = b - wnd /\ h.seq = a /\ h.len = wnd /\ wnd < b /\ a + b <= c
    BY <2>2, <2>5 DEF After
  <2>4. h.len > 0 /\ h.seq + h.len <= q[j].seq /\ x.len > 0 /\ x.seq + x.len <= q[j].seq
    <3>1. wnd > 0 /\ a + wnd <= c /\ b - wnd > 0 /\ (a + wnd) + (b - wnd) <= c
      BY <2>6
    <3> QED
      BY <2>5, <2>6, <3>1, Zenon
  <2> QED
    BY <1>2, <2>2, <2>4 DEF After
<1>5. ASSUME NEW i \in 1 .. Len(r), NEW j \in 1 .. Len(r), i < j
      PROVE  After(r[i], r[j])
  <2>1. CASE j = 2
    BY <1>3, <1>5, <2>1
  <2>2. CASE j > 2
    <3>1. PICK n \in 2 .. Len(q) : n = j - 1
      BY <1>1, <2>2
    <3>2. r[j] = q[n]
      BY <2>2, <3>1
    <3>3. CASE i <= 2
      BY <1>4, <3>2, <3>3
    <3>4. CASE i > 2
      <4>1. PICK m \in 2 .. Len(q) : m = i - 1
        BY <1>1, <3>4
      <4>2. r[i] = q[m] /\ m < n /\ m \in 1 .. Len(q) /\ n \in 1 .. Len(q)
        BY <1>5, <3>1, <3>4, <4>1
      <4> QED
        BY <3>2, <4>2 DEF Exact, Chain
    <3> QED
      BY <3>3, <3>4
  <2> QED
    BY <1>5, <2>1, <2>2
<1>6. ASSUME NEW i \in 1 .. Len(r), NEW j \in 1 .. Len(r), j = i + 1
      PROVE  r[i].seq + r[i].len = r[j].seq
  <2>1. CASE i = 1
    BY <1>3, <1>6, <2>1
  <2>2. CASE i = 2
    <3>1. r[j] = q[2] /\ 2 \in 1 .. Len(q) /\ 1 \in 1 .. Len(q)
      BY <1>1, <1>6, <2>2
    <3>2. q[1].seq + q[1].len = q[2].seq
      BY <3>1 DEF Exact, Chain
    <3> QED
      BY <1>3, <2>2, <3>1, <3>2
  <2>3. CASE i > 2
    <3>1. PICK m \in 1 .. Len(q), n \in 1 .. Len(q) : m = i - 1 /\ n = i
      BY <1>1, <1>6, <2>3
    <3>2. r[i] = q[m] /\ r[j] = q[n] /\ n = m + 1
      BY <1>6, <2>3, <3>1
    <3> QED
      BY <3>2 DEF Exact, Chain
  <2> QED
    BY <2>1, <2>2, <2>3
<1>7. StartsAt(r, ack, wnd)
  <2>1. g.seq <= ack /\ ack < End(g)
    BY <1>2 DEF Exact, StartsAt
  <2> QED
    BY <1>1, <1>2, <2>1 DEF StartsAt
<1>8. Behind(r[Len(r)]) = lbb
  <2>1. Behind(q[Len(q)]) = lbb
    BY DEF Exact
  <2>2. CASE Len(q) = 1
    BY <1>2, <1>3, <2>1, <2>2 DEF Behind
  <2>3. CASE Len(q) > 1
    <3>1. PICK n \in 3 .. Len(r) : n = Len(r) /\ n - 1 = Len(q)
      BY <1>1, <2>3
    <3> QED
      BY <2>1, <3>1
  <2>4. \A n \in Nat : n > 0 => n = 1 \/ n > 1
    OBVIOUS
  <2>5. Len(q) = 1 \/ Len(q) > 1
    BY <1>1, <2>4, Zenon
  <2> QED
    BY <2>2, <2>3, <2>5, Zenon
<1>9. Chain(r)
  BY <1>5, <1>6 DEF Chain
<1> QED
  BY <1>1, <1>7, <1>8, <1>9 DEF Exact

\* t has no segments but g and those of s.
OnlyAdds(t, s, g) == \A i \in 1 .. Len(t) : t[i] = g \/ \E j \in 1 .. Len(s) : t[i] = s[j]

\* t is s with g before it.
Prepends(t, s, g) == /\ t \in Seq(Segment) /\ Len(t) = Len(s) + 1 /\ t[1] = g
                     /\ \A i \in 1 .. Len(s) : t[i + 1] = s[i]

\* A segment joins a queue, which keeps its other segments; the smallest one goes
\* before them.
LEMMA InsertIs ==
  ASSUME NEW s \in Seq(Segment), NEW g \in Segment, NEW t, t = Insert(s, g)
  PROVE  /\ t \in Seq(Segment) /\ Len(t) = Len(s) + 1
         /\ OnlyAdds(t, s, g)
         /\ (s # <<>> => g.seq <= s[1].seq) => Prepends(t, s, g)
<1>1. Len(s) \in Nat /\ DOMAIN s = 1 .. Len(s) /\ \A i \in 1 .. Len(s) : s[i] \in Segment
  BY QueueParts
<1> DEFINE T == {i \in DOMAIN s : s[i].seq >= g.seq}
<1>2. T \in SUBSET (1 .. Len(s))
  BY <1>1
<1> HIDE DEF T
<1>3. PICK c \in 0 .. Len(s) : c = Before(s, T) /\ \A i \in T : c < i
  <2>1. PICK c \in Nat : c = Before(s, T)
    BY <1>2, BeforeIs
  <2>2. c <= Len(s) /\ \A i \in T : c < i
    BY <1>2, <2>1, BeforeIs
  <2> QED
    BY <1>1, <2>1, <2>2
<1>a. PICK a : a = SubSeq(s, 1, c)
  OBVIOUS
<1>b. PICK b : b = SubSeq(s, c + 1, Len(s))
  OBVIOUS
<1>o. PICK o : o = <<g>>
  OBVIOUS
<1>4. Insert(s, g) = a \o o \o b
  <2>1. Insert(s, g) = SubSeq(s, 1, (c + 1) - 1) \o <<g>> \o SubSeq(s, c + 1, Len(s))
    BY <1>3 DEF Insert, InsertAt, T
  <2>2. (c + 1) - 1 = c
    OBVIOUS
  <2> QED
    BY <1>a, <1>b, <1>o, <2>1, <2>2
<1>5. /\ a \in Seq(Segment) /\ Len(a) = c /\ \A i \in 1 .. c : a[i] = s[i]
  <2>1. \A i \in 1 .. c : s[i] \in Segment
    BY <1>1
  <2> QED
    BY <1>1, <1>a, <2>1, SubSeqProperties
<1>6. /\ b \in Seq(Segment) /\ Len(b) = Len(s) - c
      /\ \A i \in 1 .. Len(b) : b[i] = s[c + i] /\ c + i \in 1 .. Len(s)
  BY <1>b, RestIs
<1>7. o \in Seq(Segment) /\ Len(o) = 1 /\ o[1] = g
  BY <1>o
<1>8. (s # <<>> => g.seq <= s[1].seq) => c = 0
  <2> SUFFICES ASSUME s # <<>> => g.seq <= s[1].seq, c > 0 PROVE FALSE
    BY <1>1
  <2>1. 1 \in DOMAIN s /\ s # <<>> /\ s[1].seq \in Nat /\ g.seq \in Nat
    BY <1>1, QueueParts, SegParts
  <2>2. 1 \in T
    BY <2>1 DEF T
  <2>3. c < 1
    BY <1>3, <2>2
  <2> QED
    BY <2>3
<1>j. PICK ao : ao = a \o o
  OBVIOUS
<1>q. PICK q : q = ao \o b
  OBVIOUS
<1>9. /\ ao \in Seq(Segment) /\ Len(ao) = c + 1 /\ \A i \in 1 .. c : ao[i] = s[i]
      /\ ao[c + 1] = g
  <2>1. /\ ao \in Seq(Segment) /\ Len(ao) = Len(a) + Len(o)
        /\ \A i \in 1 .. Len(a) : ao[i] = a[i]
        /\ \A i \in 1 .. Len(o) : ao[Len(a) + i] = o[i]
    <3>1. a \in Seq(Segment) /\ o \in Seq(Segment)
      BY <1>5, <1>7
    <3> QED
      BY <1>j, <3>1, Joined
  <2> QED
    BY <1>5, <1>7, <2>1
<1>10. /\ q \in Seq(Segment) /\ Len(q) = Len(ao) + Len(b)
       /\ \A i \in 1 .. Len(ao) : q[i] = ao[i]
       /\ \A i \in 1 .. Len(q) : Len(ao) < i => q[i] = b[i - Len(ao)] /\ i - Len(ao) \in 1 .. Len(b)
  <2>1. ao \in Seq(Segment) /\ b \in Seq(Segment)
    BY <1>6, <1>9
  <2> QED
    BY <1>q, <2>1, Joined
<1>11. Len(q) = Len(s) + 1
  BY <1>1, <1>6, <1>9, <1>10
<1>12. ASSUME NEW i \in 1 .. Len(s) + 1
       PROVE  /\ q[i] = g \/ \E j \in 1 .. Len(s) : q[i] = s[j]
              /\ c = 0 /\ i > 1 => q[i] = s[i - 1]
              /\ c = 0 /\ i = 1 => q[i] = g
  <2>1. CASE i <= c
    BY <1>1, <1>9, <1>10, <2>1
  <2>2. CASE i = c + 1
    BY <1>9, <1>10, <2>2
  <2>3. CASE i > c + 1
    <3>1. PICK n \in 1 .. Len(b) : n = i - (c + 1) /\ q[i] = b[n]
      BY <1>9, <1>10, <1>11, <2>3
    <3>2. b[n] = s[c + n] /\ c + n \in 1 .. Len(s) /\ c + n = i - 1
      BY <1>6, <3>1
    <3> QED
      BY <3>1, <3>2
  <2> QED
    BY <2>1, <2>2, <2>3
<1>13. ASSUME c = 0, NEW i \in 1 .. Len(s) PROVE q[i + 1] = s[i]
  <2>1. PICK n \in 1 .. Len(s) + 1 : n = i + 1
    BY <1>1
  <2>2. n > 1 /\ n - 1 = i
    BY <2>1
  <2> QED
    BY <1>12, <1>13, <2>1, <2>2
<1>14. 1 \in 1 .. Len(s) + 1
  BY <1>1
<1>15. t = q
  BY <1>4, <1>j, <1>q
<1>16. OnlyAdds(t, s, g)
  BY <1>11, <1>12, <1>15 DEF OnlyAdds
<1>17. ASSUME c = 0 PROVE Prepends(t, s, g)
  <2>1. t[1] = g
    BY <1>12, <1>14, <1>15, <1>17
  <2>2. \A i \in 1 .. Len(s) : t[i + 1] = s[i]
    BY <1>13, <1>15, <1>17
  <2> QED
    BY <1>10, <1>11, <1>15, <2>1, <2>2 DEF Prepends
<1> QED
  BY <1>8, <1>10, <1>11, <1>15, <1>16, <1>17

\* Queues of placed segments.
LEMMA PlacedTail ==
  ASSUME NEW p, NEW s \in Seq(Segment), s # <<>>, QueuePlaced(s, p)
  PROVE  QueuePlaced(Tail(s), p) /\ Placed(s[1], p) /\ Tail(s) \in Seq(Segment)
<1>1. Len(s) \in Nat /\ Len(s) > 0 /\ Tail(s) \in Seq(Segment)
  BY QueueParts, HeadTailProperties
<1>2. Len(Tail(s)) = Len(s) - 1 /\ \A i \in 1 .. Len(s) - 1 : Tail(s)[i] = s[i + 1]
  BY <1>1
<1>3. ASSUME NEW i \in 1 .. Len(Tail(s)) PROVE Placed(Tail(s)[i], p)
  <2>1. PICK j \in 1 .. Len(s) : j = i + 1
    BY <1>1, <1>2
  <2>2. Tail(s)[i] = s[j]
    BY <1>2, <2>1
  <2> QED
    BY <2>2 DEF QueuePlaced
<1> QED
  BY <1>1, <1>3 DEF QueuePlaced

\* A segment is appended to a queue.
LEMMA PlacedAppend ==
  ASSUME NEW p, NEW s \in Seq(Segment), QueuePlaced(s, p), NEW g \in Segment, Placed(g, p)
  PROVE  QueuePlaced(Append(s, g), p)
<1>1. Len(s) \in Nat
  BY QueueParts
<1>2. Len(Append(s, g)) = Len(s) + 1
      /\ \A i \in 1 .. Len(s) + 1 : Append(s, g)[i] = IF i <= Len(s) THEN s[i] ELSE g
  BY <1>1
<1>3. ASSUME NEW i \in 1 .. Len(s) + 1 PROVE Placed(Append(s, g)[i], p)
  BY <1>1, <1>2 DEF QueuePlaced
<1> QED
  BY <1>2, <1>3 DEF QueuePlaced

\* A segment is inserted into a queue.
LEMMA PlacedInsert ==
  ASSUME NEW p, NEW s \in Seq(Segment), QueuePlaced(s, p), NEW g \in Segment, Placed(g, p)
  PROVE  QueuePlaced(Insert(s, g), p)
<1>1. OnlyAdds(Insert(s, g), s, g)
  BY InsertIs
<1> QED
  BY <1>1 DEF OnlyAdds, QueuePlaced

\* Two queues are joined.
LEMMA PlacedJoin ==
  ASSUME NEW p, NEW s \in Seq(Segment), NEW t \in Seq(Segment), QueuePlaced(s, p), QueuePlaced(t, p)
  PROVE  QueuePlaced(s \o t, p)
<1> DEFINE q == s \o t
<1>1. /\ \A i \in 1 .. Len(s) : q[i] = s[i]
      /\ \A i \in 1 .. Len(q) : Len(s) < i => q[i] = t[i - Len(s)] /\ i - Len(s) \in 1 .. Len(t)
      /\ Len(s) \in Nat /\ Len(q) \in Nat
  BY Joined, QueueParts
<1> HIDE DEF q
<1>2. ASSUME NEW i \in 1 .. Len(q) PROVE Placed(q[i], p)
  <2>1. CASE i <= Len(s)
    BY <1>1, <2>1 DEF QueuePlaced
  <2>2. CASE Len(s) < i
    BY <1>1, <2>2 DEF QueuePlaced
  <2> QED
    BY <1>1, <2>1, <2>2
<1>3. QueuePlaced(q, p)
  BY <1>2 DEF QueuePlaced
<1> QED
  BY <1>3 DEF q

\* What an ACK leaves of a queue.
LEMMA PlacedRest ==
  ASSUME NEW p, NEW s \in Seq(Segment), NEW c \in 0 .. Len(s), QueuePlaced(s, p)
  PROVE  QueuePlaced(SubSeq(s, c + 1, Len(s)), p)
<1> DEFINE r == SubSeq(s, c + 1, Len(s))
<1>1. \A i \in 1 .. Len(r) : r[i] = s[c + i] /\ c + i \in 1 .. Len(s)
  BY RestIs
<1> HIDE DEF r
<1>2. QueuePlaced(r, p)
  BY <1>1 DEF QueuePlaced
<1> QED
  BY <1>2 DEF r

\* The pcb after a segment has gone out.
LEMMA SendOneIs ==
  ASSUME NEW p \in Pcb, p.unsent # <<>>, NEW g, g = p.unsent[1], NEW q, q = SendOne(p)
  PROVE  /\ g \in Segment
         /\ q.unsent = Tail(p.unsent)
         /\ q.unacked = IF p.unacked = <<>> \/ p.unacked[Len(p.unacked)].seq <= g.seq
                        THEN Append(p.unacked, g) ELSE Insert(p.unacked, g)
         /\ q.snd_nxt = IF p.snd_nxt < End(g) THEN End(g) ELSE p.snd_nxt
         /\ q.rtime = 0 /\ q.wire = p.wire \cup {g}
         /\ q.lastack = p.lastack /\ q.snd_lbb = p.snd_lbb /\ q.snd_wnd = p.snd_wnd
         /\ q.cwnd = p.cwnd /\ q.nrtx = p.nrtx /\ q.rto_end = p.rto_end
         /\ q.persist = p.persist /\ q.probe = p.probe /\ q.dupacks = p.dupacks
         /\ q.infr = p.infr /\ q.fin = p.fin /\ q.open = p.open
         /\ q.unsent \in Seq(Segment) /\ q.unacked \in Seq(Segment)
         /\ (End(g) <= Bytes + 1) => q \in Pcb
<1>1. g \in Segment
  BY PcbParts, QueueParts
<1>2. p.unsent \in Seq(Segment) /\ p.unacked \in Seq(Segment)
  BY PcbParts
<1> DEFINE u == IF p.unacked = <<>> \/ p.unacked[Len(p.unacked)].seq <= g.seq
                THEN Append(p.unacked, g) ELSE Insert(p.unacked, g)
           n == IF p.snd_nxt < End(g) THEN End(g) ELSE p.snd_nxt
           v == Tail(p.unsent)
           w == p.wire \cup {g}
<1>3. u \in Seq(Segment) /\ v \in Seq(Segment)
  BY <1>1, <1>2, AppendProperties, InsertIs, HeadTailProperties
<1>4. w \in SUBSET Segment
  BY <1>1, PcbParts
<1>5. End(g) <= Bytes + 1 => n \in 0 .. Bytes + 1
  BY <1>1, SegParts, PcbParts, Const
<1>6. q = [p EXCEPT !.unsent = v, !.unacked = u, !.snd_nxt = n, !.rtime = 0, !.wire = w]
  BY DEF SendOne
<1> HIDE DEF u, n, v, w
<1>7. /\ q.unsent = v /\ q.unacked = u /\ q.snd_nxt = n /\ q.rtime = 0 /\ q.wire = w
      /\ q.lastack = p.lastack /\ q.snd_lbb = p.snd_lbb /\ q.snd_wnd = p.snd_wnd
      /\ q.cwnd = p.cwnd /\ q.nrtx = p.nrtx /\ q.rto_end = p.rto_end
      /\ q.persist = p.persist /\ q.probe = p.probe /\ q.dupacks = p.dupacks
      /\ q.infr = p.infr /\ q.fin = p.fin /\ q.open = p.open
  BY <1>6 DEF Pcb
<1>8. n \in 0 .. Bytes + 1 => q \in Pcb
  BY <1>3, <1>4, <1>6 DEF Pcb
<1> QED
  BY <1>1, <1>3, <1>5, <1>7, <1>8 DEF u, n, v, w

\* Sending keeps every segment and the numbers in place.
LEMMA SendOneBounded ==
  ASSUME NEW r, NEW p, Bounded(p, r), ~p.persist, p.unsent # <<>>
  PROVE  Bounded(SendOne(p), r) /\ ~SendOne(p).persist
<1> DEFINE g == p.unsent[1]
           q == SendOne(p)
<1>0. p \in Pcb
  BY DEF Bounded
<1>1. /\ g \in Segment /\ p.unsent \in Seq(Segment) /\ p.unacked \in Seq(Segment)
      /\ Len(p.unsent) \in Nat /\ Len(p.unacked) \in Nat
      /\ DOMAIN p.unsent = 1 .. Len(p.unsent) /\ DOMAIN p.unacked = 1 .. Len(p.unacked)
      /\ Len(p.unsent) > 0
  BY <1>0, PcbParts, QueueParts
<1>2. Placed(g, p)
  BY <1>1 DEF Bounded, AllPlaced, QueuePlaced
<1>3. End(g) <= Bytes + 1 /\ (~p.fin => End(g) <= p.snd_lbb) /\ End(g) \in Nat
  <2>1. /\ g.seq \in Nat /\ g.len \in Nat /\ g.fin \in BOOLEAN /\ End(g) \in Nat
        /\ End(g) = IF g.fin THEN g.seq + g.len + 1 ELSE g.seq + g.len
    BY <1>1, SegParts
  <2>2. /\ g.seq + g.len <= Bytes /\ g.seq + g.len <= p.snd_lbb /\ (g.fin => p.fin)
    BY <1>2 DEF Placed
  <2> QED
    BY <2>1, <2>2, Const
<1> HIDE DEF q
<1>4. /\ q \in Pcb
      /\ q.unsent = Tail(p.unsent)
      /\ q.unacked = IF p.unacked = <<>> \/ p.unacked[Len(p.unacked)].seq <= g.seq
                     THEN Append(p.unacked, g) ELSE Insert(p.unacked, g)
      /\ q.snd_nxt = IF p.snd_nxt < End(g) THEN End(g) ELSE p.snd_nxt
      /\ q.rtime = 0 /\ q.wire = p.wire \cup {g}
      /\ q.lastack = p.lastack /\ q.snd_lbb = p.snd_lbb /\ q.persist = p.persist /\ q.fin = p.fin
  BY <1>0, <1>3, SendOneIs DEF q
<1> HIDE DEF g
<1>5. p.snd_nxt \in Nat /\ p.lastack \in Nat /\ p.snd_lbb \in Nat /\ p.fin \in BOOLEAN
      /\ p.wire \subseteq Segment
  BY <1>0, PcbParts
<1>6. Numbers(q, r)
  BY <1>3, <1>4, <1>5 DEF Bounded, Numbers
<1>7. Timed(q)
  BY <1>4 DEF Timed
<1>8. ASSUME NEW h PROVE Placed(h, q) <=> Placed(h, p)
  BY <1>4 DEF Placed
<1>9. AllPlaced(q)
  <2>1. QueuePlaced(p.unsent, p) /\ QueuePlaced(p.unacked, p)
    BY DEF Bounded, AllPlaced
  <2>2. QueuePlaced(q.unsent, p)
    BY <1>1, <1>4, <2>1, PlacedTail
  <2>3. QueuePlaced(q.unacked, p)
    <3>1. CASE q.unacked = Append(p.unacked, g)
      BY <1>1, <1>2, <2>1, <3>1, PlacedAppend
    <3>2. CASE q.unacked = Insert(p.unacked, g)
      BY <1>1, <1>2, <2>1, <3>2, PlacedInsert
    <3> QED
      BY <1>4, <3>1, <3>2
  <2>4. ASSUME NEW h \in q.wire PROVE Placed(h, p) /\ End(h) <= q.snd_nxt
    <3>1. CASE h = g
      BY <1>2, <1>3, <1>4, <1>5, <3>1
    <3>2. CASE h \in p.wire
      <4>1. Placed(h, p) /\ End(h) <= p.snd_nxt /\ End(h) \in Nat
        BY <1>5, <3>2, SegParts DEF Bounded, AllPlaced
      <4> QED
        BY <1>3, <1>4, <1>5, <4>1
    <3> QED
      BY <1>4, <3>1, <3>2
  <2> QED
    BY <1>8, <2>2, <2>3, <2>4 DEF AllPlaced, QueuePlaced
<1>10. Bounded(q, r) /\ ~q.persist
  BY <1>4, <1>6, <1>7, <1>9 DEF Bounded
<1> QED
  BY <1>10 DEF q

\* Steps that send nothing: the segments stay placed, the numbers in order.
LEMMA BoundedFrom ==
  ASSUME NEW r, NEW p, Bounded(p, r), NEW q \in Pcb,
         q.snd_lbb = p.snd_lbb, q.fin = p.fin, q.snd_nxt = p.snd_nxt, q.wire = p.wire,
         q.lastack <= r, Timed(q), QueuePlaced(q.unsent, p), QueuePlaced(q.unacked, p)
  PROVE  Bounded(q, r)
<1>1. ASSUME NEW g PROVE Placed(g, q) <=> Placed(g, p)
  BY DEF Placed
<1>2. AllPlaced(q)
  BY <1>1 DEF Bounded, AllPlaced, QueuePlaced
<1>3. Numbers(q, r)
  BY DEF Bounded, Numbers
<1> QED
  BY <1>2, <1>3 DEF Bounded

\* What Bounded says of the queues.
LEMMA BoundedQueues ==
  ASSUME NEW r, NEW p, Bounded(p, r)
  PROVE  /\ p \in Pcb /\ QueuePlaced(p.unsent, p) /\ QueuePlaced(p.unacked, p)
         /\ p.unsent \in Seq(Segment) /\ p.unacked \in Seq(Segment)
         /\ Timed(p) /\ Numbers(p, r) /\ r \in Nat /\ p.lastack <= r
BY PcbParts DEF Bounded, AllPlaced, Numbers

\* Steps that only change counters and timers.
LEMMA BoundedSame ==
  ASSUME NEW r, NEW p, Bounded(p, r), NEW q \in Pcb,
         q.snd_lbb = p.snd_lbb, q.fin = p.fin, q.snd_nxt = p.snd_nxt, q.wire = p.wire,
         q.lastack = p.lastack, q.unsent = p.unsent, q.unacked = p.unacked,
         q.persist => p.persist \/ p.unacked = <<>>, q.rtime = p.rtime \/ q.rtime = 0
  PROVE  Bounded(q, r)
<1>1. Timed(q)
  BY DEF Bounded, Timed
<1> QED
  BY <1>1, BoundedFrom, BoundedQueues

-----------------------------------------------------------------------------
(***************************************************************************)
(* The loop of tcp_output                                                  *)
(***************************************************************************)
\* f has the states after each of the first m turns.
Loop(f, m, s, e) == f = [i \in 0 .. m |-> IF i = 0 THEN s ELSE Turn(f[i - 1], i, e)]

\* There is such a function.
LEMMA LoopExists ==
  ASSUME NEW m \in Nat, NEW s, NEW e
  PROVE  \E f : Loop(f, m, s, e)
<1> DEFINE S == {n \in Nat : \E f : Loop(f, n, s, e)}
<1>1. 0 \in S
  <2> DEFINE f == [i \in 0 .. 0 |-> s]
  <2>1. f = [i \in 0 .. 0 |-> IF i = 0 THEN s ELSE Turn(f[i - 1], i, e)]
    OBVIOUS
  <2>2. Loop(f, 0, s, e)
    BY <2>1 DEF Loop
  <2> QED
    BY <2>2
<1>2. ASSUME NEW n \in 0 .. m - 1, n \in S PROVE n + 1 \in S
  <2>1. PICK f : Loop(f, n, s, e)
    BY <1>2
  <2>2. n \in Nat /\ DOMAIN f = 0 .. n
        /\ \A i \in 0 .. n : f[i] = IF i = 0 THEN s ELSE Turn(f[i - 1], i, e)
    BY <2>1 DEF Loop
  <2> DEFINE h == [i \in 0 .. n + 1 |-> IF i <= n THEN f[i] ELSE Turn(f[n], i, e)]
  <2>3. ASSUME NEW i \in 0 .. n + 1
        PROVE  h[i] = IF i = 0 THEN s ELSE Turn(h[i - 1], i, e)
    <3>1. CASE i <= n
      <4>1. i # 0 => i - 1 \in 0 .. n + 1 /\ h[i - 1] = f[i - 1]
        BY <3>1, <2>2
      <4>2. h[i] = f[i] /\ i \in 0 .. n
        BY <3>1, <2>2
      <4> HIDE DEF h
      <4> QED
        BY <4>1, <4>2, <2>2
    <3>2. CASE i = n + 1
      <4>1. i # 0 /\ i - 1 = n /\ n \in 0 .. n + 1 /\ h[n] = f[n]
        BY <3>2, <2>2
      <4>2. h[i] = Turn(f[n], i, e)
        BY <3>2, <2>2
      <4> HIDE DEF h
      <4> QED
        BY <4>1, <4>2
    <3> QED
      BY <3>1, <3>2, <2>2
  <2>4. h = [i \in 0 .. n + 1 |-> h[i]]
    OBVIOUS
  <2> HIDE DEF h
  <2>5. h = [i \in 0 .. n + 1 |-> IF i = 0 THEN s ELSE Turn(h[i - 1], i, e)]
    BY <2>3, <2>4
  <2>6. Loop(h, n + 1, s, e)
    BY <2>5 DEF Loop
  <2> QED
    BY <2>2, <2>6
<1> HIDE DEF S
<1>3. m \in S
  BY <1>1, <1>2, Inductive
<1> QED
  BY <1>3 DEF S

\* Where tcp_output's loop starts.
Started(p) == [p EXCEPT !.persist = FALSE]

\* The three ways through tcp_output.  What every turn passes on from turn b
\* holds at the end of the loop.
LEMMA OutputCases ==
  ASSUME NEW p \in Pcb, NEW e
  PROVE  /\ p.unsent = <<>> \/ ~e.route => tcp_output(p, e) = p
         /\ p.unsent # <<>> /\ e.route /\ ~Fits(p, p.unsent[1]) => tcp_output(p, e) = StartPersist(p)
         /\ p.unsent # <<>> /\ e.route /\ Fits(p, p.unsent[1]) =>
               \E f : Loop(f, Len(p.unsent), Started(p), e) /\ tcp_output(p, e) = f[Len(p.unsent)]
<1> DEFINE m == Len(p.unsent)
           F == CHOOSE f : f = [i \in 0 .. m |-> IF i = 0 THEN [p EXCEPT !.persist = FALSE]
                                                  ELSE Turn(f[i - 1], i, e)]
<1>1. tcp_output(p, e) = IF p.unsent = <<>> \/ ~e.route THEN p
                         ELSE IF ~Fits(p, p.unsent[1]) THEN StartPersist(p)
                         ELSE F[m]
  BY DEF tcp_output
<1>2. m \in Nat
  BY PcbParts, QueueParts
<1>3. \E f : Loop(f, m, Started(p), e)
  BY <1>2, LoopExists
<1>4. \E f : f = [i \in 0 .. m |-> IF i = 0 THEN [p EXCEPT !.persist = FALSE] ELSE Turn(f[i - 1], i, e)]
  BY <1>3 DEF Loop, Started
<1>5. F = [i \in 0 .. m |-> IF i = 0 THEN [p EXCEPT !.persist = FALSE] ELSE Turn(F[i - 1], i, e)]
  BY <1>4
<1> HIDE DEF F
<1>6. Loop(F, m, Started(p), e)
  BY <1>5 DEF Loop, Started
<1> QED
  BY <1>1, <1>6

\* What every turn passes on from turn b holds at the end of the loop.
LEMMA LoopKeeps ==
  ASSUME NEW m \in Nat, NEW s, NEW e, NEW f, Loop(f, m, s, e), NEW b \in 0 .. m, NEW S,
         f[b] \in S, \A q \in S, i \in 1 .. m : i > b => Turn(q, i, e) \in S
  PROVE  f[m] \in S
<1>1. \A i \in 0 .. m : f[i] = IF i = 0 THEN s ELSE Turn(f[i - 1], i, e)
  BY DEF Loop
<1> DEFINE N == {n \in Nat : n < b \/ f[n] \in S}
<1>2. 0 \in N
  OBVIOUS
<1>3. ASSUME NEW n \in 0 .. m - 1, n \in N PROVE n + 1 \in N
  <2>1. CASE n + 1 < b
    BY <2>1
  <2>2. CASE n + 1 = b
    BY <2>2
  <2>3. CASE n + 1 > b
    <3>1. PICK j \in 1 .. m : j = n + 1
      OBVIOUS
    <3>2. f[j] = Turn(f[n], j, e)
      BY <1>1, <3>1
    <3>3. f[n] \in S
      BY <1>3, <2>3
    <3>4. f[j] \in S
      BY <2>3, <3>1, <3>2, <3>3
    <3> QED
      BY <3>1, <3>4
  <2> QED
    BY <2>1, <2>2, <2>3
<1> HIDE DEF N
<1>4. m \in N
  <2>1. \A n \in 0 .. m - 1 : n \in N => n + 1 \in N
    BY <1>3
  <2>2. \A n \in 0 .. m : n \in N
    BY <1>2, <2>1, Inductive, Zenon
  <2> QED
    BY <2>2
<1> QED
  BY <1>4 DEF N

-----------------------------------------------------------------------------
\* A turn of the loop.
LEMMA TurnBounded ==
  ASSUME NEW r, NEW p, Bounded(p, r), ~p.persist, NEW i, NEW e
  PROVE  Bounded(Turn(p, i, e), r) /\ ~Turn(p, i, e).persist
<1>1. CASE Turn(p, i, e) = p
  BY <1>1
<1>2. CASE Turn(p, i, e) = [p EXCEPT !.rtime = 0]
  <2> DEFINE q == [p EXCEPT !.rtime = 0]
  <2>1. p \in Pcb
    BY DEF Bounded
  <2>2. /\ q \in Pcb /\ q.snd_lbb = p.snd_lbb /\ q.fin = p.fin /\ q.snd_nxt = p.snd_nxt
        /\ q.wire = p.wire /\ q.lastack = p.lastack /\ q.unsent = p.unsent
        /\ q.unacked = p.unacked /\ q.persist = p.persist /\ q.rtime = 0
    BY <2>1 DEF Pcb
  <2> HIDE DEF q
  <2>3. Bounded(q, r) /\ ~q.persist
    BY <2>2, BoundedSame
  <2> QED
    BY <1>2, <2>3 DEF q
<1>3. CASE p.unsent # <<>> /\ Turn(p, i, e) = SendOne(p)
  BY <1>3, SendOneBounded
<1> QED
  BY <1>1, <1>2, <1>3 DEF Turn

\* The start of the loop.
LEMMA StartedBounded ==
  ASSUME NEW r, NEW p, Bounded(p, r)
  PROVE  Bounded(Started(p), r) /\ ~Started(p).persist
<1> DEFINE q == Started(p)
<1>1. p \in Pcb
  BY DEF Bounded
<1>2. /\ q \in Pcb /\ q.snd_lbb = p.snd_lbb /\ q.fin = p.fin /\ q.snd_nxt = p.snd_nxt
      /\ q.wire = p.wire /\ q.lastack = p.lastack /\ q.unsent = p.unsent
      /\ q.unacked = p.unacked /\ ~q.persist /\ q.rtime = p.rtime
  BY <1>1 DEF Pcb, Started
<1> HIDE DEF q
<1>3. Bounded(q, r) /\ ~q.persist
  BY <1>2, BoundedSame
<1> QED
  BY <1>3 DEF q

\* The persist timer starts only when nothing is in flight.
LEMMA PersistBounded ==
  ASSUME NEW r, NEW p, Bounded(p, r)
  PROVE  Bounded(StartPersist(p), r)
<1> DEFINE q == [p EXCEPT !.persist = TRUE, !.probe = 0]
<1>1. p \in Pcb
  BY DEF Bounded
<1>2. /\ q \in Pcb /\ q.snd_lbb = p.snd_lbb /\ q.fin = p.fin /\ q.snd_nxt = p.snd_nxt
      /\ q.wire = p.wire /\ q.lastack = p.lastack /\ q.unsent = p.unsent
      /\ q.unacked = p.unacked /\ q.rtime = p.rtime
  <2>1. 0 \in 0 .. MaxRtx
    BY Const
  <2> QED
    BY <1>1, <2>1 DEF Pcb
<1> HIDE DEF q
<1>3. p.unacked = <<>> => Bounded(q, r)
  BY <1>2, BoundedSame
<1> QED
  BY <1>3 DEF StartPersist, q

\* tcp_output
LEMMA OutputBounded ==
  ASSUME NEW r, NEW p, Bounded(p, r), NEW e
  PROVE  Bounded(tcp_output(p, e), r)
<1>1. p \in Pcb
  BY DEF Bounded
<1>2. CASE p.unsent = <<>> \/ ~e.route
  <2>1. tcp_output(p, e) = p
    BY <1>1, <1>2, OutputCases
  <2> QED
    BY <2>1
<1>3. CASE p.unsent # <<>> /\ e.route /\ ~Fits(p, p.unsent[1])
  <2>1. tcp_output(p, e) = StartPersist(p)
    BY <1>1, <1>3, OutputCases
  <2> QED
    BY <2>1, PersistBounded
<1>4. CASE p.unsent # <<>> /\ e.route /\ Fits(p, p.unsent[1])
  <2>1. PICK f : Loop(f, Len(p.unsent), Started(p), e) /\ tcp_output(p, e) = f[Len(p.unsent)]
    BY <1>1, <1>4, OutputCases
  <2> DEFINE S == {q \in Pcb : Bounded(q, r) /\ ~q.persist}
  <2>2. PICK m \in Nat : m = Len(p.unsent)
    BY <1>1, PcbParts, QueueParts
  <2>3. 0 \in 0 .. m /\ f[0] = Started(p)
    BY <2>1, <2>2 DEF Loop
  <2>4. f[0] \in S
    BY <2>3, StartedBounded DEF Bounded
  <2>5. \A q \in S, i \in 1 .. m : i > 0 => Turn(q, i, e) \in S
    BY TurnBounded DEF Bounded
  <2> HIDE DEF S
  <2>6. f[m] \in S
    BY <2>1, <2>2, <2>3, <2>4, <2>5, LoopKeeps
  <2> QED
    BY <2>1, <2>2, <2>6 DEF S
<1> QED
  BY <1>2, <1>3, <1>4

-----------------------------------------------------------------------------
\* The application adds to the unsent queue.
LEMMA BoundedGrows ==
  ASSUME NEW r, NEW p, Bounded(p, r), NEW q \in Pcb, p.fin => q.fin, q.snd_lbb >= p.snd_lbb,
         ~q.fin => q.snd_lbb <= Bytes, q.fin => q.snd_lbb >= Bytes, q.snd_nxt = p.snd_nxt,
         q.wire = p.wire, q.lastack = p.lastack, q.unacked = p.unacked, q.persist = p.persist,
         q.rtime = p.rtime, QueuePlaced(q.unsent, q)
  PROVE  Bounded(q, r)
<1>1. /\ p \in Pcb /\ QueuePlaced(p.unacked, p) /\ p.unacked \in Seq(Segment) /\ Timed(p) /\ Numbers(p, r)
      /\ p.fin \in BOOLEAN /\ q.fin \in BOOLEAN /\ p.snd_lbb \in Nat /\ q.snd_lbb \in Nat
      /\ p.snd_nxt \in Nat /\ p.wire \subseteq Segment
  BY BoundedQueues, PcbParts
<1>2. ASSUME NEW g \in Segment, Placed(g, p) PROVE Placed(g, q)
  BY <1>1, <1>2, SegParts DEF Placed
<1>3. QueuePlaced(q.unacked, q)
  BY <1>1, <1>2, QueueParts DEF QueuePlaced
<1>4. \A g \in q.wire : Placed(g, q) /\ End(g) <= q.snd_nxt
  BY <1>1, <1>2 DEF Bounded, AllPlaced
<1>5. Numbers(q, r)
  BY <1>1, Const DEF Numbers
<1>6. Timed(q)
  BY <1>1 DEF Timed
<1> QED
  BY <1>3, <1>4, <1>5, <1>6 DEF Bounded, AllPlaced

\* tcp_send_fin
LEMMA SendFinBounded ==
  ASSUME NEW r, NEW p, Bounded(p, r), NEW e, p.snd_lbb >= Bytes
  PROVE  Bounded(tcp_send_fin(p, e), r)
<1>1. /\ p \in Pcb /\ QueuePlaced(p.unsent, p) /\ QueuePlaced(p.unacked, p)
      /\ p.unsent \in Seq(Segment) /\ p.unacked \in Seq(Segment) /\ Timed(p) /\ Numbers(p, r)
      /\ p.fin \in BOOLEAN /\ p.snd_lbb \in Nat /\ p.snd_nxt \in Nat /\ p.snd_nxt <= Bytes + 1
      /\ p.wire \subseteq Segment
  BY BoundedQueues, PcbParts
<1>3. CASE p.fin
  BY <1>3 DEF tcp_send_fin
<1>4. CASE ~p.fin /\ p.unsent # <<>>
  <2> DEFINE m == Len(p.unsent)
             h == [p.unsent[m] EXCEPT !.fin = TRUE]
             s == [p.unsent EXCEPT ![m] = h]
             q == [p EXCEPT !.unsent = s, !.fin = TRUE]
  <2>1. m \in Nat /\ m > 0 /\ m \in 1 .. m /\ \A i \in 1 .. m : p.unsent[i] \in Segment
    BY <1>1, <1>4, QueueParts
  <2>2. tcp_send_fin(p, e) = q
    BY <1>4 DEF tcp_send_fin
  <2>3. /\ h \in Segment /\ h.seq = p.unsent[m].seq /\ h.len = p.unsent[m].len /\ h.fin
    BY <2>1 DEF Segment
  <2> HIDE DEF h
  <2>4. /\ s \in Seq(Segment) /\ Len(s) = m /\ s[m] = h /\ \A i \in 1 .. m : i # m => s[i] = p.unsent[i]
    BY <1>1, <2>1, <2>3, ExceptSeq
  <2> HIDE DEF s
  <2>5. /\ q \in Pcb /\ q.fin /\ q.snd_lbb = p.snd_lbb /\ q.snd_nxt = p.snd_nxt
        /\ q.wire = p.wire /\ q.lastack = p.lastack /\ q.unacked = p.unacked
        /\ q.persist = p.persist /\ q.rtime = p.rtime /\ q.unsent = s
    BY <1>1, <2>4 DEF Pcb
  <2> HIDE DEF q
  <2>6. ASSUME NEW i \in 1 .. m PROVE Placed(s[i], q)
    <3>1. Placed(p.unsent[i], p)
      BY <1>1 DEF QueuePlaced
    <3> QED
      BY <2>3, <2>4, <2>5, <3>1 DEF Placed
  <2>7. QueuePlaced(q.unsent, q)
    BY <2>4, <2>5, <2>6 DEF QueuePlaced
  <2> QED
    BY <1>1, <2>2, <2>5, <2>7, BoundedGrows
<1>5. CASE ~p.fin /\ p.unsent = <<>> /\ e.mem
  <2> DEFINE h == Seg(p.snd_lbb, 0, TRUE)
             s == <<h>>
             q == [p EXCEPT !.unsent = s, !.snd_lbb = @ + 1, !.fin = TRUE]
  <2>1. tcp_send_fin(p, e) = q
    BY <1>5 DEF tcp_send_fin
  <2>2. p.snd_lbb = Bytes
    BY <1>1, <1>5, Const DEF Numbers
  <2>3. h \in Segment /\ h.seq = Bytes /\ h.len = 0 /\ h.fin
    <3>1. Bytes \in Nat /\ 0 \in Nat /\ Bytes <= Bytes /\ 0 <= MSS /\ TRUE \in BOOLEAN
      BY Const
    <3>2. h = Seg(Bytes, 0, TRUE)
      BY <2>2
    <3> HIDE DEF h
    <3> QED
      BY <3>1, <3>2, SegIs
  <2> HIDE DEF h
  <2>4. s \in Seq(Segment) /\ Len(s) = 1 /\ s[1] = h
    BY <2>3
  <2> HIDE DEF s
  <2>5. p.snd_lbb + 1 \in 0 .. Bytes + 1
    BY <2>2, Const
  <2>6. /\ q \in Pcb /\ q.fin /\ q.snd_lbb = p.snd_lbb + 1 /\ q.snd_nxt = p.snd_nxt
        /\ q.wire = p.wire /\ q.lastack = p.lastack /\ q.unacked = p.unacked
        /\ q.persist = p.persist /\ q.rtime = p.rtime /\ q.unsent = s
    BY <1>1, <2>4, <2>5 DEF Pcb
  <2> HIDE DEF q
  <2>7. Placed(h, q)
    BY <2>2, <2>3, <2>6, Const DEF Placed
  <2>8. QueuePlaced(q.unsent, q)
    <3>1. \A i \in 1 .. 1 : Placed(s[i], q)
      BY <2>4, <2>7
    <3>2. QueuePlaced(s, q)
      BY <2>4, <3>1 DEF QueuePlaced
    <3> QED
      BY <2>6, <3>2
  <2> QED
    BY <1>1, <2>1, <2>2, <2>6, <2>8, BoundedGrows, Const
<1> QED
  BY <1>1, <1>3, <1>4, <1>5 DEF tcp_send_fin

\* The place of the ith of the segments that hold n bytes.
LEMMA Places ==
  ASSUME NEW n \in Nat, NEW c, c = (n + MSS - 1) \div MSS
  PROVE  /\ c \in Nat /\ (n = 0 <=> c = 0)
         /\ \A i \in 1 .. c : /\ (i - 1) * MSS \in Nat /\ (i - 1) * MSS < n
                              /\ i = c => n <= (i - 1) * MSS + MSS
                              /\ i < c => (i - 1) * MSS + MSS < n
         /\ \A i, j \in 1 .. c : i < j => (i - 1) * MSS + MSS <= (j - 1) * MSS
         /\ \A i, j \in 1 .. c : j = i + 1 => (j - 1) * MSS = (i - 1) * MSS + MSS
<1>1. MSS \in Nat /\ MSS > 0
  BY Const
<1>2. PICK M \in Nat : M = MSS /\ M > 0
  BY <1>1
<1>3. c \in Nat /\ M * c <= n + M - 1 /\ n + M - 1 < M * c + M
  BY <1>2
<1>4. n = 0 <=> c = 0
  <2>1. n = 0 => c = 0
    <3>1. \A x \in Nat : x > 0 => M * x >= M
      BY <1>2
    <3> QED
      BY <1>2, <1>3, <3>1
  <2>2. c = 0 => n = 0
    BY <1>2, <1>3
  <2> QED
    BY <2>1, <2>2
<1>5. \A a, b \in Nat : a <= b => a * M <= b * M /\ a * M \in Nat /\ b * M \in Nat
  BY <1>2
<1>6. \A a \in Nat : (a + 1) * M = a * M + M
  BY <1>2
<1>7. c * M <= n + M - 1 /\ n + M - 1 < c * M + M
  BY <1>2, <1>3
<1>8. ASSUME NEW i \in 1 .. c
      PROVE  /\ (i - 1) * M \in Nat /\ (i - 1) * M < n
             /\ i = c => n <= (i - 1) * M + M
             /\ i < c => (i - 1) * M + M < n
  <2>1. PICK a \in Nat : a = i - 1 /\ a + 1 = i
    OBVIOUS
  <2>2. PICK x \in Nat : x = a * M
    BY <1>2, <2>1
  <2>3. i * M = x + M
    BY <1>6, <2>1, <2>2
  <2>4. i * M <= c * M /\ c * M \in Nat
    BY <1>3, <1>5
  <2>5. PICK z \in Nat : z = c * M
    BY <2>4
  <2>6. x < n /\ (i = c => n <= x + M)
    BY <1>2, <1>7, <2>3, <2>4, <2>5
  <2>7. ASSUME i < c PROVE x + M < n
    <3>1. PICK b \in Nat : b = c - 1 /\ b + 1 = c /\ i <= b
      BY <1>3, <2>7
    <3>2. i * M <= b * M /\ b * M + M = z /\ b * M \in Nat
      BY <1>5, <1>6, <2>5, <3>1
    <3>3. PICK y \in Nat : y = b * M
      BY <3>2
    <3> QED
      BY <1>2, <1>7, <2>3, <2>5, <3>2, <3>3
  <2> QED
    BY <2>1, <2>2, <2>6, <2>7
<1>9. ASSUME NEW i \in 1 .. c, NEW j \in 1 .. c, i < j
      PROVE  (i - 1) * M + M <= (j - 1) * M
  <2>1. PICK a \in Nat : a = i - 1 /\ a + 1 = i
    OBVIOUS
  <2>2. PICK b \in Nat : b = j - 1 /\ i <= b
    BY <1>9
  <2>3. i * M <= b * M /\ i * M = a * M + M
    BY <1>5, <1>6, <2>1, <2>2
  <2> QED
    BY <2>1, <2>2, <2>3
<1>10. ASSUME NEW i \in 1 .. c, NEW j \in 1 .. c, j = i + 1
       PROVE  (j - 1) * M = (i - 1) * M + M
  <2>1. PICK a \in Nat : a = i - 1 /\ a + 1 = j - 1
    BY <1>10
  <2> QED
    BY <1>6, <2>1
<1> QED
  BY <1>2, <1>3, <1>4, <1>8, <1>9, <1>10, Zenon

\* The segments of t hold the n bytes from seq on, without the FIN.
Carries(t, seq, n) ==
  /\ (n = 0 => t = <<>>) /\ (n > 0 => t # <<>>)
  /\ \A i \in 1 .. Len(t) : /\ seq <= t[i].seq /\ t[i].len > 0 /\ ~t[i].fin
                            /\ t[i].seq + t[i].len <= seq + n
  /\ n > 0 => t[1].seq = seq /\ t[Len(t)].seq + t[Len(t)].len = seq + n

\* The new segments hold the bytes from seq to seq + n in order.
LEMMA NewSegsIs ==
  ASSUME NEW seq \in Nat, NEW n \in Nat, seq + n <= Bytes, NEW t, t = NewSegs(seq, n)
  PROVE  t \in Seq(Segment) /\ Chain(t) /\ Carries(t, seq, n)
<1> DEFINE c == (n + MSS - 1) \div MSS
           at(i) == (i - 1) * MSS
           len(i) == IF n - at(i) < MSS THEN n - at(i) ELSE MSS
<1>1. /\ c \in Nat /\ (n = 0 <=> c = 0)
      /\ \A i \in 1 .. c : /\ at(i) \in Nat /\ at(i) < n
                           /\ i = c => n <= at(i) + MSS
                           /\ i < c => at(i) + MSS < n
      /\ \A i, j \in 1 .. c : i < j => at(i) + MSS <= at(j)
      /\ \A i, j \in 1 .. c : j = i + 1 => at(j) = at(i) + MSS
  BY Places
<1>a. at(1) = 0
  BY Const
<1>2. t = [i \in 1 .. c |-> Seg(seq + at(i), len(i), FALSE)]
  BY DEF NewSegs
<1> HIDE DEF c, at
<1>3. ASSUME NEW i \in 1 .. c
      PROVE  /\ len(i) \in Nat /\ len(i) <= MSS /\ len(i) > 0 /\ at(i) + len(i) <= n
             /\ i = c => at(i) + len(i) = n
             /\ i < c => len(i) = MSS
  BY <1>1, Const
<1> HIDE DEF len
<1>4. ASSUME NEW i \in 1 .. c
      PROVE  /\ t[i] \in Segment /\ t[i].seq = seq + at(i) /\ t[i].len = len(i) /\ t[i].fin = FALSE
  <2>1. PICK x \in Nat, y \in Nat : x = seq + at(i) /\ y = len(i) /\ x <= Bytes /\ y <= MSS
    BY <1>1, <1>3, Const
  <2>2. t[i] = Seg(x, y, FALSE)
    BY <1>2, <2>1
  <2> QED
    BY <2>1, <2>2, Const DEF Seg, Segment
<1>5. t \in Seq(Segment) /\ Len(t) = c
  <2>1. t = [i \in 1 .. c |-> t[i]]
    BY <1>2
  <2>2. t \in Seq(Segment) /\ Len(t) = c
    <3>1. \A i \in 1 .. c : t[i] \in Segment
      BY <1>4
    <3>2. [i \in 1 .. c |-> t[i]] \in Seq(Segment) /\ Len([i \in 1 .. c |-> t[i]]) = c
      BY <1>1, <3>1
    <3> QED
      BY <2>1, <3>2
  <2> QED
    BY <2>2
<1>6. ASSUME NEW i \in 1 .. c, NEW j \in 1 .. c, i < j PROVE After(t[i], t[j])
  <2>1. at(i) + MSS <= at(j) /\ at(i) \in Nat /\ at(j) \in Nat /\ len(i) \in Nat /\ len(i) <= MSS /\ len(i) > 0
    BY <1>1, <1>3, <1>6
  <2>2. (seq + at(i)) + len(i) <= seq + at(j)
    BY <2>1, Const
  <2> QED
    BY <1>4, <2>1, <2>2 DEF After
<1>7. ASSUME NEW i \in 1 .. c, NEW j \in 1 .. c, j = i + 1
      PROVE  t[i].seq + t[i].len = t[j].seq
  <2>1. at(j) = at(i) + MSS /\ at(i) \in Nat /\ len(i) = MSS
    BY <1>1, <1>3, <1>7
  <2>2. (seq + at(i)) + len(i) = seq + at(j)
    BY <2>1, Const
  <2> QED
    BY <1>4, <2>2
<1>8. Chain(t)
  BY <1>5, <1>6, <1>7 DEF Chain
<1>9. ASSUME NEW i \in 1 .. c
      PROVE  /\ seq <= t[i].seq /\ t[i].len > 0 /\ ~t[i].fin /\ t[i].seq + t[i].len <= seq + n
  <2>1. at(i) \in Nat /\ len(i) \in Nat /\ len(i) > 0 /\ at(i) + len(i) <= n
    BY <1>1, <1>3
  <2>2. seq <= seq + at(i) /\ (seq + at(i)) + len(i) <= seq + n
    BY <2>1
  <2> QED
    BY <1>4, <2>1, <2>2
<1>10. (n = 0 => t = <<>>) /\ (n > 0 => t # <<>>)
  BY <1>1, <1>5, QueueParts
<1>11. ASSUME n > 0 PROVE t[1].seq = seq /\ t[c].seq + t[c].len = seq + n
  <2>1. c \in 1 .. c /\ 1 \in 1 .. c
    BY <1>1, <1>11
  <2>2. at(c) \in Nat /\ len(c) \in Nat /\ at(c) + len(c) = n
    BY <1>1, <1>3, <2>1
  <2>3. (seq + at(c)) + len(c) = seq + n
    BY <2>2
  <2>4. seq + at(1) = seq
    BY <1>a
  <2> QED
    BY <1>4, <2>1, <2>3, <2>4
<1> QED
  BY <1>5, <1>8, <1>9, <1>10, <1>11 DEF Carries

\* s is u with its last segment longer by f bytes.
Filled(u, f, s) ==
  \/ f = 0 /\ s = u
  \/ /\ u # <<>> /\ u[Len(u)].len > 0
     /\ \E h \in Segment : /\ LastBecomes(u, h, s) /\ h.seq = u[Len(u)].seq
                           /\ h.len = u[Len(u)].len + f /\ h.fin = u[Len(u)].fin

\* q's unsent queue is p's, filled up, and new segments: n bytes in all.
Wrote(p, n, q) ==
  \E f \in 0 .. n : \E s : /\ Filled(p.unsent, f, s)
                           /\ q.unsent = s \o NewSegs(p.snd_lbb + f, n - f)

\* What tcp_write does unless it fails.
LEMMA WriteIs ==
  ASSUME NEW p \in Pcb, NEW n \in Nat, p.snd_lbb + n <= Bytes, NEW e,
         NEW q, q = tcp_write(p, n, e), q # p
  PROVE  /\ ~p.fin /\ q \in Pcb /\ q.snd_lbb = p.snd_lbb + n
         /\ Wrote(p, n, q)
         /\ q.unacked = p.unacked /\ q.lastack = p.lastack /\ q.snd_nxt = p.snd_nxt
         /\ q.snd_wnd = p.snd_wnd /\ q.cwnd = p.cwnd /\ q.rtime = p.rtime /\ q.nrtx = p.nrtx
         /\ q.rto_end = p.rto_end /\ q.persist = p.persist /\ q.probe = p.probe
         /\ q.dupacks = p.dupacks /\ q.infr = p.infr /\ q.fin = p.fin /\ q.open = p.open
         /\ q.wire = p.wire
<1> DEFINE u == p.unsent
           m == Len(p.unsent)
           fill == Fill(p, n)
           s == IF fill = 0 THEN p.unsent ELSE [p.unsent EXCEPT ![Len(p.unsent)].len = @ + fill]
           t == NewSegs(p.snd_lbb + fill, n - fill)
           v == s \o t
           l == p.snd_lbb + n
<1>1. ~p.fin /\ q = [p EXCEPT !.unsent = v, !.snd_lbb = l]
  BY DEF tcp_write
<1>2. /\ u \in Seq(Segment) /\ m \in Nat /\ p.snd_lbb \in Nat /\ MSS \in Nat /\ MSS > 0
      /\ \A i \in 1 .. m : u[i] \in Segment
      /\ u # <<>> => m > 0
  BY PcbParts, QueueParts, Const
<1>3. /\ fill \in 0 .. n
      /\ fill # 0 => u # <<>> /\ u[m].len > 0 /\ u[m].len + fill <= MSS
  <2>1. u # <<>> => u[m] \in Segment /\ u[m].len \in Nat /\ u[m].len <= MSS
    BY <1>2, SegParts
  <2> QED
    BY <1>2, <2>1 DEF Fill
<1> HIDE DEF fill
<1>4. s \in Seq(Segment) /\ Filled(u, fill, s)
  <2>1. CASE fill = 0
    BY <1>2, <2>1 DEF Filled
  <2>2. CASE fill # 0
    <3> DEFINE h == [u[m] EXCEPT !.len = @ + fill]
    <3>1. m \in 1 .. m /\ u[m] \in Segment /\ u[m].len + fill \in 0 .. MSS
      <4>1. m \in 1 .. m /\ u[m] \in Segment
        BY <1>2, <1>3, <2>2
      <4>2. u[m].len \in Nat
        BY <4>1, SegParts
      <4> QED
        BY <1>2, <1>3, <2>2, <4>1, <4>2
    <3>2. h \in Segment /\ h.seq = u[m].seq /\ h.len = u[m].len + fill /\ h.fin = u[m].fin
      BY <3>1 DEF Segment
    <3>3. s = [u EXCEPT ![m] = h]
      BY <2>2
    <3> HIDE DEF h, s
    <3>4. s \in Seq(Segment) /\ Len(s) = m /\ \A j \in 1 .. m : s[j] = IF j = m THEN h ELSE u[j]
      BY <1>2, <3>1, <3>2, <3>3, ExceptSeq
    <3>5. LastBecomes(u, h, s)
      BY <3>1, <3>4 DEF LastBecomes
    <3> QED
      BY <1>3, <2>2, <3>2, <3>4, <3>5 DEF Filled
  <2> QED
    BY <2>1, <2>2
<1>5. t \in Seq(Segment)
  <2>1. PICK x \in Nat, y \in Nat : x = p.snd_lbb + fill /\ y = n - fill /\ x + y <= Bytes
    BY <1>2, <1>3, Const
  <2>2. t = NewSegs(x, y)
    BY <2>1
  <2> QED
    BY <2>1, <2>2, NewSegsIs
<1>6. v \in Seq(Segment) /\ v = s \o NewSegs(p.snd_lbb + fill, n - fill)
  BY <1>4, <1>5, ConcatProperties
<1>7. l \in 0 .. Bytes + 1
  BY <1>2, Const
<1> HIDE DEF s, t, v, l
<1>8. /\ q \in Pcb /\ q.unsent = v /\ q.snd_lbb = l
      /\ q.unacked = p.unacked /\ q.lastack = p.lastack /\ q.snd_nxt = p.snd_nxt
      /\ q.snd_wnd = p.snd_wnd /\ q.cwnd = p.cwnd /\ q.rtime = p.rtime /\ q.nrtx = p.nrtx
      /\ q.rto_end = p.rto_end /\ q.persist = p.persist /\ q.probe = p.probe
      /\ q.dupacks = p.dupacks /\ q.infr = p.infr /\ q.fin = p.fin /\ q.open = p.open
      /\ q.wire = p.wire
  BY <1>1, <1>6, <1>7 DEF Pcb
<1>9. Wrote(p, n, q)
  BY <1>3, <1>4, <1>6, <1>8 DEF Wrote
<1> QED
  BY <1>1, <1>8, <1>9 DEF l

\* tcp_write
LEMMA WriteBounded ==
  ASSUME NEW r, NEW p, Bounded(p, r), NEW n \in Nat, p.snd_lbb + n <= Bytes, NEW e
  PROVE  Bounded(tcp_write(p, n, e), r)
<1> DEFINE q == tcp_write(p, n, e)
<1> SUFFICES ASSUME q # p PROVE Bounded(q, r)
  OBVIOUS
<1>1. /\ p \in Pcb /\ QueuePlaced(p.unsent, p) /\ p.unsent \in Seq(Segment)
      /\ p.snd_lbb \in Nat /\ p.fin \in BOOLEAN
  BY BoundedQueues, PcbParts
<1>2. /\ ~p.fin /\ q \in Pcb /\ q.snd_lbb = p.snd_lbb + n
      /\ q.unacked = p.unacked /\ q.lastack = p.lastack /\ q.snd_nxt = p.snd_nxt
      /\ q.rtime = p.rtime /\ q.persist = p.persist /\ q.fin = p.fin /\ q.wire = p.wire
      /\ Wrote(p, n, q)
  BY <1>1, WriteIs
<1> HIDE DEF q
<1>3. PICK f \in 0 .. n : \E s : /\ Filled(p.unsent, f, s)
                                 /\ q.unsent = s \o NewSegs(p.snd_lbb + f, n - f)
  BY <1>2 DEF Wrote
<1>4. PICK s : Filled(p.unsent, f, s) /\ q.unsent = s \o NewSegs(p.snd_lbb + f, n - f)
  BY <1>3
<1>5. PICK lbb \in Nat : lbb = p.snd_lbb /\ lbb + n <= Bytes /\ q.snd_lbb = lbb + n
  BY <1>1, <1>2
<1>6. ASSUME NEW g \in Segment, Placed(g, p) PROVE Placed(g, q)
  BY <1>2, <1>5, <1>6, SegParts DEF Placed
<1>7. s \in Seq(Segment) /\ QueuePlaced(s, q)
  <2>1. CASE f = 0 /\ s = p.unsent
    BY <1>1, <1>6, <2>1, QueueParts DEF QueuePlaced
  <2>2. CASE p.unsent # <<>> /\ \E h \in Segment : /\ LastBecomes(p.unsent, h, s)
                                                   /\ h.seq = p.unsent[Len(p.unsent)].seq
                                                   /\ h.len = p.unsent[Len(p.unsent)].len + f
                                                   /\ h.fin = p.unsent[Len(p.unsent)].fin
                                                   /\ p.unsent[Len(p.unsent)].len > 0
    <3>1. PICK m \in Nat : m = Len(p.unsent) /\ m \in 1 .. m
      BY <1>1, <2>2, QueueParts
    <3>2. PICK h \in Segment : /\ LastBecomes(p.unsent, h, s) /\ h.seq = p.unsent[m].seq
                               /\ h.len = p.unsent[m].len + f /\ h.fin = p.unsent[m].fin
                               /\ p.unsent[m].len > 0
      BY <2>2, <3>1
    <3>3. p.unsent[m] \in Segment /\ Placed(p.unsent[m], p)
      BY <1>1, <3>1, QueueParts DEF QueuePlaced
    <3>4. PICK x \in Nat, y \in Nat : x = p.unsent[m].seq /\ y = p.unsent[m].len
      BY <3>3, SegParts
    <3>5. x + y <= lbb /\ y > 0 /\ h.seq = x /\ h.len = y + f
      BY <1>5, <3>2, <3>3, <3>4 DEF Placed
    <3>6. x + (y + f) <= lbb + n /\ x + (y + f) <= Bytes /\ y + f > 0 /\ y + f # 0
      <4>1. f \in Nat /\ f <= n
        OBVIOUS
      <4>2. lbb + n <= Bytes /\ Bytes \in Nat
        BY <1>5, Const
      <4>3. x + y <= lbb /\ y > 0
        BY <3>5
      <4> QED
        BY <4>1, <4>2, <4>3
    <3>7. Placed(h, q)
      <4>1. h.seq + h.len <= q.snd_lbb /\ h.seq + h.len <= Bytes /\ h.len # 0
        BY <1>5, <3>5, <3>6
      <4>2. h.fin => q.fin
        BY <1>2, <3>2, <3>3 DEF Placed
      <4> QED
        BY <4>1, <4>2 DEF Placed
    <3>8. s \in Seq(Segment) /\ Len(s) = m /\ s[m] = h /\ \A i \in 1 .. m : i # m => s[i] = p.unsent[i]
      BY <3>1, <3>2 DEF LastBecomes
    <3>9. ASSUME NEW i \in 1 .. m PROVE Placed(s[i], q)
      <4>1. p.unsent[i] \in Segment /\ Placed(p.unsent[i], p)
        BY <1>1, <3>1, QueueParts DEF QueuePlaced
      <4> QED
        BY <1>6, <3>7, <3>8, <4>1
    <3> QED
      BY <3>8, <3>9 DEF QueuePlaced
  <2> QED
    BY <1>4, <2>1, <2>2 DEF Filled
<1>8. NewSegs(p.snd_lbb + f, n - f) \in Seq(Segment) /\ QueuePlaced(NewSegs(p.snd_lbb + f, n - f), q)
  <2>1. PICK x \in Nat, y \in Nat : x = lbb + f /\ y = n - f /\ x + y <= Bytes /\ x + y = lbb + n
    BY <1>5
  <2>2. PICK t : t = NewSegs(x, y)
    OBVIOUS
  <2>3. t \in Seq(Segment) /\ \A i \in 1 .. Len(t) : /\ t[i].len > 0 /\ ~t[i].fin
                                                     /\ t[i].seq + t[i].len <= x + y
    BY <2>1, <2>2, NewSegsIs DEF Carries
  <2>4. ASSUME NEW i \in 1 .. Len(t) PROVE Placed(t[i], q)
    <3>1. t[i].len > 0 /\ ~t[i].fin /\ t[i].seq + t[i].len <= lbb + n
      BY <2>1, <2>3
    <3>2. t[i].seq \in Nat /\ t[i].len \in Nat
      BY <2>3, QueueParts, SegParts
    <3> QED
      BY <1>5, <3>1, <3>2, Const DEF Placed
  <2>5. QueuePlaced(t, q)
    BY <2>4 DEF QueuePlaced
  <2> QED
    BY <1>5, <2>1, <2>2, <2>3, <2>5
<1>9. QueuePlaced(q.unsent, q)
  BY <1>4, <1>7, <1>8, PlacedJoin
<1>10. q.snd_lbb >= p.snd_lbb /\ q.snd_lbb <= Bytes
  BY <1>5
<1> QED
  BY <1>2, <1>9, <1>10, BoundedGrows

\* The application's callback.
LEMMA AppSendBounded ==
  ASSUME NEW r, NEW p, Bounded(p, r), NEW n \in Writes(p), NEW e
  PROVE  Bounded(AppSend(p, n, e), r)
<1>1. p \in Pcb /\ p.snd_lbb \in Nat /\ p.fin \in BOOLEAN
  BY BoundedQueues, PcbParts
<1>2. CASE p.fin
  <2>1. tcp_write(p, n, e) = p /\ tcp_send_fin(p, e) = p
    BY <1>2 DEF tcp_write, tcp_send_fin
  <2> QED
    BY <2>1 DEF AppSend
<1>3. CASE ~p.fin
  <2>1. n \in Nat /\ p.snd_lbb + n <= Bytes
    BY <1>1, <1>3, Const DEF Writes, Bounded, Numbers
  <2>2. Bounded(tcp_write(p, n, e), r)
    BY <2>1, WriteBounded
  <2> QED
    BY <2>2, SendFinBounded DEF AppSend
<1> QED
  BY <1>2, <1>3

\* The pcb after tcp_rexmit_fast has moved a segment.
LEMMA FastIs ==
  ASSUME NEW p \in Pcb, NEW busy, NEW q, q = tcp_rexmit_fast(p, busy), q # p
  PROVE  /\ q \in Pcb /\ p.unacked # <<>> /\ ~p.infr
         /\ q.unacked = Tail(p.unacked) /\ q.unsent = Insert(p.unsent, p.unacked[1])
         /\ q.cwnd = SndBuf /\ q.infr /\ q.rtime = 0
         /\ q.lastack = p.lastack /\ q.snd_nxt = p.snd_nxt /\ q.snd_lbb = p.snd_lbb
         /\ q.snd_wnd = p.snd_wnd /\ q.persist = p.persist /\ q.dupacks = p.dupacks
         /\ q.fin = p.fin /\ q.open = p.open /\ q.wire = p.wire
<1> DEFINE g == p.unacked[1]
           u == Tail(p.unacked)
           s == Insert(p.unsent, g)
           n == IF p.nrtx < MaxRtx THEN p.nrtx + 1 ELSE p.nrtx
<1>1. p.unacked # <<>> /\ ~p.infr
      /\ q = [p EXCEPT !.unacked = u, !.unsent = s, !.nrtx = n, !.cwnd = SndBuf, !.infr = TRUE, !.rtime = 0]
  BY DEF tcp_rexmit_fast
<1>2. p.unacked \in Seq(Segment) /\ p.unsent \in Seq(Segment) /\ g \in Segment
  BY <1>1, PcbParts, QueueParts
<1>3. u \in Seq(Segment)
  BY <1>1, <1>2, HeadTailProperties
<1>4. s \in Seq(Segment)
  BY <1>2, InsertIs
<1>5. n \in 0 .. MaxRtx /\ SndBuf \in MSS .. SndBuf
  BY PcbParts, Const
<1> HIDE DEF g, u, s, n
<1>6. /\ q \in Pcb /\ q.unacked = u /\ q.unsent = s /\ q.cwnd = SndBuf /\ q.infr /\ q.rtime = 0
      /\ q.lastack = p.lastack /\ q.snd_nxt = p.snd_nxt /\ q.snd_lbb = p.snd_lbb
      /\ q.snd_wnd = p.snd_wnd /\ q.persist = p.persist /\ q.dupacks = p.dupacks
      /\ q.fin = p.fin /\ q.open = p.open /\ q.wire = p.wire
  BY <1>1, <1>3, <1>4, <1>5 DEF Pcb
<1> QED
  BY <1>1, <1>6 DEF g, u, s

\* tcp_rexmit_fast
LEMMA FastBounded ==
  ASSUME NEW r, NEW p, Bounded(p, r), NEW busy
  PROVE  Bounded(tcp_rexmit_fast(p, busy), r)
<1> DEFINE q == tcp_rexmit_fast(p, busy)
<1> SUFFICES ASSUME q # p PROVE Bounded(q, r)
  OBVIOUS
<1>1. /\ p \in Pcb /\ QueuePlaced(p.unsent, p) /\ QueuePlaced(p.unacked, p)
      /\ p.unsent \in Seq(Segment) /\ p.unacked \in Seq(Segment) /\ Timed(p) /\ p.lastack <= r
  BY BoundedQueues
<1>2. /\ q \in Pcb /\ p.unacked # <<>>
      /\ q.unacked = Tail(p.unacked) /\ q.unsent = Insert(p.unsent, p.unacked[1]) /\ q.rtime = 0
      /\ q.lastack = p.lastack /\ q.snd_nxt = p.snd_nxt /\ q.snd_lbb = p.snd_lbb
      /\ q.persist = p.persist /\ q.fin = p.fin /\ q.wire = p.wire
  BY <1>1, FastIs
<1> HIDE DEF q
<1>3. p.unacked[1] \in Segment /\ Placed(p.unacked[1], p) /\ QueuePlaced(q.unacked, p)
  BY <1>1, <1>2, PlacedTail, QueueParts
<1>4. QueuePlaced(q.unsent, p)
  BY <1>1, <1>2, <1>3, PlacedInsert
<1>5. Timed(q)
  BY <1>1, <1>2 DEF Timed
<1> QED
  BY <1>1, <1>2, <1>3, <1>4, <1>5, BoundedFrom

\* What an ACK of lastack changes unless it brings tcp_rexmit_fast.
Counted(p, q, w) ==
  /\ q \in Pcb /\ q.unsent = p.unsent /\ q.unacked = p.unacked /\ q.lastack = p.lastack
  /\ q.snd_nxt = p.snd_nxt /\ q.snd_lbb = p.snd_lbb /\ q.snd_wnd \in {p.snd_wnd, w}
  /\ q.snd_wnd >= p.snd_wnd /\ q.rtime = p.rtime /\ q.persist = p.persist
  /\ q.infr = p.infr /\ q.fin = p.fin /\ q.open = p.open /\ q.wire = p.wire
  /\ q.dupacks <= p.dupacks + 1

\* An ACK of lastack.
LEMMA DuplicateIs ==
  ASSUME NEW p \in Pcb, NEW w \in Windows, NEW busy, NEW q, q = DuplicateAck(p, w, busy)
  PROVE  \/ Counted(p, q, w)
         \/ \E c : Counted(p, c, w) /\ p.dupacks >= 2 /\ c.snd_wnd = p.snd_wnd /\ q = tcp_rexmit_fast(c, busy)
<1> DEFINE d == IF p.dupacks < 3 THEN p.dupacks + 1 ELSE 3
           x == IF p.dupacks = 3 /\ p.cwnd + MSS < SndBuf THEN p.cwnd + MSS
                ELSE IF p.dupacks = 3 THEN SndBuf ELSE p.cwnd
           a == [p EXCEPT !.dupacks = d, !.cwnd = x]
           b == [p EXCEPT !.snd_wnd = w, !.dupacks = 0]
           z == [p EXCEPT !.dupacks = 0]
<1>1. q = IF w > p.snd_wnd THEN b ELSE IF p.rtime < 0 THEN z
          ELSE IF d = 3 THEN tcp_rexmit_fast(a, busy) ELSE a
  BY DEF DuplicateAck
<1>2. p.dupacks \in 0 .. 3 /\ p.snd_wnd \in Nat /\ p.cwnd \in Nat /\ w \in Nat /\ MSS <= p.cwnd /\ p.cwnd <= SndBuf
  BY PcbParts, Const
<1>3. d \in 0 .. 3 /\ d <= p.dupacks + 1 /\ (d = 3 => p.dupacks >= 2)
  BY <1>2
<1>4. x \in MSS .. SndBuf
  BY <1>2, Const
<1> HIDE DEF d, x
<1>5. Counted(p, a, w) /\ a.snd_wnd = p.snd_wnd
  <2>1. /\ a \in Pcb /\ a.unsent = p.unsent /\ a.unacked = p.unacked /\ a.lastack = p.lastack
        /\ a.snd_nxt = p.snd_nxt /\ a.snd_lbb = p.snd_lbb /\ a.snd_wnd = p.snd_wnd
        /\ a.rtime = p.rtime /\ a.persist = p.persist /\ a.infr = p.infr /\ a.fin = p.fin
        /\ a.open = p.open /\ a.wire = p.wire /\ a.dupacks = d
    BY <1>3, <1>4 DEF Pcb
  <2> HIDE DEF a
  <2> QED
    BY <1>2, <1>3, <2>1 DEF Counted
<1>6. w > p.snd_wnd => Counted(p, b, w)
  <2>1. /\ b \in Pcb /\ b.unsent = p.unsent /\ b.unacked = p.unacked /\ b.lastack = p.lastack
        /\ b.snd_nxt = p.snd_nxt /\ b.snd_lbb = p.snd_lbb /\ b.snd_wnd = w
        /\ b.rtime = p.rtime /\ b.persist = p.persist /\ b.infr = p.infr /\ b.fin = p.fin
        /\ b.open = p.open /\ b.wire = p.wire /\ b.dupacks = 0
    <3>1. 0 \in 0 .. 3
      OBVIOUS
    <3> QED
      BY <3>1 DEF Pcb
  <2> HIDE DEF b
  <2> QED
    BY <1>2, <2>1 DEF Counted
<1>7. Counted(p, z, w)
  <2>1. /\ z \in Pcb /\ z.unsent = p.unsent /\ z.unacked = p.unacked /\ z.lastack = p.lastack
        /\ z.snd_nxt = p.snd_nxt /\ z.snd_lbb = p.snd_lbb /\ z.snd_wnd = p.snd_wnd
        /\ z.rtime = p.rtime /\ z.persist = p.persist /\ z.infr = p.infr /\ z.fin = p.fin
        /\ z.open = p.open /\ z.wire = p.wire /\ z.dupacks = 0
    BY DEF Pcb
  <2> HIDE DEF z
  <2> QED
    BY <1>2, <2>1 DEF Counted
<1> HIDE DEF a, b, z
<1> QED
  BY <1>1, <1>3, <1>5, <1>6, <1>7

\* A duplicate only changes counters.
LEMMA CountedBounded ==
  ASSUME NEW r, NEW p, Bounded(p, r), NEW w, NEW q, Counted(p, q, w)
  PROVE  Bounded(q, r)
BY BoundedSame DEF Counted

\* Any ACK of lastack, fast retransmit included.
LEMMA DuplicateBounded ==
  ASSUME NEW r, NEW p, Bounded(p, r), NEW w \in Windows, NEW busy
  PROVE  Bounded(DuplicateAck(p, w, busy), r)
<1>1. p \in Pcb
  BY DEF Bounded
<1>2. CASE Counted(p, DuplicateAck(p, w, busy), w)
  BY <1>2, CountedBounded
<1>3. CASE \E c : Counted(p, c, w) /\ DuplicateAck(p, w, busy) = tcp_rexmit_fast(c, busy)
  <2>1. PICK c : Counted(p, c, w) /\ DuplicateAck(p, w, busy) = tcp_rexmit_fast(c, busy)
    BY <1>3
  <2>2. Bounded(c, r)
    BY <2>1, CountedBounded
  <2> QED
    BY <2>1, <2>2, FastBounded
<1> QED
  BY <1>1, <1>2, <1>3, DuplicateIs

\* How many segments an ACK frees.
LEMMA AckedIs ==
  ASSUME NEW s \in Seq(Segment), NEW a \in Nat
  PROVE  /\ Acked(s, a) \in 0 .. Len(s)
         /\ \A i \in 1 .. Acked(s, a) : End(s[i]) <= a
         /\ Acked(s, a) < Len(s) => a < End(s[Acked(s, a) + 1])
<1>1. Len(s) \in Nat /\ DOMAIN s = 1 .. Len(s) /\ \A i \in 1 .. Len(s) : s[i] \in Segment
  BY QueueParts
<1> DEFINE T == {i \in DOMAIN s : End(s[i]) > a}
<1>2. T \in SUBSET (1 .. Len(s)) /\ Acked(s, a) = Before(s, T)
  BY <1>1 DEF Acked
<1>t. \A i \in 1 .. Len(s) : i \in T <=> End(s[i]) > a
  BY <1>1
<1> HIDE DEF T
<1>3. PICK c \in Nat : c = Before(s, T)
  BY <1>2, BeforeIs
<1>4. c <= Len(s) /\ (\A i \in T : c < i) /\ (c < Len(s) => c + 1 \in T)
  BY <1>2, <1>3, BeforeIs
<1>5. ASSUME NEW i \in 1 .. c PROVE End(s[i]) <= a
  <2>1. i \in 1 .. Len(s) /\ i \notin T
    BY <1>1, <1>4
  <2>2. End(s[i]) \in Nat
    BY <1>1, <2>1, SegParts
  <2> QED
    BY <1>t, <2>1, <2>2
<1>6. c < Len(s) => a < End(s[c + 1])
  BY <1>1, <1>4, <1>t
<1> QED
  BY <1>1, <1>2, <1>3, <1>4, <1>5, <1>6

Rest(s, a) == SubSeq(s, Acked(s, a) + 1, Len(s))

\* The pcb after an ACK of something new.
LEMMA NewAckIs ==
  ASSUME NEW p \in Pcb, NEW a \in Nat, a <= Bytes + 1, p.lastack < a, NEW w \in Windows,
         NEW q, q = NewAck(p, a, w)
  PROVE  /\ q \in Pcb /\ q.unacked = Rest(p.unacked, a) /\ q.unsent = Rest(p.unsent, a)
         /\ q.lastack = a /\ q.snd_wnd = w /\ ~q.infr /\ q.dupacks = 0
         /\ q.rtime = IF q.unacked = <<>> THEN -1 ELSE 0
         /\ q.snd_nxt = p.snd_nxt /\ q.snd_lbb = p.snd_lbb /\ q.persist = p.persist
         /\ q.fin = p.fin /\ q.open = p.open /\ q.wire = p.wire
<1> DEFINE acked == a - p.lastack
           limit == IF p.rto_end >= 0 THEN MSS ELSE 2 * MSS
           grown == p.cwnd + (IF acked < limit THEN acked ELSE limit)
           c == IF p.infr \/ grown > SndBuf THEN SndBuf ELSE grown
           o == [p EXCEPT !.infr = FALSE, !.nrtx = 0, !.dupacks = 0, !.lastack = a, !.snd_wnd = w,
                          !.cwnd = c]
           f == FreeAcked(o, a)
           t == RestartTimer(f)
<1>1. q = RtoDone(t)
  BY DEF NewAck
<1>2. /\ p.unsent \in Seq(Segment) /\ p.unacked \in Seq(Segment) /\ p.lastack \in Nat
      /\ p.cwnd \in Nat /\ MSS <= p.cwnd /\ p.cwnd <= SndBuf
  BY PcbParts
<1>3. c \in MSS .. SndBuf /\ a \in 0 .. Bytes + 1 /\ 0 \in 0 .. 3 /\ 0 \in 0 .. MaxRtx
  <2>1. acked \in Nat /\ limit \in Nat
    BY <1>2, Const
  <2> QED
    BY <1>2, <2>1, Const
<1> HIDE DEF c
<1>4. /\ o \in Pcb /\ o.unsent = p.unsent /\ o.unacked = p.unacked /\ o.lastack = a /\ o.snd_wnd = w
      /\ ~o.infr /\ o.dupacks = 0 /\ o.snd_nxt = p.snd_nxt /\ o.snd_lbb = p.snd_lbb
      /\ o.persist = p.persist /\ o.fin = p.fin /\ o.open = p.open /\ o.wire = p.wire
  BY <1>3 DEF Pcb
<1> HIDE DEF o
<1> DEFINE u == Rest(p.unacked, a)
           s == Rest(p.unsent, a)
<1>5. u \in Seq(Segment) /\ s \in Seq(Segment)
  <2>1. Acked(p.unacked, a) \in 0 .. Len(p.unacked) /\ Acked(p.unsent, a) \in 0 .. Len(p.unsent)
    BY <1>2, AckedIs
  <2> QED
    BY <1>2, <2>1, RestIs DEF Rest
<1> DEFINE F == [o EXCEPT !.unacked = u, !.unsent = s]
<1>6. f = F
  BY <1>4 DEF FreeAcked, Rest
<1> HIDE DEF u, s, f
<1>7. /\ f \in Pcb /\ f.unsent = s /\ f.unacked = u /\ f.lastack = a /\ f.snd_wnd = w
      /\ ~f.infr /\ f.dupacks = 0 /\ f.snd_nxt = p.snd_nxt /\ f.snd_lbb = p.snd_lbb
      /\ f.persist = p.persist /\ f.fin = p.fin /\ f.open = p.open /\ f.wire = p.wire
  <2>1. /\ F \in Pcb /\ F.unsent = s /\ F.unacked = u /\ F.lastack = a /\ F.snd_wnd = w
        /\ ~F.infr /\ F.dupacks = 0 /\ F.snd_nxt = p.snd_nxt /\ F.snd_lbb = p.snd_lbb
        /\ F.persist = p.persist /\ F.fin = p.fin /\ F.open = p.open /\ F.wire = p.wire
    BY <1>4, <1>5 DEF Pcb
  <2> HIDE DEF F
  <2> QED
    BY <1>6, <2>1
<1> HIDE DEF F
<1> DEFINE x == IF f.unacked = <<>> THEN -1 ELSE 0
           T == [f EXCEPT !.rtime = x]
<1>8. x \in {-1, 0} /\ t = T /\ x = IF u = <<>> THEN -1 ELSE 0
  BY <1>7 DEF RestartTimer
<1> HIDE DEF x, t
<1>9. /\ t \in Pcb /\ t.unsent = s /\ t.unacked = u /\ t.lastack = a /\ t.snd_wnd = w /\ t.rtime = x
      /\ ~t.infr /\ t.dupacks = 0 /\ t.snd_nxt = p.snd_nxt /\ t.snd_lbb = p.snd_lbb
      /\ t.persist = p.persist /\ t.fin = p.fin /\ t.open = p.open /\ t.wire = p.wire
  <2>1. x \in {-1, 0} /\ f \in Pcb
    BY <1>7, <1>8
  <2>2. /\ T \in Pcb /\ T.rtime = x
        /\ T.unsent = f.unsent /\ T.unacked = f.unacked /\ T.lastack = f.lastack /\ T.snd_wnd = f.snd_wnd /\ T.infr = f.infr
        /\ T.dupacks = f.dupacks /\ T.snd_nxt = f.snd_nxt /\ T.snd_lbb = f.snd_lbb /\ T.persist = f.persist /\ T.fin = f.fin
        /\ T.open = f.open /\ T.wire = f.wire
    BY <2>1 DEF Pcb
  <2> HIDE DEF T
  <2> QED
    BY <1>7, <1>8, <2>2
<1> HIDE DEF T
<1> DEFINE Z == [t EXCEPT !.rto_end = -1]
<1>10. q = t \/ q = Z
  BY <1>1 DEF RtoDone
<1>11. /\ q \in Pcb /\ q.unsent = s /\ q.unacked = u /\ q.lastack = a /\ q.snd_wnd = w /\ q.rtime = x
       /\ ~q.infr /\ q.dupacks = 0 /\ q.snd_nxt = p.snd_nxt /\ q.snd_lbb = p.snd_lbb
       /\ q.persist = p.persist /\ q.fin = p.fin /\ q.open = p.open /\ q.wire = p.wire
  <2>1. -1 \in -1 .. Bytes + 1
    BY Const
  <2>2. CASE q = t
    BY <1>9, <2>2
  <2>3. CASE q = Z
    <3>1. t \in Pcb
      BY <1>9
    <3>2. /\ Z \in Pcb
          /\ Z.unsent = t.unsent /\ Z.unacked = t.unacked /\ Z.lastack = t.lastack /\ Z.snd_wnd = t.snd_wnd /\ Z.infr = t.infr
          /\ Z.dupacks = t.dupacks /\ Z.snd_nxt = t.snd_nxt /\ Z.snd_lbb = t.snd_lbb /\ Z.persist = t.persist /\ Z.fin = t.fin
          /\ Z.open = t.open /\ Z.wire = t.wire /\ Z.rtime = t.rtime
      BY <2>1, <3>1 DEF Pcb
    <3> HIDE DEF Z
    <3> QED
      BY <1>9, <2>3, <3>2
  <2> QED
    BY <1>10, <2>2, <2>3
<1> QED
  BY <1>8, <1>11 DEF u, s

\* An ACK of something new keeps the bounds: it is of what was sent.
LEMMA NewAckBounded ==
  ASSUME NEW r, NEW p, Bounded(p, r), NEW a \in Nat, a <= r, p.lastack < a, NEW w \in Windows
  PROVE  Bounded(NewAck(p, a, w), r)
<1> DEFINE q == NewAck(p, a, w)
<1>1. /\ p \in Pcb /\ QueuePlaced(p.unsent, p) /\ QueuePlaced(p.unacked, p)
      /\ p.unsent \in Seq(Segment) /\ p.unacked \in Seq(Segment) /\ Timed(p) /\ Numbers(p, r)
  BY BoundedQueues
<1>2. a <= Bytes + 1
  BY <1>1, PcbParts, Const DEF Numbers
<1>3. /\ q \in Pcb /\ q.unacked = Rest(p.unacked, a) /\ q.unsent = Rest(p.unsent, a)
      /\ q.lastack = a /\ q.rtime = IF q.unacked = <<>> THEN -1 ELSE 0
      /\ q.snd_nxt = p.snd_nxt /\ q.snd_lbb = p.snd_lbb /\ q.persist = p.persist
      /\ q.fin = p.fin /\ q.wire = p.wire
  BY <1>1, <1>2, NewAckIs
<1> HIDE DEF q
<1>4. QueuePlaced(q.unacked, p) /\ QueuePlaced(q.unsent, p)
  <2>1. Acked(p.unacked, a) \in 0 .. Len(p.unacked) /\ Acked(p.unsent, a) \in 0 .. Len(p.unsent)
    BY <1>1, AckedIs
  <2> QED
    BY <1>1, <1>3, <2>1, PlacedRest DEF Rest
<1>5. p.unacked = <<>> => q.unacked = <<>>
  <2> SUFFICES ASSUME p.unacked = <<>> PROVE Rest(p.unacked, a) = <<>>
    BY <1>3
  <2>1. Acked(p.unacked, a) \in 0 .. Len(p.unacked) /\ Len(p.unacked) = 0
    BY <1>1, AckedIs, QueueParts
  <2>2. Rest(p.unacked, a) \in Seq(Segment) /\ Len(Rest(p.unacked, a)) = 0
    BY <1>1, <2>1, RestIs DEF Rest
  <2> QED
    BY <2>2, QueueParts
<1>6. Timed(q)
  BY <1>1, <1>3, <1>5 DEF Timed
<1>7. q.lastack <= r
  BY <1>3
<1>8. /\ q \in Pcb /\ q.snd_nxt = p.snd_nxt /\ q.snd_lbb = p.snd_lbb
      /\ q.fin = p.fin /\ q.wire = p.wire
  BY <1>3
<1>9. Bounded(q, r)
  BY <1>4, <1>6, <1>7, <1>8, BoundedFrom
<1> QED
  BY <1>9 DEF q

\* tcp_receive
LEMMA ReceiveBounded ==
  ASSUME NEW r, NEW p, Bounded(p, r), NEW a \in Nat, a <= r, NEW w \in Windows, NEW busy
  PROVE  Bounded(tcp_receive(p, a, w, busy), r)
<1> DEFINE q == [p EXCEPT !.probe = 0]
           z == [q EXCEPT !.dupacks = 0]
<1>1. p \in Pcb /\ p.lastack \in Nat
  BY BoundedQueues, PcbParts
<1>2. 0 \in 0 .. MaxRtx /\ 0 \in 0 .. 3
  BY Const
<1>3. /\ q \in Pcb /\ q.snd_lbb = p.snd_lbb /\ q.fin = p.fin /\ q.snd_nxt = p.snd_nxt
      /\ q.wire = p.wire /\ q.lastack = p.lastack /\ q.unsent = p.unsent
      /\ q.unacked = p.unacked /\ q.persist = p.persist /\ q.rtime = p.rtime
  BY <1>1, <1>2 DEF Pcb
<1>4. tcp_receive(p, a, w, busy) = IF a > p.lastack THEN NewAck(q, a, w)
                                   ELSE IF a = p.lastack THEN DuplicateAck(q, w, busy) ELSE z
  BY DEF tcp_receive
<1> HIDE DEF q
<1>5. Bounded(q, r)
  BY <1>3, BoundedSame
<1>6. /\ z \in Pcb /\ z.snd_lbb = q.snd_lbb /\ z.fin = q.fin /\ z.snd_nxt = q.snd_nxt
      /\ z.wire = q.wire /\ z.lastack = q.lastack /\ z.unsent = q.unsent
      /\ z.unacked = q.unacked /\ z.persist = q.persist /\ z.rtime = q.rtime
  BY <1>2, <1>3 DEF Pcb
<1> HIDE DEF z
<1>7. Bounded(z, r)
  BY <1>5, <1>6, BoundedSame
<1> QED
  BY <1>1, <1>3, <1>4, <1>5, <1>7, NewAckBounded, DuplicateBounded

\* What a probe carries.
Probe(g) == IF g.len = 0 THEN g ELSE Seg(g.seq, 1, FALSE)

\* The probe of g is sent, or fails in IP or for lack of memory.
Probed(p, q, g) ==
  \/ q.snd_nxt = p.snd_nxt /\ q.wire = p.wire
  \/ /\ q.snd_nxt = IF p.snd_nxt < g.seq + 1 THEN g.seq + 1 ELSE p.snd_nxt
     /\ q.wire = p.wire \/ q.wire = p.wire \cup {Probe(g)}

\* The pcb after a probe.
LEMMA ProbeIs ==
  ASSUME NEW r, NEW p, Bounded(p, r), p.unsent # <<>>, p.probe < MaxRtx, NEW e,
         NEW q, q = tcp_zero_window_probe(p, e), NEW g, g = p.unsent[1]
  PROVE  /\ q \in Pcb /\ g \in Segment /\ Placed(g, p)
         /\ q.unsent = p.unsent /\ q.unacked = p.unacked /\ q.lastack = p.lastack
         /\ q.snd_lbb = p.snd_lbb /\ q.snd_wnd = p.snd_wnd /\ q.rtime = p.rtime
         /\ q.persist = p.persist /\ q.dupacks = p.dupacks /\ q.infr = p.infr /\ q.fin = p.fin
         /\ q.open = p.open
         /\ Probed(p, q, g)
<1>1. /\ p \in Pcb /\ QueuePlaced(p.unsent, p) /\ p.unsent \in Seq(Segment)
      /\ p.snd_nxt \in Nat /\ p.snd_nxt <= Bytes + 1 /\ p.probe \in Nat /\ p.wire \subseteq Segment
  BY BoundedQueues, PcbParts
<1>2. g \in Segment /\ Placed(g, p)
  BY <1>1, QueueParts DEF QueuePlaced
<1> DEFINE b == p.probe + 1
           n == IF p.snd_nxt < g.seq + 1 THEN g.seq + 1 ELSE p.snd_nxt
           x == Probe(g)
           w == IF e.out > 0 THEN p.wire \cup {x} ELSE p.wire
           A == [p EXCEPT !.probe = b]
           B == [A EXCEPT !.snd_nxt = n, !.wire = w]
<1>3. q = IF ~e.mem THEN A ELSE B
  <2>1. A.snd_nxt = p.snd_nxt /\ A.wire = p.wire
    BY <1>1 DEF Pcb
  <2> QED
    BY <2>1 DEF tcp_zero_window_probe, Probe
<1>4. b \in 0 .. MaxRtx /\ n \in 0 .. Bytes + 1
  BY <1>1, <1>2, SegParts, Const
<1>5. x \in Segment
  <2>1. g.seq \in Nat /\ g.seq <= Bytes /\ 1 \in Nat /\ 1 <= MSS
    BY <1>2, SegParts, Const
  <2> QED
    BY <1>2, <2>1 DEF Seg, Segment, Probe
<1>6. w \in SUBSET Segment /\ (w = p.wire \/ w = p.wire \cup {x})
  BY <1>1, <1>5
<1> HIDE DEF b, n, x, w
<1>7. /\ A \in Pcb
      /\ A.unsent = p.unsent /\ A.unacked = p.unacked /\ A.lastack = p.lastack
      /\ A.snd_lbb = p.snd_lbb /\ A.snd_wnd = p.snd_wnd /\ A.rtime = p.rtime
      /\ A.persist = p.persist /\ A.dupacks = p.dupacks /\ A.infr = p.infr /\ A.fin = p.fin
      /\ A.open = p.open /\ A.snd_nxt = p.snd_nxt /\ A.wire = p.wire
  BY <1>1, <1>4 DEF Pcb
<1> HIDE DEF A
<1>8. /\ B \in Pcb
      /\ B.unsent = A.unsent /\ B.unacked = A.unacked /\ B.lastack = A.lastack
      /\ B.snd_lbb = A.snd_lbb /\ B.snd_wnd = A.snd_wnd /\ B.rtime = A.rtime
      /\ B.persist = A.persist /\ B.dupacks = A.dupacks /\ B.infr = A.infr /\ B.fin = A.fin
      /\ B.open = A.open /\ B.snd_nxt = n /\ B.wire = w
  <2>1. A \in Pcb
    BY <1>7
  <2> QED
    BY <1>4, <1>6, <2>1 DEF Pcb
<1> HIDE DEF B
<1>9. CASE q = A
  BY <1>2, <1>7, <1>9 DEF Probed
<1>10. CASE q = B
  <2>1. q.snd_nxt = n /\ (q.wire = p.wire \/ q.wire = p.wire \cup {x})
    BY <1>6, <1>8, <1>10
  <2>2. q.snd_nxt = IF p.snd_nxt < g.seq + 1 THEN g.seq + 1 ELSE p.snd_nxt
    BY <2>1 DEF n
  <2>3. Probed(p, q, g)
    BY <2>1, <2>2 DEF Probed, x
  <2> QED
    BY <1>2, <1>7, <1>8, <1>10, <2>3
<1> QED
  BY <1>3, <1>9, <1>10

\* A probe goes one byte beyond the window, never beyond what was written.
LEMMA ProbeBounded ==
  ASSUME NEW r, NEW p, Bounded(p, r), p.probe < MaxRtx, NEW e
  PROVE  Bounded(tcp_zero_window_probe(p, e), r)
<1> DEFINE g == p.unsent[1]
           q == tcp_zero_window_probe(p, e)
           x == Probe(g)
           n == IF p.snd_nxt < g.seq + 1 THEN g.seq + 1 ELSE p.snd_nxt
<1>1. CASE p.unsent = <<>>
  BY <1>1 DEF tcp_zero_window_probe
<1>2. CASE p.unsent # <<>>
  <2>1. /\ q \in Pcb /\ g \in Segment /\ Placed(g, p)
        /\ q.unsent = p.unsent /\ q.unacked = p.unacked /\ q.lastack = p.lastack
        /\ q.snd_lbb = p.snd_lbb /\ q.rtime = p.rtime /\ q.persist = p.persist /\ q.fin = p.fin
    BY <1>2, ProbeIs
  <2>2. \/ q.snd_nxt = p.snd_nxt /\ q.wire = p.wire
        \/ q.snd_nxt = n /\ (q.wire = p.wire \/ q.wire = p.wire \cup {x})
    <3>1. Probed(p, q, g)
      BY <1>2, ProbeIs
    <3> QED
      BY <3>1 DEF Probed
  <2> HIDE DEF q
  <2>3. /\ p \in Pcb /\ QueuePlaced(p.unsent, p) /\ QueuePlaced(p.unacked, p) /\ Timed(p) /\ Numbers(p, r)
        /\ p.snd_nxt \in Nat /\ p.wire \subseteq Segment /\ p.snd_lbb \in Nat /\ p.fin \in BOOLEAN
        /\ \A h \in p.wire : Placed(h, p) /\ End(h) <= p.snd_nxt
    BY BoundedQueues, PcbParts DEF Bounded, AllPlaced
  <2>4. /\ g.seq \in Nat /\ g.len \in Nat /\ g.fin \in BOOLEAN /\ g.seq <= Bytes
        /\ End(g) = IF g.fin THEN g.seq + g.len + 1 ELSE g.seq + g.len
    BY <2>1, SegParts
  <2>5. /\ g.seq + g.len <= p.snd_lbb /\ g.seq + g.len <= Bytes /\ (g.fin => p.fin)
        /\ (g.len = 0 => g.fin /\ g.seq = Bytes)
    BY <2>1 DEF Placed
  <2>6. Placed(x, p) /\ End(x) = g.seq + 1
    <3>1. CASE g.len = 0
      <4>1. x = g
        BY <3>1 DEF Probe
      <4>2. End(g) = g.seq + 1
        BY <2>4, <2>5, <3>1
      <4> QED
        BY <2>1, <4>1, <4>2
    <3>2. CASE g.len # 0
      <4>1. x.seq = g.seq /\ x.len = 1 /\ x.fin = FALSE
        BY <3>2 DEF Probe, Seg
      <4> HIDE DEF x
      <4>2. End(x) = g.seq + 1
        BY <2>4, <4>1 DEF End, TCPLEN
      <4>3. g.seq + 1 <= p.snd_lbb /\ g.seq + 1 <= Bytes
        BY <2>3, <2>4, <2>5, <3>2, Const
      <4> QED
        BY <4>1, <4>2, <4>3 DEF Placed
    <3> QED
      BY <3>1, <3>2
  <2> HIDE DEF x
  <2>7. /\ n \in Nat /\ n >= p.snd_nxt /\ n >= g.seq + 1 /\ (~p.fin /\ p.snd_nxt <= p.snd_lbb => n <= p.snd_lbb)
    BY <2>3, <2>4, <2>5
  <2> HIDE DEF g, n
  <2>8. q.snd_nxt \in Nat /\ q.snd_nxt >= p.snd_nxt /\ (~p.fin /\ p.snd_nxt <= p.snd_lbb => q.snd_nxt <= p.snd_lbb)
    BY <2>2, <2>3, <2>7
  <2>9. ASSUME NEW h PROVE Placed(h, q) <=> Placed(h, p)
    BY <2>1 DEF Placed
  <2>10. ASSUME NEW h \in q.wire PROVE Placed(h, q) /\ End(h) <= q.snd_nxt
    <3>1. CASE h \in p.wire
      <4>1. Placed(h, p) /\ End(h) <= p.snd_nxt /\ End(h) \in Nat
        BY <2>3, <3>1, SegParts
      <4> QED
        BY <2>3, <2>8, <2>9, <4>1
    <3>2. CASE h \notin p.wire
      <4>1. h = x /\ q.snd_nxt = n
        BY <2>2, <3>2
      <4> QED
        BY <2>6, <2>7, <2>9, <4>1
    <3> QED
      BY <3>1, <3>2
  <2>11. AllPlaced(q)
    BY <2>1, <2>3, <2>9, <2>10 DEF AllPlaced, QueuePlaced
  <2>12. Numbers(q, r)
    BY <2>1, <2>3, <2>8 DEF Numbers
  <2>13. Timed(q)
    BY <2>1, <2>3 DEF Timed
  <2>14. Bounded(q, r)
    BY <2>1, <2>11, <2>12, <2>13 DEF Bounded
  <2> QED
    BY <2>14 DEF q
<1> QED
  BY <1>1, <1>2

\* What tcp_split_unsent_seg makes of the unsent queue.
SplitInto(s, v, w) ==
  /\ v \in Seq(Segment) /\ Len(v) = Len(s) + 1
  /\ v[1].seq = s[1].seq /\ v[1].len = w /\ v[1].fin = s[1].fin
  /\ v[2].seq = s[1].seq + w /\ v[2].len = s[1].len - w /\ v[2].fin = s[1].fin
  /\ \A i \in 3 .. Len(v) : v[i] = s[i - 1]

\* The pcb after tcp_split_unsent_seg has cut the first unsent segment.
LEMMA SplitIs ==
  ASSUME NEW r, NEW p, Bounded(p, r), p.unsent # <<>>, p.snd_wnd < p.unsent[1].len,
         NEW q, q = tcp_split_unsent_seg(p)
  PROVE  /\ q \in Pcb /\ SplitInto(p.unsent, q.unsent, p.snd_wnd)
         /\ q.unacked = p.unacked /\ q.lastack = p.lastack /\ q.snd_nxt = p.snd_nxt
         /\ q.snd_lbb = p.snd_lbb /\ q.snd_wnd = p.snd_wnd /\ q.cwnd = p.cwnd /\ q.rtime = p.rtime
         /\ q.persist = p.persist /\ q.dupacks = p.dupacks /\ q.infr = p.infr /\ q.fin = p.fin
         /\ q.open = p.open /\ q.wire = p.wire
<1> DEFINE g == p.unsent[1]
           w == p.snd_wnd
           h == [g EXCEPT !.len = w]
           x == Seg(g.seq + w, g.len - w, g.fin)
           b == <<h, x>>
           t == Tail(p.unsent)
           v == b \o t
           Q == [p EXCEPT !.unsent = v]
<1>1. /\ p \in Pcb /\ QueuePlaced(p.unsent, p) /\ p.unsent \in Seq(Segment) /\ w \in Nat
      /\ Len(p.unsent) \in Nat /\ Len(p.unsent) > 0
  BY BoundedQueues, PcbParts, QueueParts
<1>2. g \in Segment /\ Placed(g, p)
  BY <1>1, QueueParts DEF QueuePlaced
<1>3. g.seq \in Nat /\ g.len \in Nat /\ g.len <= MSS /\ g.fin \in BOOLEAN /\ g.seq + g.len <= Bytes
  BY <1>2, SegParts DEF Placed
<1>4. q = Q
  <2>1. w < g.len /\ ~(g.len <= w)
    BY <1>1, <1>3
  <2> QED
    BY <2>1 DEF tcp_split_unsent_seg
<1>5. w < g.len
  OBVIOUS
<1> HIDE DEF g, w
<1>6. w \in 0 .. MSS /\ g.seq + w \in Nat /\ g.seq + w <= Bytes /\ g.len - w \in Nat /\ g.len - w <= MSS
  BY <1>1, <1>3, <1>5, Const
<1>7. /\ h \in Segment /\ h.seq = g.seq /\ h.len = w /\ h.fin = g.fin
  BY <1>2, <1>6 DEF Segment
<1>8. /\ x \in Segment /\ x.seq = g.seq + w /\ x.len = g.len - w /\ x.fin = g.fin
  <2>1. g.seq + w \in 0 .. Bytes /\ g.len - w \in 0 .. MSS
    BY <1>6, Const
  <2> QED
    BY <1>3, <2>1 DEF Segment, Seg
<1> HIDE DEF h, x
<1>9. b \in Seq(Segment) /\ Len(b) = 2 /\ b[1] = h /\ b[2] = x
  BY <1>7, <1>8
<1>10. /\ t \in Seq(Segment) /\ Len(t) = Len(p.unsent) - 1
       /\ \A i \in 1 .. Len(t) : t[i] = p.unsent[i + 1]
  BY <1>1, HeadTailProperties
<1> HIDE DEF b, t
<1>11. /\ v \in Seq(Segment) /\ Len(v) = Len(b) + Len(t)
       /\ \A i \in 1 .. Len(b) : v[i] = b[i]
       /\ \A i \in 1 .. Len(v) : Len(b) < i => v[i] = t[i - Len(b)] /\ i - Len(b) \in 1 .. Len(t)
  <2>1. b \in Seq(Segment) /\ t \in Seq(Segment)
    BY <1>9, <1>10
  <2> QED
    BY <2>1, Joined
<1> HIDE DEF v
<1>12. v[1] = h /\ v[2] = x /\ Len(v) = Len(p.unsent) + 1
  BY <1>1, <1>9, <1>10, <1>11
<1>13. ASSUME NEW i \in 3 .. Len(v) PROVE v[i] = p.unsent[i - 1]
  <2>1. PICK j \in 1 .. Len(t) : j = i - 2 /\ v[i] = t[j]
    BY <1>1, <1>9, <1>11, <1>12
  <2>2. t[j] = p.unsent[j + 1] /\ j + 1 = i - 1
    BY <1>10, <2>1
  <2> QED
    BY <2>1, <2>2
<1>14. SplitInto(p.unsent, v, p.snd_wnd)
  <2>1. SplitInto(p.unsent, v, w)
    BY <1>7, <1>8, <1>11, <1>12, <1>13 DEF SplitInto, g
  <2> QED
    BY <2>1 DEF w
<1>15. /\ Q \in Pcb /\ Q.unsent = v
       /\ Q.unacked = p.unacked /\ Q.lastack = p.lastack /\ Q.snd_nxt = p.snd_nxt
       /\ Q.snd_lbb = p.snd_lbb /\ Q.snd_wnd = p.snd_wnd /\ Q.cwnd = p.cwnd /\ Q.rtime = p.rtime
       /\ Q.persist = p.persist /\ Q.dupacks = p.dupacks /\ Q.infr = p.infr /\ Q.fin = p.fin
       /\ Q.open = p.open /\ Q.wire = p.wire
  BY <1>1, <1>11 DEF Pcb
<1> HIDE DEF Q
<1> QED
  BY <1>4, <1>14, <1>15

\* Both parts of a cut segment are where the segment was.
LEMMA SplitBounded ==
  ASSUME NEW r, NEW p, Bounded(p, r), p.unsent # <<>>, p.snd_wnd > 0
  PROVE  Bounded(tcp_split_unsent_seg(p), r)
<1> DEFINE q == tcp_split_unsent_seg(p)
           s == p.unsent
           v == q.unsent
<1>1. /\ p \in Pcb /\ QueuePlaced(s, p) /\ QueuePlaced(p.unacked, p) /\ s \in Seq(Segment)
      /\ Len(s) \in Nat /\ p.snd_wnd \in Nat /\ Timed(p) /\ p.lastack <= r /\ p.snd_lbb \in Nat
  BY BoundedQueues, PcbParts, QueueParts
<1>2. s[1] \in Segment /\ Placed(s[1], p)
  BY <1>1, QueueParts DEF QueuePlaced
<1>3. s[1].seq \in Nat /\ s[1].len \in Nat
  BY <1>2, SegParts
<1>4. CASE s[1].len <= p.snd_wnd
  BY <1>4 DEF tcp_split_unsent_seg
<1>5. CASE p.snd_wnd < s[1].len
  <2>1. /\ q \in Pcb /\ SplitInto(s, v, p.snd_wnd)
        /\ q.unacked = p.unacked /\ q.lastack = p.lastack /\ q.snd_nxt = p.snd_nxt
        /\ q.snd_lbb = p.snd_lbb /\ q.rtime = p.rtime
        /\ q.persist = p.persist /\ q.fin = p.fin /\ q.wire = p.wire
    BY <1>5, SplitIs
  <2> HIDE DEF q, v
  <2>2. PICK a \in Nat, b \in Nat, w \in Nat : a = s[1].seq /\ b = s[1].len /\ w = p.snd_wnd /\ w > 0 /\ w < b
    BY <1>1, <1>3, <1>5
  <2>3. /\ v[1].seq = a /\ v[1].len = w /\ v[1].fin = s[1].fin
        /\ v[2].seq = a + w /\ v[2].len = b - w /\ v[2].fin = s[1].fin
    BY <2>1, <2>2 DEF SplitInto
  <2>4. a + b <= p.snd_lbb /\ a + b <= Bytes /\ (s[1].fin => p.fin)
    BY <1>2, <2>2 DEF Placed
  <2>5. Placed(v[1], p) /\ Placed(v[2], p)
    <3>1. /\ a + w <= p.snd_lbb /\ a + w <= Bytes /\ w # 0 /\ b - w # 0
          /\ (a + w) + (b - w) <= p.snd_lbb /\ (a + w) + (b - w) <= Bytes
      <4>1. PICK l \in Nat : l = p.snd_lbb
        BY <1>1
      <4>2. w > 0 /\ w < b /\ a + b <= l /\ a + b <= Bytes /\ Bytes \in Nat
        BY <2>2, <2>4, <4>1, Const
      <4>3. /\ a + w <= l /\ a + w <= Bytes /\ w # 0 /\ b - w # 0
            /\ (a + w) + (b - w) <= l /\ (a + w) + (b - w) <= Bytes
        BY <4>2
      <4> QED
        BY <4>1, <4>3
    <3>2. v[1].seq + v[1].len <= p.snd_lbb /\ v[1].seq + v[1].len <= Bytes /\ v[1].len # 0
      BY <2>3, <3>1
    <3>3. v[2].seq + v[2].len <= p.snd_lbb /\ v[2].seq + v[2].len <= Bytes /\ v[2].len # 0
      BY <2>3, <3>1
    <3> QED
      BY <2>3, <2>4, <3>2, <3>3 DEF Placed
  <2>6. ASSUME NEW i \in 1 .. Len(v) PROVE Placed(v[i], p)
    <3>1. CASE i <= 2
      BY <2>5, <3>1
    <3>2. CASE i > 2
      <4>1. PICK j \in 1 .. Len(s) : j = i - 1 /\ v[i] = s[j]
        BY <1>1, <2>1, <3>2 DEF SplitInto
      <4> QED
        BY <1>1, <4>1 DEF QueuePlaced
    <3>3. i \in Nat
      OBVIOUS
    <3> QED
      BY <3>1, <3>2, <3>3
  <2>7. QueuePlaced(v, p)
    BY <2>6 DEF QueuePlaced
  <2>8. Timed(q)
    BY <1>1, <2>1 DEF Timed
  <2>9. Bounded(q, r)
    BY <1>1, <2>1, <2>7, <2>8, BoundedFrom DEF v
  <2> QED
    BY <2>9 DEF q
<1> QED
  BY <1>1, <1>3, <1>4, <1>5

\* tcp_rexmit_rto_prepare and what tcp_slowtmr sets.
Expired(p) == [tcp_rexmit_rto_prepare(p) EXCEPT !.rtime = 0, !.cwnd = MSS, !.nrtx = @ + 1]

\* The pcb after the retransmission timer has expired.
LEMMA ExpiredIs ==
  ASSUME NEW r, NEW p, Bounded(p, r), p.nrtx < MaxRtx, NEW q, q = Expired(p)
  PROVE  /\ q \in Pcb /\ q.unsent = p.unacked \o p.unsent /\ q.unacked = <<>>
         /\ q.lastack = p.lastack /\ q.snd_nxt = p.snd_nxt /\ q.rtime = 0
         /\ q.snd_lbb = p.snd_lbb /\ q.snd_wnd = p.snd_wnd /\ q.persist = p.persist
         /\ q.dupacks = p.dupacks /\ q.infr = p.infr /\ q.fin = p.fin
         /\ q.open = p.open /\ q.wire = p.wire
<1> DEFINE m == Len(p.unacked)
           s == p.unacked \o p.unsent
           d == End(p.unacked[m])
           A == [p EXCEPT !.unsent = s, !.unacked = <<>>, !.rto_end = d]
           P == tcp_rexmit_rto_prepare(p)
           n == P.nrtx + 1
           Q == [P EXCEPT !.rtime = 0, !.cwnd = MSS, !.nrtx = n]
<1>1. /\ p \in Pcb /\ QueuePlaced(p.unacked, p) /\ p.unsent \in Seq(Segment)
      /\ p.unacked \in Seq(Segment) /\ p.nrtx \in Nat
  BY BoundedQueues, PcbParts
<1>2. s \in Seq(Segment) /\ (p.unacked = <<>> => s = p.unsent) /\ <<>> \in Seq(Segment)
  <2>1. s \in Seq(Segment)
    BY <1>1, ConcatProperties
  <2>2. <<>> \o p.unsent = p.unsent
    BY <1>1, ConcatEmptySeq
  <2> QED
    BY <2>1, <2>2, EmptySeq
<1>3. p.unacked # <<>> => d \in -1 .. Bytes + 1
  <2> SUFFICES ASSUME p.unacked # <<>> PROVE d \in -1 .. Bytes + 1
    OBVIOUS
  <2>1. p.unacked[m] \in Segment /\ Placed(p.unacked[m], p)
    BY <1>1, QueueParts DEF QueuePlaced
  <2>2. /\ p.unacked[m].seq \in Nat /\ p.unacked[m].len \in Nat /\ p.unacked[m].fin \in BOOLEAN
        /\ d = IF p.unacked[m].fin THEN p.unacked[m].seq + p.unacked[m].len + 1
               ELSE p.unacked[m].seq + p.unacked[m].len
    BY <2>1, SegParts
  <2>3. p.unacked[m].seq + p.unacked[m].len <= Bytes
    BY <2>1 DEF Placed
  <2> QED
    BY <2>2, <2>3, Const
<1>4. P = IF p.unacked = <<>> THEN p ELSE A
  BY DEF tcp_rexmit_rto_prepare
<1>5. q = Q
  BY DEF Expired
<1> HIDE DEF s, d
<1>6. p.unacked # <<>> =>
      /\ A \in Pcb /\ A.unsent = s /\ A.unacked = <<>> /\ A.nrtx = p.nrtx
      /\ A.lastack = p.lastack /\ A.snd_nxt = p.snd_nxt /\ A.snd_lbb = p.snd_lbb
      /\ A.snd_wnd = p.snd_wnd /\ A.persist = p.persist /\ A.dupacks = p.dupacks
      /\ A.infr = p.infr /\ A.fin = p.fin /\ A.open = p.open /\ A.wire = p.wire
  BY <1>1, <1>2, <1>3 DEF Pcb
<1> HIDE DEF A, P
<1>7. /\ P \in Pcb /\ P.unsent = s /\ P.unacked = <<>> /\ P.nrtx = p.nrtx
      /\ P.lastack = p.lastack /\ P.snd_nxt = p.snd_nxt /\ P.snd_lbb = p.snd_lbb
      /\ P.snd_wnd = p.snd_wnd /\ P.persist = p.persist /\ P.dupacks = p.dupacks
      /\ P.infr = p.infr /\ P.fin = p.fin /\ P.open = p.open /\ P.wire = p.wire
  BY <1>1, <1>2, <1>4, <1>6
<1>8. n \in 0 .. MaxRtx /\ MSS \in MSS .. SndBuf
  BY <1>1, <1>7, Const
<1> HIDE DEF n
<1>9. /\ Q \in Pcb /\ Q.unsent = P.unsent /\ Q.unacked = P.unacked /\ Q.rtime = 0
      /\ Q.lastack = P.lastack /\ Q.snd_nxt = P.snd_nxt /\ Q.snd_lbb = P.snd_lbb
      /\ Q.snd_wnd = P.snd_wnd /\ Q.persist = P.persist /\ Q.dupacks = P.dupacks
      /\ Q.infr = P.infr /\ Q.fin = P.fin /\ Q.open = P.open /\ Q.wire = P.wire
  <2>1. P \in Pcb
    BY <1>7
  <2> QED
    BY <1>8, <2>1 DEF Pcb
<1> HIDE DEF Q
<1> QED
  BY <1>5, <1>7, <1>9 DEF s

\* What was in flight keeps its bounds in the unsent queue.
LEMMA ExpiredBounded ==
  ASSUME NEW r, NEW p, Bounded(p, r), p.nrtx < MaxRtx
  PROVE  Bounded(Expired(p), r)
<1> DEFINE q == Expired(p)
<1>1. /\ p \in Pcb /\ QueuePlaced(p.unacked, p) /\ QueuePlaced(p.unsent, p) /\ p.lastack <= r
      /\ p.unsent \in Seq(Segment) /\ p.unacked \in Seq(Segment)
  BY BoundedQueues
<1>2. /\ q \in Pcb /\ q.unsent = p.unacked \o p.unsent /\ q.unacked = <<>>
      /\ q.lastack = p.lastack /\ q.snd_nxt = p.snd_nxt /\ q.rtime = 0
      /\ q.snd_lbb = p.snd_lbb /\ q.persist = p.persist /\ q.fin = p.fin /\ q.wire = p.wire
  BY ExpiredIs
<1> HIDE DEF q
<1>3. QueuePlaced(q.unsent, p)
  BY <1>1, <1>2, PlacedJoin
<1>4. QueuePlaced(q.unacked, p)
  BY <1>2 DEF QueuePlaced
<1>5. Timed(q)
  BY <1>2 DEF Timed
<1>6. Bounded(q, r)
  BY <1>1, <1>2, <1>3, <1>4, <1>5, BoundedFrom
<1> QED
  BY <1>6 DEF q

\* The part of the invariant that needs no assumption on the peer or on the
\* transmit path.
Kept == Bounded(k, rcv) /\ acks \in 0 .. MaxAcks

\* A new connection has sent nothing.
LEMMA KeptInit == Init => Kept
<1> SUFFICES ASSUME Init PROVE Kept
  OBVIOUS
<1>1. PICK w \in Windows :
        k = [unsent |-> <<>>, unacked |-> <<>>, lastack |-> 0, snd_nxt |-> 0,
             snd_lbb |-> 0, snd_wnd |-> w, cwnd |-> SndBuf, rtime |-> -1,
             nrtx |-> 0, rto_end |-> -1, persist |-> FALSE, probe |-> 0,
             dupacks |-> 0, infr |-> FALSE, fin |-> FALSE, open |-> TRUE, wire |-> {}]
  BY DEF Init
<1>2. rcv = 0 /\ acks = 0
  BY DEF Init
<1>3. /\ <<>> \in Seq(Segment) /\ 0 \in 0 .. Bytes + 1 /\ SndBuf \in MSS .. SndBuf /\ -1 \in {-1, 0}
      /\ 0 \in 0 .. MaxRtx /\ -1 \in -1 .. Bytes + 1 /\ 0 \in 0 .. 3 /\ {} \in SUBSET Segment
      /\ 0 \in 0 .. MaxAcks
  BY Const, EmptySeq
<1>4. k \in Pcb
  BY <1>1, <1>3 DEF Pcb
<1>5. /\ k.unsent = <<>> /\ k.unacked = <<>> /\ k.wire = {} /\ k.lastack = 0 /\ k.snd_nxt = 0
      /\ k.snd_lbb = 0 /\ ~k.fin
  BY <1>1
<1>6. AllPlaced(k)
  BY <1>5 DEF AllPlaced, QueuePlaced
<1>7. Numbers(k, rcv)
  BY <1>2, <1>5, Const DEF Numbers
<1>8. Timed(k)
  BY <1>5 DEF Timed
<1> QED
  BY <1>2, <1>3, <1>4, <1>6, <1>7, <1>8 DEF Kept, Bounded

\* The sent callback, if there is one.
LEMMA CallbackBounded ==
  ASSUME NEW r, NEW p, NEW q, Bounded(q, r), NEW a, NEW n \in Writes(q), NEW e
  PROVE  Bounded(Callback(p, q, a, n, e), r)
BY AppSendBounded DEF Callback

\* Every step of the pcb, the network and the peer keeps the bounds.
LEMMA KeptNext ==
  ASSUME Kept, [Next]_vars
  PROVE  Kept'
<1>1. Bounded(k, rcv) /\ acks \in 0 .. MaxAcks /\ k \in Pcb /\ rcv \in Nat
  BY BoundedQueues DEF Kept
<1>2. CASE Application
  <2>1. PICK n \in Writes(k), e \in Env : k' = tcp_output(AppSend(k, n, e), e)
    BY <1>2 DEF Application
  <2>2. Bounded(k', rcv)
    BY <1>1, <2>1, AppSendBounded, OutputBounded
  <2> QED
    BY <1>1, <1>2, <2>2 DEF Kept, Application
<1>3. CASE AckArrives
  <2>1. PICK a \in 0 .. rcv, w \in Windows, busy \in BOOLEAN :
          \E n \in Writes(tcp_receive(k, a, w, busy)), e \in Env :
             k' = tcp_output(Callback(k, tcp_receive(k, a, w, busy), a, n, e), e)
    BY <1>3 DEF AckArrives
  <2>2. PICK p : p = tcp_receive(k, a, w, busy)
    OBVIOUS
  <2>3. PICK n \in Writes(p), e \in Env : k' = tcp_output(Callback(k, p, a, n, e), e)
    BY <2>1, <2>2
  <2>4. a \in Nat /\ a <= rcv
    BY <1>1
  <2>5. Bounded(p, rcv)
    BY <1>1, <2>2, <2>4, ReceiveBounded
  <2>6. Bounded(k', rcv)
    BY <2>3, <2>5, CallbackBounded, OutputBounded
  <2>7. rcv' = rcv /\ acks' \in 0 .. MaxAcks
    BY <1>1, <1>3, Const DEF AckArrives
  <2> QED
    BY <2>6, <2>7 DEF Kept
<1>4. ASSUME NEW e \in Env, PersistTmr(e) PROVE Kept'
  <2>1. /\ k.probe < MaxRtx /\ rcv' = rcv /\ acks' = acks
        /\ k' = IF k.snd_wnd = 0 THEN tcp_zero_window_probe(k, e)
                ELSE IF k.unsent = <<>> \/ ~e.mem THEN k
                ELSE tcp_output(tcp_split_unsent_seg(k), e)
    BY <1>4 DEF PersistTmr
  <2>2. CASE k' = tcp_zero_window_probe(k, e)
    BY <1>1, <2>1, <2>2, ProbeBounded DEF Kept
  <2>3. CASE k' = k
    BY <1>1, <2>1, <2>3 DEF Kept
  <2>4. CASE k.snd_wnd # 0 /\ k.unsent # <<>> /\ k' = tcp_output(tcp_split_unsent_seg(k), e)
    <3>1. k.snd_wnd > 0
      BY <1>1, <2>4, PcbParts
    <3>2. Bounded(tcp_split_unsent_seg(k), rcv)
      BY <1>1, <2>4, <3>1, SplitBounded
    <3> QED
      BY <1>1, <2>1, <2>4, <3>2, OutputBounded DEF Kept
  <2> QED
    BY <2>1, <2>2, <2>3, <2>4
<1>5. ASSUME NEW e \in Env, RtoTmr(e) PROVE Kept'
  <2>1. k.nrtx < MaxRtx /\ rcv' = rcv /\ acks' = acks /\ k' = tcp_output(Expired(k), e)
    BY <1>5 DEF RtoTmr, Expired
  <2>2. Bounded(Expired(k), rcv)
    BY <1>1, <2>1, ExpiredBounded
  <2> QED
    BY <1>1, <2>1, <2>2, OutputBounded DEF Kept
<1>6. CASE GiveUp
  <2> DEFINE q == [k EXCEPT !.open = FALSE, !.unsent = <<>>, !.unacked = <<>>]
  <2>1. k' = q /\ rcv' = rcv /\ acks' = acks
    BY <1>6 DEF GiveUp
  <2>2. /\ q \in Pcb /\ q.snd_lbb = k.snd_lbb /\ q.fin = k.fin /\ q.snd_nxt = k.snd_nxt
        /\ q.wire = k.wire /\ q.lastack = k.lastack /\ q.unsent = <<>> /\ q.unacked = <<>>
    <3>1. <<>> \in Seq(Segment)
      BY EmptySeq
    <3> QED
      BY <1>1, <3>1 DEF Pcb
  <2> HIDE DEF q
  <2>3. Timed(q) /\ QueuePlaced(q.unsent, k) /\ QueuePlaced(q.unacked, k)
    BY <2>2 DEF Timed, QueuePlaced
  <2>4. q.lastack <= rcv
    BY <1>1, <2>2, BoundedQueues
  <2>5. Bounded(q, rcv)
    BY <1>1, <2>2, <2>3, <2>4, BoundedFrom
  <2> QED
    BY <1>1, <2>1, <2>5 DEF Kept
<1>7. CASE PeerReceives
  <2>1. PICK g \in k.wire : \E x \in rcv + 1 .. End(g) : rcv' = x
    BY <1>7 DEF PeerReceives
  <2>2. k' = k /\ acks' = acks
    BY <1>7 DEF PeerReceives
  <2>3. g \in Segment /\ End(g) <= k.snd_nxt /\ End(g) \in Nat /\ k.snd_nxt \in Nat /\ k.lastack \in Nat
    BY <1>1, PcbParts, SegParts DEF Bounded, AllPlaced
  <2>4. rcv' \in Nat /\ rcv <= rcv' /\ rcv' <= k.snd_nxt
    BY <1>1, <2>1, <2>3
  <2>5. Numbers(k, rcv')
    BY <1>1, <2>3, <2>4 DEF Bounded, Numbers
  <2>6. Bounded(k, rcv')
    BY <1>1, <2>5 DEF Bounded
  <2> QED
    BY <1>1, <2>2, <2>6 DEF Kept
<1>8. CASE UNCHANGED vars
  BY <1>8 DEF Kept, vars, Bounded, AllPlaced, QueuePlaced, Placed, Numbers, Timed
<1> QED
  BY <1>2, <1>3, <1>4, <1>5, <1>6, <1>7, <1>8 DEF Next

\* From the invariant to TimersSafe.
LEMMA KeptSafe == Kept => TimersSafe
<1> SUFFICES ASSUME Kept PROVE TimersSafe
  OBVIOUS
<1>1. k \in Pcb /\ Timed(k) /\ Numbers(k, rcv) /\ rcv \in Nat /\ k.snd_nxt \in Nat /\ k.snd_nxt <= Bytes + 1
  BY BoundedQueues, PcbParts DEF Kept
<1>2. TypeOK
  BY <1>1, Const DEF TypeOK, Kept, Numbers
<1> QED
  BY <1>1, <1>2 DEF TimersSafe, PersistNoFlight, FlightTimed, Timed

\* Whatever the network, the peer's window, the memory and the transmit path do:
\* the pcb keeps its types, the persist timer never runs with data in flight,
\* and data in flight always has its retransmission timer.
THEOREM TimersKept == Spec => []TimersSafe
<1>1. Init => Kept
  BY KeptInit
<1>2. Kept /\ [Next]_vars => Kept'
  BY KeptNext
<1> QED
  BY <1>1, <1>2, KeptSafe, PTL DEF Spec

\* The queues hold exactly what is not acknowledged.
Whole(p) == Exact(p.unacked \o p.unsent, p.lastack, p.snd_lbb, p.snd_wnd)

\* What is in flight is within the window.
Edge(p) == \A i \in 1 .. Len(p.unacked) :
              p.unacked[i].seq + p.unacked[i].len <= p.lastack + p.snd_wnd

\* Whole needs more to be inductive: what tcp_rexmit_fast takes out of the flight
\* must go out again at once, so the window must still allow it; n ACKs bring at
\* most n duplicates.
Sound(p, n) == Whole(p) /\ (~Shrinks => Edge(p)) /\ p.dupacks <= n

\* What Sound is about.
LEMMA SoundParts ==
  ASSUME NEW r, NEW p, Bounded(p, r), NEW Q, Q = p.unacked \o p.unsent
  PROVE  /\ p.unacked \in Seq(Segment) /\ p.unsent \in Seq(Segment) /\ Q \in Seq(Segment)
         /\ p.lastack \in Nat /\ p.snd_lbb \in Nat /\ p.snd_wnd \in Nat /\ p.dupacks \in Nat
         /\ QueuePlaced(Q, p)
<1>1. /\ p \in Pcb /\ QueuePlaced(p.unsent, p) /\ QueuePlaced(p.unacked, p)
      /\ p.unsent \in Seq(Segment) /\ p.unacked \in Seq(Segment)
  BY BoundedQueues
<1>2. Q \in Seq(Segment) /\ QueuePlaced(Q, p)
  BY <1>1, ConcatProperties, PlacedJoin
<1> QED
  BY <1>1, <1>2, PcbParts

\* Steps that leave the queues or open the window.
LEMMA SoundSame ==
  ASSUME NEW r, NEW p, Bounded(p, r), NEW n, Sound(p, n), NEW q,
         q.unacked = p.unacked, q.unsent = p.unsent, q.lastack = p.lastack,
         q.snd_lbb = p.snd_lbb, q.snd_wnd \in Nat, q.snd_wnd >= p.snd_wnd, NEW m, q.dupacks <= m
  PROVE  Sound(q, m)
<1> DEFINE Q == p.unacked \o p.unsent
<1>1. /\ Q \in Seq(Segment) /\ p.lastack \in Nat /\ p.snd_lbb \in Nat /\ p.snd_wnd \in Nat
      /\ p.unacked \in Seq(Segment)
  BY SoundParts
<1>2. Exact(Q, p.lastack, p.snd_lbb, p.snd_wnd) /\ Q = q.unacked \o q.unsent
  BY DEF Sound, Whole
<1> HIDE DEF Q
<1>3. Exact(Q, p.lastack, p.snd_lbb, q.snd_wnd)
  BY <1>1, <1>2, ExactOpens
<1>4. Whole(q)
  BY <1>2, <1>3 DEF Whole
<1>5. Edge(p) => Edge(q)
  <2> SUFFICES ASSUME Edge(p), NEW i \in 1 .. Len(p.unacked)
               PROVE  p.unacked[i].seq + p.unacked[i].len <= p.lastack + q.snd_wnd
    BY DEF Edge
  <2>1. p.unacked[i].seq + p.unacked[i].len <= p.lastack + p.snd_wnd
    BY DEF Edge
  <2>2. p.unacked[i].seq \in Nat /\ p.unacked[i].len \in Nat
    BY <1>1, QueueParts, SegParts
  <2> QED
    BY <1>1, <2>1, <2>2
<1> QED
  BY <1>4, <1>5 DEF Sound

\* The first unsent segment goes behind those in flight.
LEMMA SendOneSound ==
  ASSUME NEW r, NEW p, Bounded(p, r), NEW n, Sound(p, n), p.unsent # <<>>, Fits(p, p.unsent[1])
  PROVE  Sound(SendOne(p), n)
<1> DEFINE g == p.unsent[1]
           q == SendOne(p)
<1>1. /\ p \in Pcb /\ p.unacked \in Seq(Segment) /\ p.unsent \in Seq(Segment)
      /\ p.lastack \in Nat /\ p.snd_wnd \in Nat /\ p.cwnd \in Nat
  BY BoundedQueues, PcbParts
<1>2. /\ g \in Segment /\ q.unsent = Tail(p.unsent)
      /\ q.unacked = IF p.unacked = <<>> \/ p.unacked[Len(p.unacked)].seq <= g.seq
                     THEN Append(p.unacked, g) ELSE Insert(p.unacked, g)
      /\ q.lastack = p.lastack /\ q.snd_lbb = p.snd_lbb /\ q.snd_wnd = p.snd_wnd
      /\ q.dupacks = p.dupacks
  BY <1>1, SendOneIs
<1> HIDE DEF q
<1>3. Len(p.unacked) \in Nat /\ Len(p.unsent) \in Nat /\ 1 \in 1 .. Len(p.unsent)
      /\ (p.unacked # <<>> => Len(p.unacked) \in 1 .. Len(p.unacked) /\ p.unacked[Len(p.unacked)] \in Segment)
  BY <1>1, QueueParts
<1>4. p.unacked = <<>> \/ p.unacked[Len(p.unacked)].seq <= g.seq
  <2> SUFFICES ASSUME p.unacked # <<>> PROVE p.unacked[Len(p.unacked)].seq <= g.seq
    OBVIOUS
  <2>1. Chain(p.unacked \o p.unsent)
    BY DEF Sound, Whole, Exact
  <2>2. After(p.unacked[Len(p.unacked)], g)
    BY <1>1, <1>3, <2>1, ChainParts
  <2> HIDE DEF g
  <2>3. PICK x \in Segment : x = p.unacked[Len(p.unacked)]
    BY <1>3
  <2>4. x.seq + x.len <= g.seq /\ x.seq \in Nat /\ x.len \in Nat /\ g.seq \in Nat
    BY <1>2, <2>2, <2>3, SegParts DEF After
  <2>5. x.seq <= g.seq
    BY <2>4
  <2> QED
    BY <2>3, <2>5
<1>5. q.unacked = Append(p.unacked, g)
  BY <1>2, <1>4
<1>6. q.unacked \o q.unsent = p.unacked \o p.unsent
  BY <1>1, <1>2, <1>5, Moved
<1>7. Whole(q)
  BY <1>2, <1>6 DEF Sound, Whole
<1>8. Edge(p) => Edge(q)
  <2> SUFFICES ASSUME Edge(p) PROVE Edge(q)
    OBVIOUS
  <2>1. g.seq - p.lastack + g.len <= p.snd_wnd /\ g.seq \in Nat /\ g.len \in Nat
    BY <1>1, <1>2, SegParts DEF Fits, Wnd
  <2> HIDE DEF g
  <2>2. g.seq + g.len <= p.lastack + p.snd_wnd
    BY <1>1, <2>1
  <2>3. Len(q.unacked) = Len(p.unacked) + 1
        /\ \A i \in 1 .. Len(p.unacked) + 1 : q.unacked[i] = IF i <= Len(p.unacked) THEN p.unacked[i] ELSE g
    <3>1. p.unacked \in Seq(Segment) /\ g \in Segment /\ Len(p.unacked) \in Nat
      BY <1>1, <1>2, <1>3
    <3>2. Len(Append(p.unacked, g)) = Len(p.unacked) + 1
          /\ \A i \in 1 .. Len(p.unacked) + 1 :
                Append(p.unacked, g)[i] = IF i <= Len(p.unacked) THEN p.unacked[i] ELSE g
      BY <3>1
    <3> QED
      BY <1>5, <3>2
  <2>4. ASSUME NEW i \in 1 .. Len(p.unacked) + 1
        PROVE  q.unacked[i].seq + q.unacked[i].len <= p.lastack + p.snd_wnd
    BY <1>3, <2>2, <2>3 DEF Edge
  <2> QED
    BY <1>2, <2>3, <2>4 DEF Edge
<1>9. Sound(q, n)
  BY <1>2, <1>7, <1>8 DEF Sound
<1> QED
  BY <1>9 DEF q

\* One turn of the loop of tcp_output.
LEMMA TurnSound ==
  ASSUME NEW r, NEW p, Bounded(p, r), NEW n, Sound(p, n), NEW i, NEW e
  PROVE  Sound(Turn(p, i, e), n)
<1>1. CASE Turn(p, i, e) = p
  BY <1>1
<1>2. CASE Turn(p, i, e) = [p EXCEPT !.rtime = 0]
  <2> DEFINE q == [p EXCEPT !.rtime = 0]
  <2>1. p \in Pcb /\ p.snd_wnd \in Nat
    BY BoundedQueues, PcbParts
  <2>2. /\ q.unacked = p.unacked /\ q.unsent = p.unsent /\ q.lastack = p.lastack
        /\ q.snd_lbb = p.snd_lbb /\ q.snd_wnd = p.snd_wnd /\ q.dupacks = p.dupacks
    BY <2>1 DEF Pcb
  <2> HIDE DEF q
  <2>3. q.snd_wnd \in Nat /\ q.snd_wnd >= p.snd_wnd /\ q.dupacks <= n
    BY <2>1, <2>2 DEF Sound
  <2>4. Sound(q, n)
    BY <2>2, <2>3, SoundSame
  <2> QED
    BY <1>2, <2>4 DEF q
<1>3. CASE p.unsent # <<>> /\ Fits(p, p.unsent[1]) /\ Turn(p, i, e) = SendOne(p)
  BY <1>3, SendOneSound
<1> QED
  BY <1>1, <1>2, <1>3 DEF Turn

\* The loop from its bth turn.
LEMMA LoopSound ==
  ASSUME NEW r, NEW n, NEW m \in Nat, NEW s, NEW e, NEW f, Loop(f, m, s, e), NEW b \in 0 .. m,
         Bounded(f[b], r), ~f[b].persist, Sound(f[b], n)
  PROVE  Sound(f[m], n)
<1> DEFINE S == {q \in Pcb : Bounded(q, r) /\ ~q.persist /\ Sound(q, n)}
<1>1. f[b] \in S
  BY DEF Bounded
<1>2. \A q \in S, i \in 1 .. m : i > b => Turn(q, i, e) \in S
  <2> SUFFICES ASSUME NEW q \in S, NEW i \in 1 .. m PROVE Turn(q, i, e) \in S
    OBVIOUS
  <2>1. Bounded(q, r) /\ ~q.persist /\ Sound(q, n)
    OBVIOUS
  <2>2. Bounded(Turn(q, i, e), r) /\ ~Turn(q, i, e).persist
    BY <2>1, TurnBounded
  <2>3. Sound(Turn(q, i, e), n)
    BY <2>1, TurnSound
  <2> QED
    BY <2>2, <2>3 DEF Bounded
<1> HIDE DEF S
<1>3. f[m] \in S
  BY <1>1, <1>2, LoopKeeps
<1> QED
  BY <1>3 DEF S

\* The loop starts by stopping the persist timer.
LEMMA StartedSound ==
  ASSUME NEW r, NEW p, Bounded(p, r), NEW n, Sound(p, n)
  PROVE  Sound(Started(p), n)
<1> DEFINE q == Started(p)
<1>1. p \in Pcb /\ p.snd_wnd \in Nat
  BY BoundedQueues, PcbParts
<1>2. /\ q.unacked = p.unacked /\ q.unsent = p.unsent /\ q.lastack = p.lastack
      /\ q.snd_lbb = p.snd_lbb /\ q.snd_wnd = p.snd_wnd /\ q.dupacks = p.dupacks
  BY <1>1 DEF Pcb, Started
<1> HIDE DEF q
<1>3. q.snd_wnd \in Nat /\ q.snd_wnd >= p.snd_wnd /\ q.dupacks <= n
  BY <1>1, <1>2 DEF Sound
<1>4. Sound(q, n)
  BY <1>2, <1>3, SoundSame
<1> QED
  BY <1>4 DEF q

\* tcp_output keeps the queues exact.
LEMMA OutputSound ==
  ASSUME NEW r, NEW p, Bounded(p, r), NEW n, Sound(p, n), NEW e
  PROVE  Sound(tcp_output(p, e), n)
<1>1. p \in Pcb /\ p.snd_wnd \in Nat /\ p.dupacks <= n
  BY BoundedQueues, PcbParts DEF Sound
<1>2. CASE p.unsent = <<>> \/ ~e.route
  <2>1. tcp_output(p, e) = p
    BY <1>1, <1>2, OutputCases
  <2> QED
    BY <2>1
<1>3. CASE p.unsent # <<>> /\ e.route /\ ~Fits(p, p.unsent[1])
  <2> DEFINE q == StartPersist(p)
  <2>1. tcp_output(p, e) = q
    BY <1>1, <1>3, OutputCases
  <2>2. /\ q.unacked = p.unacked /\ q.unsent = p.unsent /\ q.lastack = p.lastack
        /\ q.snd_lbb = p.snd_lbb /\ q.snd_wnd = p.snd_wnd /\ q.dupacks = p.dupacks
    BY <1>1 DEF StartPersist, Pcb
  <2> HIDE DEF q
  <2>3. q.snd_wnd \in Nat /\ q.snd_wnd >= p.snd_wnd /\ q.dupacks <= n
    BY <1>1, <2>2
  <2>4. Sound(q, n)
    BY <2>2, <2>3, SoundSame
  <2> QED
    BY <2>1, <2>4
<1>4. CASE p.unsent # <<>> /\ e.route /\ Fits(p, p.unsent[1])
  <2>1. PICK f : Loop(f, Len(p.unsent), Started(p), e) /\ tcp_output(p, e) = f[Len(p.unsent)]
    BY <1>1, <1>4, OutputCases
  <2>2. PICK m \in Nat : m = Len(p.unsent)
    BY <1>1, PcbParts, QueueParts
  <2>3. 0 \in 0 .. m /\ f[0] = Started(p)
    BY <2>1, <2>2 DEF Loop
  <2>4. Bounded(f[0], r) /\ ~f[0].persist
    BY <2>3, StartedBounded
  <2>5. Sound(f[0], n)
    BY <2>3, StartedSound
  <2>6. Sound(f[m], n)
    BY <2>1, <2>2, <2>3, <2>4, <2>5, LoopSound
  <2> QED
    BY <2>1, <2>2, <2>6
<1> QED
  BY <1>2, <1>3, <1>4

\* Before tcp_send_fin no segment carries the FIN, so none is empty.
LEMMA NoFin ==
  ASSUME NEW p, p.fin = FALSE, NEW q \in Seq(Segment), QueuePlaced(q, p)
  PROVE  \A i \in 1 .. Len(q) : ~q[i].fin /\ q[i].len > 0
<1> SUFFICES ASSUME NEW i \in 1 .. Len(q) PROVE ~q[i].fin /\ q[i].len > 0
  OBVIOUS
<1>1. q[i] \in Segment /\ Placed(q[i], p)
  BY QueueParts DEF QueuePlaced
<1>2. q[i].len \in Nat
  BY <1>1, SegParts
<1> QED
  BY <1>1, <1>2 DEF Placed

\* Queues are joined in any order.
LEMMA JoinedTwice ==
  ASSUME NEW s \in Seq(Segment), NEW t \in Seq(Segment), NEW u \in Seq(Segment)
  PROVE  (s \o t) \o u = s \o (t \o u)
BY ConcatAssociative

\* The last segment of a queue's second part is the queue's last.
LEMMA LastJoined ==
  ASSUME NEW s \in Seq(Segment), NEW t \in Seq(Segment), t # <<>>, NEW h \in Segment,
         NEW v, LastBecomes(t, h, v), NEW q, q = s \o t
  PROVE  /\ q \in Seq(Segment) /\ q # <<>> /\ q[Len(q)] = t[Len(t)]
         /\ v \in Seq(Segment) /\ LastBecomes(q, h, s \o v)
<1>1. /\ Len(t) \in Nat /\ Len(t) > 0
  BY QueueParts
<1>2. /\ v \in Seq(Segment) /\ Len(v) = Len(t) /\ v[Len(t)] = h
      /\ \A i \in 1 .. Len(t) : i # Len(t) => v[i] = t[i]
  BY DEF LastBecomes
<1>v. v \in Seq(Segment)
  BY <1>2
<1>3. /\ q \in Seq(Segment) /\ Len(q) = Len(s) + Len(t) /\ Len(s) \in Nat
      /\ \A i \in 1 .. Len(s) : q[i] = s[i]
      /\ \A i \in 1 .. Len(q) : Len(s) < i => q[i] = t[i - Len(s)] /\ i - Len(s) \in 1 .. Len(t)
      /\ q # <<>>
  BY Joined
<1>4. PICK w : w = s \o v
  OBVIOUS
<1>5. /\ w \in Seq(Segment) /\ Len(w) = Len(s) + Len(v)
      /\ \A i \in 1 .. Len(s) : w[i] = s[i]
      /\ \A i \in 1 .. Len(w) : Len(s) < i => w[i] = v[i - Len(s)] /\ i - Len(s) \in 1 .. Len(v)
  BY <1>v, <1>4, Joined
<1>6. PICK a \in Nat, b \in Nat : a = Len(s) /\ b = Len(t) /\ b > 0
  BY <1>1, <1>3
<1>7. Len(q) = a + b /\ Len(w) = a + b /\ a + b \in 1 .. a + b /\ (a + b) - a = b /\ a < a + b
  BY <1>2, <1>3, <1>5, <1>6
<1>8. q[a + b] = t[b] /\ w[a + b] = v[b] /\ v[b] = h
  BY <1>2, <1>3, <1>5, <1>6, <1>7
<1>9. ASSUME NEW i \in 1 .. a + b, i # a + b PROVE w[i] = q[i]
  <2>1. CASE i <= a
    BY <1>3, <1>5, <1>6, <2>1
  <2>2. CASE a < i
    <3>1. PICK j \in 1 .. b : j = i - a /\ j # b
      <4>1. i - a \in 1 .. b /\ i - a # b
        BY <1>9, <2>2
      <4> QED
        BY <4>1
    <3>2. q[i] = t[j] /\ w[i] = v[j]
      BY <1>3, <1>5, <1>6, <1>7, <2>2, <3>1
    <3> QED
      BY <1>2, <1>6, <3>1, <3>2
  <2> QED
    BY <1>6, <2>1, <2>2
<1>10. LastBecomes(q, h, w)
  BY <1>5, <1>7, <1>8, <1>9 DEF LastBecomes
<1> QED
  BY <1>v, <1>3, <1>4, <1>6, <1>7, <1>8, <1>10

\* The last unsent segment grows or gets the FIN.
LEMMA WholeLast ==
  ASSUME NEW r, NEW p, Bounded(p, r), Whole(p), p.fin = FALSE, p.unsent # <<>>, NEW h \in Segment,
         NEW v, LastBecomes(p.unsent, h, v), NEW g, g = p.unsent[Len(p.unsent)],
         h.seq = g.seq, h.len >= g.len
  PROVE  /\ Exact(p.unacked \o v, p.lastack, h.seq + h.len, p.snd_wnd)
         /\ g.seq + g.len = p.snd_lbb /\ g.len > 0
<1> DEFINE Q == p.unacked \o p.unsent
<1>1. /\ p.unacked \in Seq(Segment) /\ p.unsent \in Seq(Segment) /\ Q \in Seq(Segment)
      /\ p.lastack \in Nat /\ p.snd_lbb \in Nat /\ p.snd_wnd \in Nat /\ QueuePlaced(Q, p)
  BY SoundParts
<1>2. Q # <<>> /\ Q[Len(Q)] = g /\ LastBecomes(Q, h, p.unacked \o v)
  <2>1. PICK u \in Seq(Segment), s \in Seq(Segment) : u = p.unacked /\ s = p.unsent
    BY <1>1
  <2>2. PICK S : S = u \o s
    OBVIOUS
  <2>3. s # <<>> /\ LastBecomes(s, h, v)
    BY <2>1
  <2>4. S # <<>> /\ S[Len(S)] = s[Len(s)] /\ LastBecomes(S, h, u \o v)
    BY <2>2, <2>3, LastJoined, Zenon
  <2> QED
    BY <2>1, <2>2, <2>4
<1>3. Exact(Q, p.lastack, p.snd_lbb, p.snd_wnd)
  BY DEF Whole
<1> HIDE DEF Q
<1>4. \A i \in 1 .. Len(Q) : ~Q[i].fin /\ Q[i].len > 0
  BY <1>1, NoFin
<1>5. Len(Q) \in 1 .. Len(Q) /\ g \in Segment
  BY <1>1, <1>2, QueueParts
<1>6. g.len > 0 /\ ~g.fin /\ g.len \in Nat /\ h.len \in Nat
  BY <1>2, <1>4, <1>5, SegParts
<1>7. Exact(p.unacked \o v, p.lastack, Behind(h), p.snd_wnd)
  BY <1>1, <1>2, <1>3, <1>4, <1>6, ExactLast
<1>8. Behind(h) = h.seq + h.len
  BY <1>6 DEF Behind
<1>9. g.seq + g.len = p.snd_lbb
  BY <1>2, <1>3, <1>6 DEF Exact, Behind
<1> QED
  BY <1>6, <1>7, <1>8, <1>9

\* tcp_write
LEMMA WriteWhole ==
  ASSUME NEW r, NEW p, Bounded(p, r), Whole(p), NEW n \in Nat, p.snd_lbb + n <= Bytes, NEW e,
         p.fin = FALSE
  PROVE  Whole(tcp_write(p, n, e))
<1> DEFINE q == tcp_write(p, n, e)
<1> SUFFICES ASSUME q # p PROVE Whole(q)
  OBVIOUS
<1>1. /\ p \in Pcb /\ p.unacked \in Seq(Segment) /\ p.unsent \in Seq(Segment) /\ Numbers(p, r)
      /\ p.lastack \in Nat /\ p.snd_lbb \in Nat /\ p.snd_wnd \in Nat /\ p.snd_nxt \in Nat
  BY BoundedQueues, PcbParts
<1>2. /\ q.snd_lbb = p.snd_lbb + n /\ Wrote(p, n, q) /\ q.unacked = p.unacked
      /\ q.lastack = p.lastack /\ q.snd_wnd = p.snd_wnd
  BY <1>1, WriteIs
<1> HIDE DEF q
<1>3. PICK f \in 0 .. n : \E s : /\ Filled(p.unsent, f, s)
                                 /\ q.unsent = s \o NewSegs(p.snd_lbb + f, n - f)
  BY <1>2 DEF Wrote
<1>4. PICK s : Filled(p.unsent, f, s) /\ q.unsent = s \o NewSegs(p.snd_lbb + f, n - f)
  BY <1>3
<1>5. PICK lbb \in Nat : lbb = p.snd_lbb /\ lbb + n <= Bytes /\ q.snd_lbb = lbb + n
  BY <1>1, <1>2
<1>6. PICK x \in Nat, y \in Nat : x = lbb + f /\ y = n - f /\ x + y = lbb + n /\ x + y <= Bytes
  BY <1>5
<1>7. PICK t : t = NewSegs(x, y)
  OBVIOUS
<1>8. /\ t \in Seq(Segment) /\ Chain(t) /\ (y = 0 => t = <<>>) /\ (y > 0 => t # <<>>)
      /\ \A i \in 1 .. Len(t) : x <= t[i].seq /\ t[i].len > 0
      /\ y > 0 => t[1].seq = x /\ t[Len(t)].seq + t[Len(t)].len = x + y
  <2>1. x + y <= Bytes
    BY <1>6
  <2>2. t \in Seq(Segment) /\ Chain(t) /\ Carries(t, x, y)
    BY <1>7, <2>1, NewSegsIs
  <2> QED
    BY <2>2 DEF Carries
<1>9. q.unsent = s \o t
  BY <1>4, <1>5, <1>6, <1>7
<1>10. p.lastack <= lbb
  BY <1>1, <1>5 DEF Numbers
\* the queue with its last segment filled up
<1> DEFINE R == p.unacked \o s
<1>11. /\ s \in Seq(Segment) /\ Exact(R, p.lastack, x, p.snd_wnd)
       /\ \A i \in 1 .. Len(R) : ~R[i].fin /\ R[i].len > 0
  <2>1. CASE f = 0 /\ s = p.unsent
    <3>1. x = lbb
      BY <1>6, <2>1
    <3>2. Exact(R, p.lastack, x, p.snd_wnd)
      BY <1>5, <2>1, <3>1 DEF Whole
    <3>3. R \in Seq(Segment) /\ QueuePlaced(R, p)
      BY <2>1, SoundParts
    <3> QED
      BY <1>1, <2>1, <3>2, <3>3, NoFin
  <2>2. CASE p.unsent # <<>> /\ \E h \in Segment : /\ LastBecomes(p.unsent, h, s)
                                                   /\ h.seq = p.unsent[Len(p.unsent)].seq
                                                   /\ h.len = p.unsent[Len(p.unsent)].len + f
                                                   /\ h.fin = p.unsent[Len(p.unsent)].fin
    <3>1. PICK g : g = p.unsent[Len(p.unsent)]
      OBVIOUS
    <3>2. PICK h \in Segment : LastBecomes(p.unsent, h, s) /\ h.seq = g.seq /\ h.len = g.len + f /\ h.fin = g.fin
      BY <2>2, <3>1
    <3>3. g \in Segment /\ g.len \in Nat /\ g.seq \in Nat
      BY <1>1, <2>2, <3>1, QueueParts, SegParts
    <3>4. h.len >= g.len /\ f \in Nat
      BY <3>2, <3>3
    <3>5. /\ Exact(R, p.lastack, h.seq + h.len, p.snd_wnd)
          /\ g.seq + g.len = p.snd_lbb /\ g.len > 0
      BY <2>2, <3>1, <3>2, <3>4, WholeLast
    <3>6. h.seq + h.len = x
      <4>1. PICK a \in Nat, b \in Nat : a = g.seq /\ b = g.len
        BY <3>3
      <4>2. a + (b + f) = x
        BY <1>5, <1>6, <3>4, <3>5, <4>1
      <4> QED
        BY <3>2, <4>1, <4>2
    <3>7. s \in Seq(Segment)
      BY <3>2 DEF LastBecomes
    <3>8. \A i \in 1 .. Len(R) : ~R[i].fin /\ R[i].len > 0
      <4> DEFINE Q == p.unacked \o p.unsent
      <4>1. Q \in Seq(Segment) /\ QueuePlaced(Q, p)
        BY SoundParts
      <4>2. Q[Len(Q)] = g /\ LastBecomes(Q, h, R) /\ Q # <<>>
        BY <1>1, <2>2, <3>1, <3>2, LastJoined
      <4> HIDE DEF Q, R
      <4>3. \A i \in 1 .. Len(Q) : ~Q[i].fin /\ Q[i].len > 0
        BY <4>1, NoFin
      <4>4. Len(Q) \in 1 .. Len(Q)
        BY <4>1, <4>2, QueueParts
      <4>5. ~h.fin /\ h.len > 0
        BY <3>2, <3>3, <3>4, <4>2, <4>3, <4>4
      <4> QED
        BY <4>2, <4>3, <4>5 DEF LastBecomes
    <3> QED
      BY <3>5, <3>6, <3>7, <3>8
  <2> QED
    BY <1>4, <2>1, <2>2 DEF Filled
<1>12. R \in Seq(Segment) /\ R \o t = p.unacked \o q.unsent
  <2>1. p.unacked \in Seq(Segment) /\ s \in Seq(Segment) /\ t \in Seq(Segment)
    BY <1>1, <1>8, <1>11
  <2>2. (p.unacked \o s) \o t = p.unacked \o (s \o t)
    BY <2>1, JoinedTwice
  <2>3. R \in Seq(Segment)
    BY <2>1, ConcatProperties
  <2> QED
    BY <1>9, <2>2, <2>3
<1> HIDE DEF R
<1>13. Exact(R \o t, p.lastack, x + y, p.snd_wnd)
  <2>1. CASE y = 0
    <3>1. R \o t = R
      BY <1>8, <1>12, <2>1, ConcatEmptySeq
    <3>2. x + y = x
      BY <2>1
    <3> QED
      BY <1>11, <3>1, <3>2
  <2>2. CASE y > 0
    <3>1. p.lastack <= x
      BY <1>1, <1>6, <1>10
    <3>2. Len(t) \in 1 .. Len(t) /\ 1 \in 1 .. Len(t) /\ t # <<>>
      BY <1>8, <2>2, QueueParts
    <3>3. t[1].len = 0 => t[1].fin
      BY <1>8, <3>2
    <3>4. Exact(R \o t, p.lastack, Behind(t[Len(t)]), p.snd_wnd)
      BY <1>1, <1>8, <1>11, <1>12, <2>2, <3>1, <3>2, <3>3, ExactMore
    <3>5. Behind(t[Len(t)]) = x + y
      BY <1>8, <2>2, <3>2 DEF Behind
    <3> QED
      BY <3>4, <3>5
  <2> QED
    BY <2>1, <2>2
<1> QED
  BY <1>2, <1>5, <1>6, <1>12, <1>13 DEF Whole

\* tcp_send_fin
LEMMA SendFinWhole ==
  ASSUME NEW r, NEW p, Bounded(p, r), Whole(p), NEW e, p.snd_lbb >= Bytes
  PROVE  Whole(tcp_send_fin(p, e))
<1>1. /\ p \in Pcb /\ p.unacked \in Seq(Segment) /\ p.unsent \in Seq(Segment) /\ Numbers(p, r)
      /\ p.lastack \in Nat /\ p.snd_lbb \in Nat /\ p.snd_wnd \in Nat /\ p.snd_nxt \in Nat
      /\ p.fin \in BOOLEAN
  BY BoundedQueues, PcbParts
<1>2. CASE p.fin
  BY <1>2 DEF tcp_send_fin
<1>3. CASE p.fin = FALSE /\ p.unsent # <<>>
  <2> DEFINE m == Len(p.unsent)
             g == p.unsent[m]
             h == [g EXCEPT !.fin = TRUE]
             s == [p.unsent EXCEPT ![m] = h]
             q == [p EXCEPT !.unsent = s, !.fin = TRUE]
  <2>1. m \in Nat /\ m > 0 /\ m \in 1 .. m /\ g \in Segment
    BY <1>1, <1>3, QueueParts
  <2>2. tcp_send_fin(p, e) = q
    BY <1>3 DEF tcp_send_fin
  <2>3. /\ h \in Segment /\ h.seq = g.seq /\ h.len = g.len
    BY <2>1 DEF Segment
  <2> HIDE DEF h
  <2>4. /\ s \in Seq(Segment) /\ Len(s) = m /\ s[m] = h /\ \A i \in 1 .. m : i # m => s[i] = p.unsent[i]
    BY <1>1, <2>1, <2>3, ExceptSeq
  <2> HIDE DEF s
  <2>5. /\ q.snd_lbb = p.snd_lbb /\ q.lastack = p.lastack /\ q.unacked = p.unacked
        /\ q.snd_wnd = p.snd_wnd /\ q.unsent = s
    BY <1>1, <2>4 DEF Pcb
  <2> HIDE DEF q
  <2>6. LastBecomes(p.unsent, h, s)
    BY <2>4 DEF LastBecomes
  <2>7. g.len \in Nat /\ h.len >= g.len
    BY <2>1, <2>3, SegParts
  <2>8. Exact(p.unacked \o s, p.lastack, h.seq + h.len, p.snd_wnd) /\ g.seq + g.len = p.snd_lbb
    BY <1>3, <2>3, <2>6, <2>7, WholeLast
  <2>9. h.seq + h.len = p.snd_lbb
    BY <2>3, <2>8
  <2> QED
    BY <2>2, <2>5, <2>8, <2>9 DEF Whole
<1>4. CASE p.fin = FALSE /\ p.unsent = <<>> /\ e.mem
  <2> DEFINE h == Seg(p.snd_lbb, 0, TRUE)
             s == <<h>>
             l == p.snd_lbb + 1
             q == [p EXCEPT !.unsent = s, !.snd_lbb = l, !.fin = TRUE]
  <2>1. tcp_send_fin(p, e) = q
    BY <1>4 DEF tcp_send_fin
  <2>2. p.snd_lbb = Bytes /\ p.lastack <= p.snd_lbb
    BY <1>1, <1>4, Const DEF Numbers
  <2>3. h \in Segment /\ h.seq = p.snd_lbb /\ h.len = 0 /\ h.fin
    <3>1. p.snd_lbb \in 0 .. Bytes /\ 0 \in 0 .. MSS
      BY <2>2, Const
    <3> QED
      BY <3>1 DEF Seg, Segment
  <2> HIDE DEF h
  <2>4. s \in Seq(Segment) /\ Len(s) = 1 /\ s[1] = h /\ s # <<>>
    BY <2>3
  <2> HIDE DEF s, l
  <2>5. /\ q.snd_lbb = l /\ q.lastack = p.lastack /\ q.unacked = p.unacked
        /\ q.snd_wnd = p.snd_wnd /\ q.unsent = s
    BY <1>1 DEF Pcb
  <2> HIDE DEF q
  <2> DEFINE Q == p.unacked \o p.unsent
  <2>6. Q \in Seq(Segment) /\ QueuePlaced(Q, p) /\ Exact(Q, p.lastack, p.snd_lbb, p.snd_wnd)
    BY SoundParts DEF Whole
  <2>7. Q = p.unacked
    BY <1>1, <1>4, ConcatEmptySeq
  <2> HIDE DEF Q
  <2>8. \A i \in 1 .. Len(Q) : ~Q[i].fin /\ Q[i].len > 0
    BY <1>4, <2>6, NoFin
  <2>9. Chain(s)
    <3>1. Len(s) <= 1 /\ s \in Seq(Segment)
      BY <2>4
    <3> QED
      BY <3>1, ChainOne
  <2>10. /\ \A i \in 1 .. Len(s) : p.snd_lbb <= s[i].seq
         /\ s[1].seq = p.snd_lbb /\ (s[1].len = 0 => s[1].fin)
    BY <1>1, <2>3, <2>4
  <2>11. Exact(Q \o s, p.lastack, Behind(s[Len(s)]), p.snd_wnd)
    <3>1. s \in Seq(Segment) /\ s # <<>>
      BY <2>4
    <3> QED
      BY <1>1, <2>2, <2>6, <2>8, <2>9, <2>10, <3>1, ExactMore
  <2>12. Behind(s[Len(s)]) = l
    BY <2>3, <2>4 DEF Behind, l
  <2> QED
    BY <2>1, <2>5, <2>7, <2>11, <2>12 DEF Whole
<1> QED
  BY <1>1, <1>2, <1>3, <1>4 DEF tcp_send_fin

\* What the application leaves alone.
LEMMA AppSendLeaves ==
  ASSUME NEW p \in Pcb, NEW n \in Nat, p.fin \/ p.snd_lbb + n <= Bytes, NEW e
  PROVE  /\ tcp_write(p, n, e).unacked = p.unacked /\ tcp_write(p, n, e).lastack = p.lastack
         /\ tcp_write(p, n, e).snd_wnd = p.snd_wnd /\ tcp_write(p, n, e).dupacks = p.dupacks
         /\ tcp_send_fin(p, e).unacked = p.unacked /\ tcp_send_fin(p, e).lastack = p.lastack
         /\ tcp_send_fin(p, e).snd_wnd = p.snd_wnd /\ tcp_send_fin(p, e).dupacks = p.dupacks
<1>1. /\ tcp_write(p, n, e).unacked = p.unacked /\ tcp_write(p, n, e).lastack = p.lastack
      /\ tcp_write(p, n, e).snd_wnd = p.snd_wnd /\ tcp_write(p, n, e).dupacks = p.dupacks
  <2> DEFINE q == tcp_write(p, n, e)
  <2>1. q # p => ~p.fin
    BY DEF tcp_write
  <2>2. q # p => q.unacked = p.unacked /\ q.lastack = p.lastack /\ q.snd_wnd = p.snd_wnd /\ q.dupacks = p.dupacks
    BY <2>1, WriteIs
  <2> QED
    BY <2>2
<1>2. /\ tcp_send_fin(p, e).unacked = p.unacked /\ tcp_send_fin(p, e).lastack = p.lastack
      /\ tcp_send_fin(p, e).snd_wnd = p.snd_wnd /\ tcp_send_fin(p, e).dupacks = p.dupacks
  <2> DEFINE A(s) == [p EXCEPT !.unsent = s, !.fin = TRUE]
             B(s, l) == [p EXCEPT !.unsent = s, !.snd_lbb = l, !.fin = TRUE]
  <2>1. \A s : A(s).unacked = p.unacked /\ A(s).lastack = p.lastack /\ A(s).snd_wnd = p.snd_wnd /\ A(s).dupacks = p.dupacks
    BY DEF Pcb
  <2>2. \A s, l : B(s, l).unacked = p.unacked /\ B(s, l).lastack = p.lastack
                  /\ B(s, l).snd_wnd = p.snd_wnd /\ B(s, l).dupacks = p.dupacks
    BY DEF Pcb
  <2>3. \/ tcp_send_fin(p, e) = p
        \/ \E s : tcp_send_fin(p, e) = A(s)
        \/ \E s, l : tcp_send_fin(p, e) = B(s, l)
    BY DEF tcp_send_fin
  <2> HIDE DEF A, B
  <2> QED
    BY <2>1, <2>2, <2>3
<1> QED
  BY <1>1, <1>2

\* A callback of the application keeps the queues exact.
LEMMA AppSendSound ==
  ASSUME NEW r, NEW p, Bounded(p, r), NEW m, Sound(p, m), NEW n \in Writes(p), NEW e
  PROVE  Sound(AppSend(p, n, e), m)
<1>1. p \in Pcb /\ p.snd_lbb \in Nat /\ p.fin \in BOOLEAN
  BY BoundedQueues, PcbParts
<1>2. CASE p.fin
  <2>1. tcp_write(p, n, e) = p /\ tcp_send_fin(p, e) = p
    BY <1>2 DEF tcp_write, tcp_send_fin
  <2> QED
    BY <2>1 DEF AppSend
<1>3. CASE p.fin = FALSE
  <2> DEFINE a == tcp_write(p, n, e)
             b == tcp_send_fin(a, e)
  <2>1. n \in Nat /\ p.snd_lbb + n <= Bytes
    BY <1>1, <1>3, Const DEF Writes, Bounded, Numbers
  <2>2. Bounded(a, r)
    BY <2>1, WriteBounded
  <2>3. Whole(a)
    BY <1>3, <2>1, WriteWhole DEF Sound
  <2>4. a.unacked = p.unacked /\ a.lastack = p.lastack /\ a.snd_wnd = p.snd_wnd /\ a.dupacks = p.dupacks
    BY <1>1, <2>1, AppSendLeaves
  <2> HIDE DEF a
  <2>5. Sound(a, m)
    BY <2>3, <2>4 DEF Sound, Edge
  <2>6. a \in Pcb /\ (a.fin \/ a.snd_lbb + 0 <= Bytes \/ a.snd_lbb >= Bytes) /\ 0 \in Nat
    BY <2>2, PcbParts, Const DEF Bounded
  <2>7. b.unacked = a.unacked /\ b.lastack = a.lastack /\ b.snd_wnd = a.snd_wnd /\ b.dupacks = a.dupacks
    <3>1. a.snd_lbb \in Nat /\ a.fin \in BOOLEAN /\ (~a.fin => a.snd_lbb <= Bytes)
      BY <2>2, PcbParts DEF Bounded, Numbers
    <3>2. a.fin \/ a.snd_lbb + 0 <= Bytes
      BY <3>1
    <3> QED
      BY <2>6, <3>2, AppSendLeaves
  <2>8. a.snd_lbb >= Bytes => Whole(b)
    BY <2>2, <2>3, SendFinWhole
  <2> HIDE DEF b
  <2>9. a.snd_lbb >= Bytes => Sound(b, m)
    BY <2>5, <2>7, <2>8 DEF Sound, Edge
  <2>10. AppSend(p, n, e) = IF Closes /\ a.snd_lbb >= Bytes THEN b ELSE a
    BY DEF AppSend, a, b
  <2> QED
    BY <2>5, <2>9, <2>10
<1> QED
  BY <1>1, <1>2, <1>3

\* Later segments end later.
LEMMA EndsLater ==
  ASSUME NEW g \in Segment, NEW h \in Segment, After(g, h), h.len = 0 => h.fin
  PROVE  End(g) <= End(h) /\ End(g) \in Nat /\ End(h) \in Nat
<1>1. /\ g.seq \in Nat /\ g.len \in Nat /\ g.fin \in BOOLEAN /\ End(g) \in Nat
      /\ End(g) = IF g.fin THEN g.seq + g.len + 1 ELSE g.seq + g.len
  BY SegParts
<1>2. /\ h.seq \in Nat /\ h.len \in Nat /\ h.fin \in BOOLEAN /\ End(h) \in Nat
      /\ End(h) = IF h.fin THEN h.seq + h.len + 1 ELSE h.seq + h.len
  BY SegParts
<1>3. g.seq + g.len <= h.seq /\ (g.fin => h.fin)
  BY DEF After
<1> QED
  BY <1>1, <1>2, <1>3

\* A queue without its first c segments.
Drop(s, c) == SubSeq(s, c + 1, Len(s))

\* The rest of a queue's first part and its second part are the rest of the queue.
LEMMA RestJoined ==
  ASSUME NEW s \in Seq(Segment), NEW t \in Seq(Segment), NEW c \in 0 .. Len(s)
  PROVE  Drop(s, c) \o t = Drop(s \o t, c) /\ c \in 0 .. Len(s \o t)
<1>q. PICK q : q = s \o t
  OBVIOUS
<1>1. PICK v : v = SubSeq(s, c + 1, Len(s))
  OBVIOUS
<1>2. PICK w : w = SubSeq(q, c + 1, Len(q))
  OBVIOUS
<1>3. PICK x : x = v \o t
  OBVIOUS
<1>4. /\ q \in Seq(Segment) /\ Len(q) = Len(s) + Len(t) /\ Len(s) \in Nat /\ Len(t) \in Nat
      /\ \A i \in 1 .. Len(s) : q[i] = s[i]
      /\ \A i \in 1 .. Len(q) : Len(s) < i => q[i] = t[i - Len(s)] /\ i - Len(s) \in 1 .. Len(t)
  BY <1>q, Joined
<1>5. c \in 0 .. Len(q)
  BY <1>4
<1>6. /\ v \in Seq(Segment) /\ Len(v) = Len(s) - c
      /\ \A i \in 1 .. Len(v) : v[i] = s[c + i] /\ c + i \in 1 .. Len(s)
  BY <1>1, RestIs
<1>7. /\ w \in Seq(Segment) /\ Len(w) = Len(q) - c
      /\ \A i \in 1 .. Len(w) : w[i] = q[c + i] /\ c + i \in 1 .. Len(q)
  <2>1. q \in Seq(Segment)
    BY <1>4
  <2> QED
    BY <1>2, <1>5, <2>1, RestIs
<1>8. /\ x \in Seq(Segment) /\ Len(x) = Len(v) + Len(t)
      /\ \A i \in 1 .. Len(v) : x[i] = v[i]
      /\ \A i \in 1 .. Len(x) : Len(v) < i => x[i] = t[i - Len(v)] /\ i - Len(v) \in 1 .. Len(t)
  <2>1. v \in Seq(Segment)
    BY <1>6
  <2> QED
    BY <1>3, <2>1, Joined
<1>9. Len(x) = Len(w) /\ Len(x) \in Nat
  BY <1>4, <1>6, <1>7, <1>8
<1>10. ASSUME NEW i \in 1 .. Len(x) PROVE x[i] = w[i]
  <2>1. w[i] = q[c + i] /\ c + i \in 1 .. Len(q)
    BY <1>7, <1>9
  <2>2. CASE i <= Len(v)
    <3>1. x[i] = s[c + i] /\ c + i \in 1 .. Len(s)
      BY <1>6, <1>8, <2>2
    <3> QED
      BY <1>4, <2>1, <3>1
  <2>3. CASE Len(v) < i
    <3>1. x[i] = t[i - Len(v)]
      BY <1>8, <2>3
    <3>2. PICK j \in 1 .. Len(q) : j = c + i
      BY <2>1
    <3>3. Len(s) < j /\ j - Len(s) = i - Len(v)
      BY <1>4, <1>6, <2>3, <3>2
    <3>4. q[j] = t[i - Len(v)]
      BY <1>4, <3>3
    <3> QED
      BY <2>1, <3>1, <3>2, <3>4
  <2> QED
    BY <1>6, <2>2, <2>3, <1>4
<1>11. x = w
  <2>1. x \in Seq(Segment) /\ w \in Seq(Segment) /\ Len(x) = Len(w) /\ \A i \in 1 .. Len(x) : x[i] = w[i]
    BY <1>7, <1>8, <1>9, <1>10
  <2> QED
    BY <2>1, SeqEqual
<1> QED
  BY <1>q, <1>1, <1>2, <1>3, <1>5, <1>11 DEF Drop

\* c segments of q are acknowledged by a.
Frees(q, c, a) == /\ c \in 0 .. Len(q)
                  /\ c > 0 => End(q[c]) <= a
                  /\ c < Len(q) => a < End(q[c + 1])

\* What an ACK takes off one queue.
LEMMA AckedFrees ==
  ASSUME NEW s \in Seq(Segment), NEW a \in Nat
  PROVE  Frees(s, Acked(s, a), a)
<1>1. PICK c : c = Acked(s, a)
  OBVIOUS
<1>2. /\ c \in 0 .. Len(s) /\ (\A i \in 1 .. c : End(s[i]) <= a)
      /\ c < Len(s) => a < End(s[c + 1])
  BY <1>1, AckedIs
<1>3. Len(s) \in Nat
  BY QueueParts
<1>4. c > 0 => c \in 1 .. c
  BY <1>2, <1>3
<1>5. Frees(s, c, a)
  BY <1>2, <1>4 DEF Frees
<1> QED
  BY <1>1, <1>5

\* A segment without bytes carries the FIN.
NoneEmpty(q) == \A i \in 1 .. Len(q) : q[i].len = 0 => q[i].fin

\* What an ACK leaves of two queues is the rest of the queue they make together.
LeavesRest(s, t, a) ==
  \E c : /\ Frees(s \o t, c, a)
         /\ Rest(s, a) \o Rest(t, a) = SubSeq(s \o t, c + 1, Len(s \o t))

\* tcp_free_acked_segments on both queues takes segments off the front of the
\* queue they make together.
LEMMA FreeJoined ==
  ASSUME NEW s \in Seq(Segment), NEW t \in Seq(Segment), Chain(s \o t), NEW a \in Nat,
         NoneEmpty(s \o t)
  PROVE  LeavesRest(s, t, a)
<1>q. PICK q : q = s \o t
  OBVIOUS
<1>r. Chain(q) /\ \A i \in 1 .. Len(q) : q[i].len = 0 => q[i].fin
  BY <1>q DEF NoneEmpty
<1> SUFFICES \E c : Frees(q, c, a) /\ Rest(s, a) \o Rest(t, a) = SubSeq(q, c + 1, Len(q))
  BY <1>q DEF LeavesRest
<1>1. PICK m : m = Acked(s, a)
  OBVIOUS
<1>2. PICK n : n = Acked(t, a)
  OBVIOUS
<1>3. Frees(s, m, a) /\ Frees(t, n, a)
  BY <1>1, <1>2, AckedFrees
<1>4. /\ q \in Seq(Segment) /\ Len(q) = Len(s) + Len(t) /\ Len(s) \in Nat /\ Len(t) \in Nat
      /\ \A i \in 1 .. Len(s) : q[i] = s[i]
      /\ \A i \in 1 .. Len(t) : q[Len(s) + i] = t[i]
  BY <1>q, Joined
<1>5. m \in 0 .. Len(s) /\ n \in 0 .. Len(t)
  BY <1>3 DEF Frees
<1>6. Rest(s, a) = SubSeq(s, m + 1, Len(s)) /\ Rest(t, a) = SubSeq(t, n + 1, Len(t))
  BY <1>1, <1>2 DEF Rest
<1>7. CASE m < Len(s)
  <2>1. PICK j \in 1 .. Len(s) : j = m + 1 /\ a < End(s[j])
    <3>1. m + 1 \in 1 .. Len(s) /\ a < End(s[m + 1])
      BY <1>3, <1>4, <1>5, <1>7 DEF Frees
    <3> QED
      BY <3>1
  <2>2. n = 0
    <3> SUFFICES ASSUME n > 0 PROVE FALSE
      BY <1>4, <1>5
    <3>1. n \in 1 .. Len(t) /\ End(t[n]) <= a
      BY <1>3, <1>4, <1>5 DEF Frees
    <3>2. After(s[j], t[n])
      BY <3>1, ChainParts
    <3>3. s[j] \in Segment /\ t[n] \in Segment
      BY <3>1, QueueParts
    <3>4. t[n].len = 0 => t[n].fin
      <4>1. PICK i \in 1 .. Len(q) : i = Len(s) + n
        BY <1>4, <3>1
      <4>2. q[i] = t[n]
        BY <1>4, <3>1, <4>1
      <4> QED
        BY <1>r, <4>2
    <3>5. End(s[j]) <= End(t[n]) /\ End(s[j]) \in Nat /\ End(t[n]) \in Nat
      BY <3>2, <3>3, <3>4, EndsLater
    <3> QED
      BY <2>1, <3>1, <3>5
  <2>3. Rest(t, a) = t
    BY <1>4, <1>6, <2>2, SubSeqFull
  <2>4. Rest(s, a) \o Rest(t, a) = SubSeq(q, m + 1, Len(q)) /\ m \in 0 .. Len(q)
    <3>1. Drop(s, m) \o t = Drop(q, m) /\ m \in 0 .. Len(q)
      <4>1. m \in 0 .. Len(s)
        BY <1>5
      <4> QED
        BY <1>q, <4>1, RestJoined, Zenon
    <3> QED
      BY <1>6, <2>3, <3>1 DEF Drop
  <2>5. m > 0 => End(q[m]) <= a
    <3>1. m > 0 => q[m] = s[m] /\ End(s[m]) <= a
      BY <1>3, <1>4, <1>5 DEF Frees
    <3> QED
      BY <3>1
  <2>6. a < End(q[m + 1])
    BY <1>4, <2>1
  <2>7. Frees(q, m, a)
    BY <2>4, <2>5, <2>6 DEF Frees
  <2> QED
    BY <2>4, <2>7
<1>8. CASE m = Len(s)
  <2> DEFINE c == Len(s) + n
  <2>1. Rest(s, a) = <<>>
    <3>1. Rest(s, a) \in Seq(Segment) /\ Len(Rest(s, a)) = Len(s) - m
      BY <1>5, <1>6, RestIs
    <3>2. Len(Rest(s, a)) = 0
      BY <1>4, <1>8, <3>1
    <3> QED
      BY <3>1, <3>2, QueueParts
  <2>2. Rest(t, a) \in Seq(Segment)
    BY <1>5, <1>6, RestIs
  <2>3. Rest(s, a) \o Rest(t, a) = SubSeq(t, n + 1, Len(t))
    BY <1>6, <2>1, <2>2, ConcatEmptySeq
  <2>4. c \in 0 .. Len(q)
    BY <1>4, <1>5
  <2>5. SubSeq(t, n + 1, Len(t)) = SubSeq(q, c + 1, Len(q))
    <3>1. PICK v : v = SubSeq(t, n + 1, Len(t))
      OBVIOUS
    <3>2. PICK w : w = SubSeq(q, c + 1, Len(q))
      OBVIOUS
    <3>3. /\ v \in Seq(Segment) /\ Len(v) = Len(t) - n
          /\ \A i \in 1 .. Len(v) : v[i] = t[n + i] /\ n + i \in 1 .. Len(t)
      BY <1>5, <3>1, RestIs
    <3>4. /\ w \in Seq(Segment) /\ Len(w) = Len(q) - c
          /\ \A i \in 1 .. Len(w) : w[i] = q[c + i] /\ c + i \in 1 .. Len(q)
      <4>1. q \in Seq(Segment)
        BY <1>4
      <4>2. PICK d \in 0 .. Len(q) : d = c
        BY <2>4
      <4>a. w = SubSeq(q, d + 1, Len(q))
        BY <3>2, <4>2, Zenon
      <4>3. /\ w \in Seq(Segment) /\ Len(w) = Len(q) - d
            /\ \A i \in 1 .. Len(w) : w[i] = q[d + i] /\ d + i \in 1 .. Len(q)
        BY <4>a, <4>1, RestIs
      <4> QED
        BY <4>2, <4>3
    <3>5. Len(v) = Len(w)
      BY <1>4, <1>5, <3>3, <3>4
    <3>6. ASSUME NEW i \in 1 .. Len(v) PROVE v[i] = w[i]
      <4>1. PICK j \in 1 .. Len(t) : j = n + i /\ v[i] = t[j]
        BY <3>3
      <4>2. w[i] = q[c + i] /\ c + i = Len(s) + j
        BY <1>4, <1>5, <3>4, <3>5, <4>1
      <4>3. q[Len(s) + j] = t[j]
        BY <1>4
      <4> QED
        BY <4>1, <4>2, <4>3
    <3> QED
      BY <3>1, <3>2, <3>3, <3>4, <3>5, <3>6, SeqEqual
  <2>6. c > 0 => End(q[c]) <= a
    <3>1. CASE n > 0
      <4>1. n \in 1 .. Len(t) /\ End(t[n]) <= a
        BY <1>3, <1>4, <1>5, <3>1 DEF Frees
      <4>2. q[c] = t[n]
        BY <1>4, <4>1
      <4> QED
        BY <4>1, <4>2
    <3>2. CASE n = 0
      <4>1. c = m /\ (m > 0 => q[m] = s[m] /\ End(s[m]) <= a)
        BY <1>3, <1>4, <1>5, <1>8, <3>2 DEF Frees
      <4> QED
        BY <4>1
    <3> QED
      BY <1>4, <1>5, <3>1, <3>2
  <2>7. c < Len(q) => a < End(q[c + 1])
    <3> SUFFICES ASSUME c < Len(q) PROVE a < End(q[c + 1])
      OBVIOUS
    <3>1. PICK j \in 1 .. Len(t) : j = n + 1 /\ a < End(t[j])
      <4>1. n + 1 \in 1 .. Len(t) /\ a < End(t[n + 1])
        BY <1>3, <1>4, <1>5 DEF Frees
      <4> QED
        BY <4>1
    <3>2. c + 1 = Len(s) + j /\ q[Len(s) + j] = t[j]
      BY <1>4, <1>5, <3>1
    <3> QED
      BY <3>1, <3>2
  <2>8. Frees(q, c, a)
    BY <2>4, <2>6, <2>7 DEF Frees
  <2> QED
    BY <2>3, <2>5, <2>8
<1>9. m < Len(s) \/ m = Len(s)
  BY <1>4, <1>5
<1> QED
  BY <1>7, <1>8, <1>9

\* What an ACK leaves of a queue was in it.
LEMMA RestWas ==
  ASSUME NEW s \in Seq(Segment), NEW a \in Nat, NEW i \in 1 .. Len(Rest(s, a))
  PROVE  \E j \in 1 .. Len(s) : Rest(s, a)[i] = s[j]
<1>1. PICK c : c = Acked(s, a)
  OBVIOUS
<1>2. c \in 0 .. Len(s)
  BY <1>1, AckedIs
<1>3. PICK r : r = SubSeq(s, c + 1, Len(s))
  OBVIOUS
<1>4. \A x \in 1 .. Len(r) : r[x] = s[c + x] /\ c + x \in 1 .. Len(s)
  BY <1>2, <1>3, RestIs
<1>5. r = Rest(s, a)
  BY <1>1, <1>3 DEF Rest
<1> QED
  BY <1>4, <1>5

\* The first part of a chain is one.
LEMMA ChainFirst ==
  ASSUME NEW s \in Seq(Segment), NEW t \in Seq(Segment), Chain(s \o t)
  PROVE  \A i, j \in 1 .. Len(s) : i < j => After(s[i], s[j])
<1>1. PICK q : q = s \o t
  OBVIOUS
<1>2. /\ Len(q) = Len(s) + Len(t) /\ Len(s) \in Nat /\ Len(t) \in Nat
      /\ \A i \in 1 .. Len(s) : q[i] = s[i]
  BY <1>1, Joined
<1>3. ASSUME NEW i \in 1 .. Len(s), NEW j \in 1 .. Len(s), i < j PROVE After(s[i], s[j])
  <2>1. i \in 1 .. Len(q) /\ j \in 1 .. Len(q)
    BY <1>2
  <2>2. Chain(q)
    BY <1>1
  <2>3. After(q[i], q[j])
    BY <1>3, <2>1, <2>2 DEF Chain
  <2> QED
    BY <1>2, <2>3
<1> QED
  BY <1>3

\* A segment that ends within the window still does when the edge has moved on.
LEMMA EdgeMoves ==
  ASSUME NEW g \in Segment, NEW l \in Nat, NEW s \in Nat, NEW a \in Nat, NEW w \in Nat,
         g.seq + g.len <= l + s, a + w >= l + s
  PROVE  g.seq + g.len <= a + w
<1>1. g.seq \in Nat /\ g.len \in Nat
  BY SegParts
<1> QED
  BY <1>1

\* An ACK of something new.
LEMMA NewAckSound ==
  ASSUME NEW r, NEW p, Bounded(p, r), NEW n \in Nat, Sound(p, n), NEW a \in Nat, a <= r, p.lastack < a,
         NEW w \in Windows, ~Shrinks => a + w >= p.lastack + p.snd_wnd
  PROVE  Sound(NewAck(p, a, w), n)
<1> DEFINE q == NewAck(p, a, w)
           Q == p.unacked \o p.unsent
<1>1. /\ p \in Pcb /\ Numbers(p, r) /\ p.unacked \in Seq(Segment) /\ p.unsent \in Seq(Segment)
      /\ Q \in Seq(Segment) /\ QueuePlaced(Q, p)
      /\ p.lastack \in Nat /\ p.snd_lbb \in Nat /\ p.snd_wnd \in Nat /\ w \in Nat
  <2>1. p \in Pcb /\ Numbers(p, r)
    BY DEF Bounded
  <2>2. w \in Nat
    BY Const
  <2>3. /\ p.unacked \in Seq(Segment) /\ p.unsent \in Seq(Segment)
        /\ Q \in Seq(Segment) /\ QueuePlaced(Q, p)
        /\ p.lastack \in Nat /\ p.snd_lbb \in Nat /\ p.snd_wnd \in Nat
    BY SoundParts
  <2> QED
    BY <2>1, <2>2, <2>3
<1>2. a <= Bytes + 1
  BY <1>1, PcbParts, Const DEF Numbers
<1>3. /\ q.unacked = Rest(p.unacked, a) /\ q.unsent = Rest(p.unsent, a)
      /\ q.lastack = a /\ q.snd_wnd = w /\ q.snd_lbb = p.snd_lbb /\ q.dupacks = 0
  BY <1>1, <1>2, NewAckIs
<1> HIDE DEF q
<1>4. Exact(Q, p.lastack, p.snd_lbb, p.snd_wnd)
  BY DEF Sound, Whole
<1>5. NoneEmpty(Q)
  BY <1>1 DEF QueuePlaced, Placed, NoneEmpty
<1>6. Chain(Q)
  BY <1>4 DEF Exact
<1>7. PICK c : Frees(Q, c, a) /\ Rest(p.unacked, a) \o Rest(p.unsent, a) = SubSeq(Q, c + 1, Len(Q))
  <2>1. LeavesRest(p.unacked, p.unsent, a)
    BY <1>1, <1>5, <1>6, FreeJoined
  <2> QED
    BY <2>1 DEF LeavesRest
<1> HIDE DEF Q
<1>8. c \in 0 .. Len(Q) /\ (c > 0 => End(Q[c]) <= a) /\ (c < Len(Q) => a < End(Q[c + 1]))
  BY <1>7 DEF Frees
<1>9. p.lastack <= a
  BY <1>1
<1>10. Exact(SubSeq(Q, c + 1, Len(Q)), a, p.snd_lbb, w)
  BY <1>1, <1>4, <1>5, <1>8, <1>9, ExactFree DEF NoneEmpty
<1>11. Whole(q)
  BY <1>3, <1>7, <1>10 DEF Whole
<1>12. ~Shrinks => Edge(q)
  <2> SUFFICES ASSUME ~Shrinks, NEW i \in 1 .. Len(q.unacked)
               PROVE  q.unacked[i].seq + q.unacked[i].len <= a + w
    BY <1>3 DEF Edge
  <2>1. i \in 1 .. Len(Rest(p.unacked, a))
    BY <1>3
  <2>2. PICK j \in 1 .. Len(p.unacked) : q.unacked[i] = p.unacked[j]
    <3>1. PICK s : s = p.unacked
      OBVIOUS
    <3>2. \E j \in 1 .. Len(s) : Rest(s, a)[i] = s[j]
      BY <1>1, <2>1, <3>1, RestWas
    <3>3. q.unacked = Rest(s, a)
      BY <1>3, <3>1
    <3> QED
      BY <3>1, <3>2, <3>3
  <2>3. p.unacked[j].seq + p.unacked[j].len <= p.lastack + p.snd_wnd
    BY DEF Sound, Edge
  <2>4. PICK g \in Segment : g = p.unacked[j]
    BY <1>1, QueueParts
  <2>5. g.seq + g.len <= p.lastack + p.snd_wnd
    BY <2>3, <2>4
  <2>6. p.lastack \in Nat /\ p.snd_wnd \in Nat /\ w \in Nat
    BY <1>1
  <2>7. g.seq + g.len <= a + w
    BY <2>5, <2>6, EdgeMoves
  <2> QED
    BY <2>2, <2>4, <2>7
<1>13. Sound(q, n)
  BY <1>3, <1>11, <1>12 DEF Sound
<1> QED
  BY <1>13 DEF q

\* A duplicate.
LEMMA CountedSound ==
  ASSUME NEW r, NEW p, Bounded(p, r), NEW n \in Nat, Sound(p, n), NEW w, NEW q, Counted(p, q, w)
  PROVE  Sound(q, n + 1)
<1>1. /\ q \in Pcb /\ q.unsent = p.unsent /\ q.unacked = p.unacked /\ q.lastack = p.lastack
      /\ q.snd_lbb = p.snd_lbb /\ q.snd_wnd >= p.snd_wnd /\ q.dupacks <= p.dupacks + 1
  BY DEF Counted
<1>2. q.snd_wnd \in Nat /\ q.dupacks \in 0 .. 3 /\ p.dupacks \in 0 .. 3
  BY <1>1, BoundedQueues, PcbParts
<1>3. p.dupacks <= n
  BY DEF Sound
<1>4. q.dupacks <= n + 1
  BY <1>1, <1>2, <1>3
<1> QED
  BY <1>1, <1>2, <1>4, SoundSame

\* A queue of one segment.
LEMMA OneSegment ==
  ASSUME NEW q \in Seq(Segment), Len(q) = 1
  PROVE  q = <<q[1]>>
<1>1. q[1] \in Segment
  BY QueueParts
<1>2. PICK o : o = <<q[1]>>
  OBVIOUS
<1>3. o \in Seq(Segment) /\ Len(o) = 1 /\ o[1] = q[1]
  BY <1>1, <1>2
<1>4. Len(q) = Len(o) /\ \A i \in 1 .. Len(q) : q[i] = o[i]
  BY <1>3
<1>5. q = o
  BY <1>3, <1>4, SeqEqual
<1> QED
  BY <1>2, <1>5

\* z is what the loop of tcp_output makes of its state c after the first turn.
Leads(c, z, e) == \E f, m, s : /\ m \in Nat /\ 1 \in 0 .. m /\ Loop(f, m, s, e)
                              /\ f[1] = c /\ f[m] = z

\* The first unsent segment goes out if it fits and Nagle's algorithm does not
\* hold it back.
LEMMA OutputFirst ==
  ASSUME NEW r, NEW q, Bounded(q, r), q.unsent # <<>>, Fits(q, q.unsent[1]),
         q.infr \/ q.unacked = <<>>, NEW e, e.route, e.out = 3
  PROVE  Leads(SendOne(Started(q)), tcp_output(q, e), e)
<1> DEFINE u == Started(q)
<1>1. q \in Pcb /\ q.unsent \in Seq(Segment)
  BY BoundedQueues
<1>2. PICK f : Loop(f, Len(q.unsent), u, e) /\ tcp_output(q, e) = f[Len(q.unsent)]
  BY <1>1, OutputCases
<1>3. PICK m \in Nat : m = Len(q.unsent) /\ 1 \in 0 .. m
  BY <1>1, QueueParts
<1>4. f[1] = Turn(u, 1, e)
  <2>1. 0 \in 0 .. m
    OBVIOUS
  <2> QED
    BY <1>2, <1>3, <2>1 DEF Loop
<1>5. /\ u.unsent = q.unsent /\ u.unacked = q.unacked /\ u.infr = q.infr
      /\ u.lastack = q.lastack /\ u.snd_wnd = q.snd_wnd /\ u.cwnd = q.cwnd
  BY <1>1 DEF Started, Pcb
<1> HIDE DEF u
<1>6. Fits(u, u.unsent[1])
  BY <1>5 DEF Fits, Wnd
<1>7. f[1] = SendOne(u)
  BY <1>4, <1>5, <1>6 DEF Turn, Held
<1>8. Leads(SendOne(u), tcp_output(q, e), e)
  BY <1>2, <1>3, <1>7 DEF Leads
<1> QED
  BY <1>8 DEF u

\* The rest of the loop keeps the queues exact.
LEMMA LeadsSound ==
  ASSUME NEW r, NEW c, Bounded(c, r), ~c.persist, NEW n, Sound(c, n), NEW z, NEW e, Leads(c, z, e)
  PROVE  Sound(z, n)
<1>1. PICK f, m, s : m \in Nat /\ 1 \in 0 .. m /\ Loop(f, m, s, e) /\ f[1] = c /\ f[m] = z
  BY DEF Leads
<1>2. Sound(f[m], n)
  BY <1>1, LoopSound
<1> QED
  BY <1>1, <1>2

\* c has the queues of p, whose first segment in flight was sent again.
SentAgain(p, c) ==
  /\ p.unacked # <<>> /\ c.wire = p.wire \cup {p.unacked[1]}
  /\ c.unsent = p.unsent /\ c.unacked = p.unacked /\ c.lastack = p.lastack
  /\ c.snd_lbb = p.snd_lbb /\ c.snd_wnd = p.snd_wnd /\ c.dupacks = p.dupacks

\* Three duplicates: the segment that tcp_rexmit_fast takes out of the flight goes
\* out again in the first turn of the loop, and back to its place.
LEMMA FastFirst ==
  ASSUME NEW r, NEW p, Bounded(p, r), NEW n, Sound(p, n), Edge(p), NEW busy,
         NEW e, e.route, e.out = 3, tcp_rexmit_fast(p, busy) # p
  PROVE  \E c : /\ Bounded(c, r) /\ ~c.persist /\ SentAgain(p, c)
                /\ Leads(c, tcp_output(tcp_rexmit_fast(p, busy), e), e)
<1> DEFINE q == tcp_rexmit_fast(p, busy)
           g == p.unacked[1]
           u == Started(q)
<1>1. /\ p \in Pcb /\ p.unsent \in Seq(Segment) /\ p.unacked \in Seq(Segment)
      /\ p.lastack \in Nat /\ p.snd_wnd \in Nat /\ p.snd_wnd <= SndBuf /\ SndBuf \in Nat
  BY BoundedQueues, PcbParts, Const
<1>2. /\ q \in Pcb /\ p.unacked # <<>>
      /\ q.unacked = Tail(p.unacked) /\ q.unsent = Insert(p.unsent, g)
      /\ q.cwnd = SndBuf /\ q.infr /\ q.lastack = p.lastack /\ q.snd_lbb = p.snd_lbb
      /\ q.snd_wnd = p.snd_wnd /\ q.dupacks = p.dupacks /\ q.wire = p.wire
  BY <1>1, FastIs
<1>3. Bounded(q, r)
  BY FastBounded
<1> HIDE DEF q
<1>4. /\ g \in Segment /\ Len(p.unacked) \in Nat /\ Len(p.unacked) > 0 /\ Len(p.unsent) \in Nat
      /\ g.seq \in Nat /\ g.len \in Nat
  BY <1>1, <1>2, QueueParts, SegParts
<1>5. Chain(p.unacked \o p.unsent)
  BY DEF Sound, Whole, Exact
<1>6. ASSUME NEW x \in Segment, After(g, x) PROVE g.seq <= x.seq /\ ~(x.seq <= g.seq)
  <2>1. g.len > 0 /\ g.seq + g.len <= x.seq /\ x.seq \in Nat
    BY <1>6, SegParts DEF After
  <2> QED
    BY <1>4, <2>1
\* g is the first unsent segment and before what is in flight
<1>7. q.unsent \in Seq(Segment) /\ q.unsent # <<>> /\ q.unsent[1] = g /\ Tail(q.unsent) = p.unsent
  <2>1. p.unsent # <<>> => g.seq <= p.unsent[1].seq
    <3> SUFFICES ASSUME p.unsent # <<>> PROVE g.seq <= p.unsent[1].seq
      OBVIOUS
    <3>1. 1 \in 1 .. Len(p.unacked) /\ 1 \in 1 .. Len(p.unsent) /\ p.unsent[1] \in Segment
      BY <1>1, <1>4, QueueParts
    <3>2. After(g, p.unsent[1])
      BY <1>1, <1>5, <3>1, ChainParts
    <3> QED
      BY <1>6, <3>1, <3>2
  <2>2. PICK t : t = q.unsent
    OBVIOUS
  <2>3. t = Insert(p.unsent, g)
    BY <1>2, <2>2
  <2>4. /\ t \in Seq(Segment) /\ Len(t) = Len(p.unsent) + 1 /\ t[1] = g
        /\ \A i \in 1 .. Len(p.unsent) : t[i + 1] = p.unsent[i]
    <3>1. Prepends(t, p.unsent, g)
      BY <1>1, <1>4, <2>1, <2>3, InsertIs
    <3> QED
      BY <3>1 DEF Prepends
  <2>5. t # <<>>
    BY <1>4, <2>4, QueueParts
  <2>6. Tail(t) = p.unsent
    <3>1. Tail(t) \in Seq(Segment) /\ Len(Tail(t)) = Len(t) - 1 /\ \A i \in 1 .. Len(t) - 1 : Tail(t)[i] = t[i + 1]
      BY <2>4, <2>5, HeadTailProperties
    <3>2. Len(Tail(t)) = Len(p.unsent) /\ \A i \in 1 .. Len(p.unsent) : Tail(t)[i] = p.unsent[i]
      BY <1>4, <2>4, <3>1
    <3> QED
      BY <1>1, <3>1, <3>2, SeqEqual
  <2> QED
    BY <2>2, <2>4, <2>5, <2>6
<1>8. Fits(q, q.unsent[1])
  <2>1. 1 \in 1 .. Len(p.unacked)
    BY <1>4
  <2>2. g.seq + g.len <= p.lastack + p.snd_wnd
    BY <2>1 DEF Edge
  <2>3. g.seq - p.lastack + g.len <= p.snd_wnd
    BY <1>1, <1>4, <2>2
  <2>4. Wnd(q) = p.snd_wnd
    BY <1>1, <1>2 DEF Wnd
  <2> HIDE DEF g
  <2> QED
    BY <1>2, <1>7, <2>3, <2>4 DEF Fits
<1>9. PICK c : c = SendOne(u)
  OBVIOUS
<1>10. Leads(c, tcp_output(q, e), e)
  BY <1>2, <1>3, <1>7, <1>8, <1>9, OutputFirst
<1>12. /\ u.unsent = q.unsent /\ u.unacked = q.unacked /\ u \in Pcb /\ u.wire = q.wire
       /\ u.lastack = q.lastack /\ u.snd_lbb = q.snd_lbb /\ u.snd_wnd = q.snd_wnd /\ u.dupacks = q.dupacks
  BY <1>2 DEF Started, Pcb
<1>13. Bounded(u, r) /\ ~u.persist
  BY <1>3, StartedBounded
<1> HIDE DEF u
<1>15. Bounded(c, r) /\ ~c.persist
  BY <1>7, <1>9, <1>12, <1>13, SendOneBounded
<1>16. /\ c.unsent = Tail(u.unsent)
       /\ c.unacked = IF u.unacked = <<>> \/ u.unacked[Len(u.unacked)].seq <= g.seq
                      THEN Append(u.unacked, g) ELSE Insert(u.unacked, g)
       /\ c.lastack = u.lastack /\ c.snd_lbb = u.snd_lbb /\ c.snd_wnd = u.snd_wnd
       /\ c.dupacks = u.dupacks /\ c.wire = u.wire \cup {g}
  BY <1>7, <1>9, <1>12, SendOneIs
<1>17. c.unsent = p.unsent
  BY <1>7, <1>12, <1>16
<1>18. c.unacked = p.unacked
  <2>1. PICK t : t = Tail(p.unacked)
    OBVIOUS
  <2>2. /\ t \in Seq(Segment) /\ Len(t) = Len(p.unacked) - 1
        /\ \A i \in 1 .. Len(p.unacked) - 1 : t[i] = p.unacked[i + 1]
    BY <1>1, <1>2, <1>4, <2>1, HeadTailProperties
  <2>3. u.unacked = t
    BY <1>2, <1>12, <2>1
  <2>4. ASSUME NEW i \in 1 .. Len(t) PROVE t[i] \in Segment /\ After(g, t[i])
    <3>1. PICK j \in 1 .. Len(p.unacked) : j = i + 1 /\ 1 < j /\ 1 \in 1 .. Len(p.unacked)
      BY <1>4, <2>2
    <3>2. t[i] = p.unacked[j] /\ p.unacked[j] \in Segment
      BY <1>1, <2>2, <3>1, QueueParts
    <3>3. After(p.unacked[1], p.unacked[j])
      BY <1>1, <1>5, <3>1, ChainFirst
    <3> QED
      BY <3>2, <3>3
  <2>5. CASE t = <<>>
    <3>1. c.unacked = Append(<<>>, g)
      BY <1>16, <2>3, <2>5
    <3>2. Len(p.unacked) = 1
      BY <1>4, <2>2, <2>5, QueueParts
    <3>3. p.unacked = <<g>>
      BY <1>1, <3>2, OneSegment
    <3> QED
      BY <1>4, <3>1, <3>3
  <2>6. CASE t # <<>>
    <3>1. 1 \in 1 .. Len(t) /\ Len(t) \in 1 .. Len(t)
      BY <2>2, <2>6, QueueParts
    <3>2. ~(t[Len(t)].seq <= g.seq) /\ g.seq <= t[1].seq
      BY <1>6, <2>4, <3>1
    <3>3. PICK v : v = c.unacked
      OBVIOUS
    <3>4. v = Insert(t, g)
      BY <1>16, <2>3, <2>6, <3>2, <3>3
    <3>5. /\ v \in Seq(Segment) /\ Len(v) = Len(t) + 1 /\ v[1] = g
          /\ \A i \in 1 .. Len(t) : v[i + 1] = t[i]
      <4>1. t \in Seq(Segment) /\ g \in Segment
        BY <1>4, <2>2
      <4>2. Prepends(v, t, g)
        BY <3>2, <3>4, <4>1, InsertIs
      <4> QED
        BY <4>2 DEF Prepends
    <3>6. ASSUME NEW i \in 1 .. Len(p.unacked) PROVE v[i] = p.unacked[i]
      <4>1. CASE i = 1
        BY <3>5, <4>1
      <4>2. CASE i > 1
        <5>1. PICK j \in 1 .. Len(t) : j + 1 = i
          <6>1. i - 1 \in 1 .. Len(t) /\ (i - 1) + 1 = i
            BY <1>4, <2>2, <4>2
          <6> QED
            BY <6>1
        <5>2. v[j + 1] = t[j] /\ t[j] = p.unacked[j + 1]
          BY <1>4, <2>2, <3>5
        <5> QED
          BY <5>1, <5>2
      <4>3. i = 1 \/ i > 1
        OBVIOUS
      <4> QED
        BY <4>1, <4>2, <4>3
    <3>7. Len(v) = Len(p.unacked)
      BY <1>4, <2>2, <3>5
    <3>8. v = p.unacked
      BY <1>1, <3>5, <3>6, <3>7, SeqEqual
    <3> QED
      BY <3>3, <3>8
  <2> QED
    BY <2>5, <2>6
<1>19. SentAgain(p, c)
  BY <1>2, <1>12, <1>16, <1>17, <1>18 DEF SentAgain
<1> QED
  BY <1>10, <1>15, <1>19 DEF q

\* Fast retransmit and the output that follows keep the queues exact.
LEMMA FastSound ==
  ASSUME NEW r, NEW p, Bounded(p, r), NEW n, Sound(p, n), Edge(p), NEW busy,
         NEW e, e.route, e.out = 3
  PROVE  Sound(tcp_output(tcp_rexmit_fast(p, busy), e), n)
<1>1. CASE tcp_rexmit_fast(p, busy) = p
  BY <1>1, OutputSound
<1>2. CASE tcp_rexmit_fast(p, busy) # p
  <2>z. PICK z : z = tcp_output(tcp_rexmit_fast(p, busy), e)
    OBVIOUS
  <2>1. PICK c : Bounded(c, r) /\ ~c.persist /\ SentAgain(p, c) /\ Leads(c, z, e)
    BY <1>2, <2>z, FastFirst
  <2>2. Sound(c, n)
    BY <2>1 DEF SentAgain, Sound, Whole, Edge
  <2>3. Sound(z, n)
    BY <2>1, <2>2, LeadsSound
  <2> QED
    BY <2>z, <2>3
<1> QED
  BY <1>1, <1>2

\* What fast retransmit needs: the peer keeps to its window and the transmit path
\* works, or there are no three ACKs.
Reliable == (~Failures /\ ~Shrinks) \/ MaxAcks < 3

\* More ACKs allow more duplicates.
LEMMA SoundMore ==
  ASSUME NEW r, NEW p, Bounded(p, r), NEW n \in Nat, Sound(p, n), NEW m \in Nat, n <= m
  PROVE  Sound(p, m)
<1>1. p.dupacks \in Nat
  BY BoundedQueues, PcbParts
<1>2. p.dupacks <= m
  BY <1>1 DEF Sound
<1> QED
  BY <1>2 DEF Sound

\* tcp_process resets the probe count.
LEMMA NoProbes ==
  ASSUME NEW r, NEW p, Bounded(p, r), NEW q, q = [p EXCEPT !.probe = 0]
  PROVE  /\ Bounded(q, r) /\ q.lastack = p.lastack /\ q.snd_wnd = p.snd_wnd /\ q.dupacks = p.dupacks
         /\ \A n : Sound(p, n) => Sound(q, n)
<1>1. p \in Pcb /\ p.snd_wnd \in Nat /\ 0 \in 0 .. MaxRtx
  BY BoundedQueues, PcbParts, Const
<1>2. /\ q \in Pcb /\ q.snd_lbb = p.snd_lbb /\ q.fin = p.fin /\ q.snd_nxt = p.snd_nxt
      /\ q.wire = p.wire /\ q.lastack = p.lastack /\ q.unsent = p.unsent
      /\ q.unacked = p.unacked /\ q.persist = p.persist /\ q.rtime = p.rtime
      /\ q.snd_wnd = p.snd_wnd /\ q.dupacks = p.dupacks
  BY <1>1 DEF Pcb
<1>3. Bounded(q, r)
  BY <1>2, BoundedSame
<1>4. ASSUME NEW n, Sound(p, n) PROVE Sound(q, n)
  <2>1. q.snd_wnd \in Nat /\ q.snd_wnd >= p.snd_wnd /\ q.dupacks <= n
    BY <1>1, <1>2, <1>4 DEF Sound
  <2> QED
    BY <1>2, <1>4, <2>1, SoundSame
<1> QED
  BY <1>2, <1>3, <1>4

\* An ACK that repeats lastack, and the output that follows.
LEMMA DuplicateSound ==
  ASSUME Reliable, NEW r, NEW p, Bounded(p, r), NEW n \in Nat, n < MaxAcks, Sound(p, n),
         NEW w \in Windows, NEW busy, NEW e \in Env
  PROVE  Sound(tcp_output(DuplicateAck(p, w, busy), e), n + 1)
<1>1. p \in Pcb /\ p.dupacks \in Nat
  BY BoundedQueues, PcbParts
<1>q. PICK q : q = DuplicateAck(p, w, busy)
  OBVIOUS
<1>2. CASE Counted(p, q, w)
  <2>1. Bounded(q, r)
    BY <1>2, CountedBounded
  <2>2. Sound(q, n + 1)
    BY <1>2, CountedSound
  <2> QED
    BY <1>q, <2>1, <2>2, OutputSound
<1>3. CASE \E c : Counted(p, c, w) /\ p.dupacks >= 2 /\ c.snd_wnd = p.snd_wnd /\ q = tcp_rexmit_fast(c, busy)
  <2>1. PICK c : Counted(p, c, w) /\ p.dupacks >= 2 /\ c.snd_wnd = p.snd_wnd /\ q = tcp_rexmit_fast(c, busy)
    BY <1>3
  <2>2. Bounded(c, r)
    BY <2>1, CountedBounded
  <2>3. Sound(c, n + 1)
    BY <2>1, CountedSound
  <2>4. p.dupacks <= n
    BY DEF Sound
  <2>5. ~(MaxAcks < 3)
    BY <1>1, <2>1, <2>4, Const
  <2>6. ~Failures /\ ~Shrinks
    BY <2>5 DEF Reliable
  <2>7. Edge(c)
    BY <2>3, <2>6 DEF Sound
  <2>8. e.route /\ e.out = 3
    BY <2>6 DEF Env
  <2>9. Sound(tcp_output(tcp_rexmit_fast(c, busy), e), n + 1)
    BY <2>2, <2>3, <2>7, <2>8, FastSound
  <2> QED
    BY <1>q, <2>1, <2>9
<1>4. \/ Counted(p, q, w)
      \/ \E c : Counted(p, c, w) /\ p.dupacks >= 2 /\ c.snd_wnd = p.snd_wnd /\ q = tcp_rexmit_fast(c, busy)
  BY <1>1, <1>q, DuplicateIs
<1> QED
  BY <1>2, <1>3, <1>4

\* Any ACK, with the callback and the output that follow.
LEMMA AckSound ==
  ASSUME Reliable, NEW r, NEW p, Bounded(p, r), NEW m \in Nat, m < MaxAcks, Sound(p, m),
         NEW a \in Nat, a <= r, NEW w \in Windows, NEW busy, NEW e \in Env,
         a > p.lastack /\ ~Shrinks => a + w >= p.lastack + p.snd_wnd,
         NEW n \in Writes(tcp_receive(p, a, w, busy))
  PROVE  Sound(tcp_output(Callback(p, tcp_receive(p, a, w, busy), a, n, e), e), m + 1)
<1>1. p \in Pcb /\ p.lastack \in Nat
  BY BoundedQueues, PcbParts
<1>q. PICK q : q = [p EXCEPT !.probe = 0]
  OBVIOUS
<1>2. Bounded(q, r) /\ q.lastack = p.lastack /\ q.snd_wnd = p.snd_wnd /\ Sound(q, m)
  BY <1>q, NoProbes
<1>t. PICK t : t = tcp_receive(p, a, w, busy)
  OBVIOUS
<1>3. t = IF a > p.lastack THEN NewAck(q, a, w)
          ELSE IF a = p.lastack THEN DuplicateAck(q, w, busy) ELSE [q EXCEPT !.dupacks = 0]
  BY <1>q, <1>t DEF tcp_receive
<1>4. Bounded(t, r) /\ n \in Writes(t)
  BY <1>t, ReceiveBounded
<1>5. CASE a > p.lastack
  <2>1. q.lastack < a /\ (~Shrinks => a + w >= q.lastack + q.snd_wnd) /\ t = NewAck(q, a, w)
    BY <1>1, <1>2, <1>3, <1>5
  <2>2. Sound(t, m)
    BY <1>2, <2>1, NewAckSound
  <2>3. m <= m + 1 /\ m + 1 \in Nat
    OBVIOUS
  <2>4. Sound(t, m + 1)
    BY <1>4, <2>2, <2>3, SoundMore
  <2>c. PICK c : c = Callback(p, t, a, n, e)
    OBVIOUS
  <2>5. Sound(c, m + 1)
    BY <1>4, <2>4, <2>c, AppSendSound DEF Callback
  <2>6. Bounded(c, r)
    BY <1>4, <2>c, CallbackBounded
  <2>7. Sound(tcp_output(c, e), m + 1)
    BY <2>5, <2>6, OutputSound
  <2> QED
    BY <1>t, <2>c, <2>7
<1>6. CASE ~(a > p.lastack)
  <2>1. Callback(p, t, a, n, e) = t
    BY <1>6 DEF Callback, AcksBytes
  <2>2. CASE a = p.lastack
    <3>1. t = DuplicateAck(q, w, busy)
      BY <1>3, <1>6, <2>2
    <3>2. Sound(tcp_output(DuplicateAck(q, w, busy), e), m + 1)
      BY <1>2, DuplicateSound
    <3> QED
      BY <1>t, <2>1, <3>1, <3>2
  <2>3. CASE a # p.lastack
    <3> DEFINE z == [q EXCEPT !.dupacks = 0]
    <3>1. t = z
      BY <1>3, <1>6, <2>3
    <3>2. q \in Pcb /\ q.snd_wnd \in Nat /\ 0 \in 0 .. 3
      BY <1>2, BoundedQueues, PcbParts
    <3>3. /\ z.unacked = q.unacked /\ z.unsent = q.unsent /\ z.lastack = q.lastack
          /\ z.snd_lbb = q.snd_lbb /\ z.snd_wnd = q.snd_wnd /\ z.dupacks = 0
      BY <3>2 DEF Pcb
    <3> HIDE DEF z
    <3>4. z.snd_wnd \in Nat /\ z.snd_wnd >= q.snd_wnd /\ z.dupacks <= m + 1
      BY <3>2, <3>3
    <3>5. Sound(z, m + 1)
      BY <1>2, <3>3, <3>4, SoundSame
    <3>6. Sound(tcp_output(t, e), m + 1)
      BY <1>4, <3>1, <3>5, OutputSound
    <3> QED
      BY <1>t, <2>1, <3>6
  <2> QED
    BY <2>2, <2>3
<1> QED
  BY <1>5, <1>6

\* A probe leaves the queues.
LEMMA ProbeSound ==
  ASSUME NEW r, NEW p, Bounded(p, r), NEW n, Sound(p, n), p.probe < MaxRtx, NEW e
  PROVE  Sound(tcp_zero_window_probe(p, e), n)
<1>1. CASE p.unsent = <<>>
  BY <1>1 DEF tcp_zero_window_probe
<1>2. CASE p.unsent # <<>>
  <2>q. PICK q : q = tcp_zero_window_probe(p, e)
    OBVIOUS
  <2>1. /\ q.unsent = p.unsent /\ q.unacked = p.unacked /\ q.lastack = p.lastack
        /\ q.snd_lbb = p.snd_lbb /\ q.snd_wnd = p.snd_wnd /\ q.dupacks = p.dupacks
    BY <1>2, <2>q, ProbeIs
  <2>2. q.snd_wnd \in Nat /\ q.snd_wnd >= p.snd_wnd /\ q.dupacks <= n
    BY <2>1, BoundedQueues, PcbParts DEF Sound
  <2>3. Sound(q, n)
    BY <2>1, <2>2, SoundSame
  <2> QED
    BY <2>q, <2>3
<1> QED
  BY <1>1, <1>2

\* The timer's expiry moves everything in flight before the unsent.
LEMMA ExpiredSound ==
  ASSUME NEW r, NEW p, Bounded(p, r), NEW n, Sound(p, n), p.nrtx < MaxRtx
  PROVE  Sound(Expired(p), n)
<1>q. PICK q : q = Expired(p)
  OBVIOUS
<1>1. /\ q.unsent = p.unacked \o p.unsent /\ q.unacked = <<>> /\ q.lastack = p.lastack
      /\ q.snd_lbb = p.snd_lbb /\ q.snd_wnd = p.snd_wnd /\ q.dupacks = p.dupacks
  BY <1>q, ExpiredIs
<1>2. p.unacked \o p.unsent \in Seq(Segment)
  BY SoundParts
<1>3. q.unacked \o q.unsent = p.unacked \o p.unsent
  BY <1>1, <1>2, ConcatEmptySeq
<1>4. Whole(q)
  BY <1>1, <1>3 DEF Sound, Whole
<1>5. Edge(q)
  BY <1>1 DEF Edge
<1>6. Sound(q, n)
  BY <1>1, <1>4, <1>5 DEF Sound
<1> QED
  BY <1>q, <1>6

\* A queue whose first segment is cut in two.
LEMMA ExactCut ==
  ASSUME NEW s \in Seq(Segment), s # <<>>, NEW ack \in Nat, NEW lbb \in Nat, NEW wnd \in Nat,
         Exact(s, ack, lbb, wnd), wnd > 0, wnd < s[1].len, NEW v, SplitInto(s, v, wnd)
  PROVE  Exact(v, ack, lbb, wnd)
<1>1. /\ v \in Seq(Segment) /\ Len(v) = Len(s) + 1 /\ Len(s) \in Nat /\ Len(s) > 0 /\ s[1] \in Segment
  BY QueueParts DEF SplitInto
<1>2. 1 \in 1 .. Len(v) /\ 2 \in 1 .. Len(v)
  BY <1>1
<1>3. v[1] \in Segment /\ v[2] \in Segment
  BY <1>1, <1>2, QueueParts
<1>4. PICK g \in Segment, h \in Segment, x \in Segment : g = s[1] /\ h = v[1] /\ x = v[2]
  BY <1>1, <1>3
<1>5. /\ wnd < g.len /\ h.seq = g.seq /\ h.len = wnd /\ h.fin = g.fin
      /\ x.seq = g.seq + wnd /\ x.len = g.len - wnd /\ x.fin = g.fin
  BY <1>4 DEF SplitInto
<1>6. \A i \in 3 .. Len(v) : v[i] = s[i - 1]
  BY DEF SplitInto
<1> QED
  BY <1>1, <1>4, <1>5, <1>6, ExactSplit

\* A cut of the first unsent segment, with nothing in flight.
LEMMA SplitSound ==
  ASSUME NEW r, NEW p, Bounded(p, r), NEW n, Sound(p, n), p.persist, p.unsent # <<>>, p.snd_wnd > 0
  PROVE  Sound(tcp_split_unsent_seg(p), n)
<1>1. /\ p \in Pcb /\ p.unacked = <<>> /\ p.unsent \in Seq(Segment) /\ p.snd_wnd \in Nat
      /\ p.lastack \in Nat /\ p.snd_lbb \in Nat
  BY BoundedQueues, PcbParts DEF Timed
<1>2. p.unsent[1] \in Segment /\ p.unsent[1].len \in Nat
  BY <1>1, QueueParts, SegParts
<1>3. CASE p.unsent[1].len <= p.snd_wnd
  BY <1>3 DEF tcp_split_unsent_seg
<1>4. CASE p.snd_wnd < p.unsent[1].len
  <2>q. PICK q : q = tcp_split_unsent_seg(p)
    OBVIOUS
  <2>1. /\ q \in Pcb /\ SplitInto(p.unsent, q.unsent, p.snd_wnd) /\ q.unacked = p.unacked
        /\ q.lastack = p.lastack /\ q.snd_lbb = p.snd_lbb /\ q.snd_wnd = p.snd_wnd /\ q.dupacks = p.dupacks
    BY <1>4, <2>q, SplitIs
  <2>s. PICK s : s = p.unsent
    OBVIOUS
  <2>v. PICK v : v = q.unsent
    OBVIOUS
  <2>2. s \in Seq(Segment) /\ v \in Seq(Segment)
    BY <1>1, <2>1, <2>s, <2>v, PcbParts
  <2>3. p.unacked \o p.unsent = s /\ q.unacked \o q.unsent = v
    BY <1>1, <2>1, <2>2, <2>s, <2>v, ConcatEmptySeq
  <2>4. Exact(s, p.lastack, p.snd_lbb, p.snd_wnd)
    BY <2>3 DEF Sound, Whole
  <2>5. Exact(v, p.lastack, p.snd_lbb, p.snd_wnd)
    <3>1. /\ s # <<>> /\ p.snd_wnd > 0 /\ p.snd_wnd < s[1].len /\ SplitInto(s, v, p.snd_wnd)
          /\ p.lastack \in Nat /\ p.snd_lbb \in Nat /\ p.snd_wnd \in Nat
      BY <1>1, <1>4, <2>1, <2>s, <2>v
    <3> QED
      BY <2>2, <2>4, <3>1, ExactCut
  <2>6. Whole(q)
    BY <2>1, <2>3, <2>5 DEF Whole
  <2>7. Edge(q)
    BY <1>1, <2>1 DEF Edge
  <2>8. Sound(q, n)
    BY <2>1, <2>6, <2>7 DEF Sound
  <2> QED
    BY <2>q, <2>8
<1> QED
  BY <1>1, <1>2, <1>3, <1>4

\* The invariant behind QueuesExact and LbbIsNext.
Holds == Kept /\ (k.open => Sound(k, acks))

\* The queues of a new connection are empty.
LEMMA HoldsInit == Init => Holds
<1> SUFFICES ASSUME Init PROVE Holds
  OBVIOUS
<1>1. Kept
  BY KeptInit
<1>2. PICK w \in Windows :
        k = [unsent |-> <<>>, unacked |-> <<>>, lastack |-> 0, snd_nxt |-> 0,
             snd_lbb |-> 0, snd_wnd |-> w, cwnd |-> SndBuf, rtime |-> -1,
             nrtx |-> 0, rto_end |-> -1, persist |-> FALSE, probe |-> 0,
             dupacks |-> 0, infr |-> FALSE, fin |-> FALSE, open |-> TRUE, wire |-> {}]
  BY DEF Init
<1>3. /\ k.unsent = <<>> /\ k.unacked = <<>> /\ k.lastack = 0 /\ k.snd_lbb = 0 /\ k.dupacks = 0
      /\ acks = 0
  BY <1>2 DEF Init
<1>4. <<>> \in Seq(Segment) /\ Len(<<>>) = 0
  BY EmptySeq
<1>5. k.unacked \o k.unsent = <<>>
  BY <1>3, <1>4, ConcatEmptySeq
<1>6. Chain(<<>>)
  BY <1>4 DEF Chain
<1>7. Whole(k)
  BY <1>3, <1>5, <1>6 DEF Whole, Exact
<1>8. Edge(k)
  BY <1>3, <1>4 DEF Edge
<1> QED
  BY <1>1, <1>3, <1>7, <1>8 DEF Holds, Sound

\* Every step keeps the queues exact.
LEMMA HoldsNext ==
  ASSUME Reliable, Holds, [Next]_vars
  PROVE  Holds'
<1>1. Kept /\ Bounded(k, rcv) /\ acks \in Nat /\ k \in Pcb /\ rcv \in Nat /\ (k.open => Sound(k, acks))
  BY BoundedQueues, Const DEF Holds, Kept
<1>2. Kept'
  BY <1>1, KeptNext
<1> SUFFICES k'.open => Sound(k', acks')
  BY <1>2 DEF Holds
<1>3. CASE Application
  <2>1. PICK n \in Writes(k), e \in Env : k' = tcp_output(AppSend(k, n, e), e)
    BY <1>3 DEF Application
  <2>2. k.open /\ acks' = acks
    BY <1>3 DEF Application
  <2>3. PICK p : p = AppSend(k, n, e)
    OBVIOUS
  <2>4. Bounded(p, rcv)
    BY <1>1, <2>3, AppSendBounded
  <2>5. Sound(p, acks)
    BY <1>1, <2>2, <2>3, AppSendSound
  <2>6. Sound(tcp_output(p, e), acks)
    BY <2>4, <2>5, OutputSound
  <2> QED
    BY <2>1, <2>2, <2>3, <2>6
<1>4. CASE AckArrives
  <2>1. PICK a \in 0 .. rcv, w \in Windows, busy \in BOOLEAN :
          /\ a > k.lastack /\ ~Shrinks => a + w >= k.lastack + k.snd_wnd
          /\ \E n \in Writes(tcp_receive(k, a, w, busy)), e \in Env :
                k' = tcp_output(Callback(k, tcp_receive(k, a, w, busy), a, n, e), e)
    BY <1>4 DEF AckArrives
  <2>2. PICK n \in Writes(tcp_receive(k, a, w, busy)), e \in Env :
          k' = tcp_output(Callback(k, tcp_receive(k, a, w, busy), a, n, e), e)
    BY <2>1
  <2>3. k.open /\ acks < MaxAcks /\ acks' = acks + 1 /\ a \in Nat /\ a <= rcv
    BY <1>1, <1>4 DEF AckArrives
  <2>4. a > k.lastack /\ ~Shrinks => a + w >= k.lastack + k.snd_wnd
    BY <2>1
  <2>5. Sound(k, acks)
    BY <1>1, <2>3
  <2>6. Sound(tcp_output(Callback(k, tcp_receive(k, a, w, busy), a, n, e), e), acks + 1)
    BY <1>1, <2>3, <2>4, <2>5, AckSound
  <2> QED
    BY <2>2, <2>3, <2>6
<1>5. ASSUME NEW e \in Env, PersistTmr(e) PROVE Sound(k', acks')
  <2>1. /\ k.open /\ k.persist /\ k.probe < MaxRtx /\ acks' = acks
        /\ k' = IF k.snd_wnd = 0 THEN tcp_zero_window_probe(k, e)
                ELSE IF k.unsent = <<>> \/ ~e.mem THEN k
                ELSE tcp_output(tcp_split_unsent_seg(k), e)
    BY <1>5 DEF PersistTmr
  <2>2. Sound(k, acks)
    BY <1>1, <2>1
  <2>3. CASE k' = tcp_zero_window_probe(k, e)
    <3>1. Sound(tcp_zero_window_probe(k, e), acks)
      BY <1>1, <2>1, <2>2, ProbeSound
    <3> QED
      BY <2>1, <2>3, <3>1
  <2>4. CASE k' = k
    BY <2>1, <2>2, <2>4
  <2>5. CASE k.snd_wnd # 0 /\ k.unsent # <<>> /\ k' = tcp_output(tcp_split_unsent_seg(k), e)
    <3>1. k.snd_wnd > 0
      BY <1>1, <2>5, PcbParts
    <3>2. PICK p : p = tcp_split_unsent_seg(k)
      OBVIOUS
    <3>3. Bounded(p, rcv)
      BY <1>1, <2>5, <3>1, <3>2, SplitBounded
    <3>4. Sound(p, acks)
      BY <1>1, <2>1, <2>2, <2>5, <3>1, <3>2, SplitSound
    <3>5. Sound(tcp_output(p, e), acks)
      BY <3>3, <3>4, OutputSound
    <3> QED
      BY <2>1, <2>5, <3>2, <3>5
  <2> QED
    BY <2>1, <2>3, <2>4, <2>5
<1>6. ASSUME NEW e \in Env, RtoTmr(e) PROVE Sound(k', acks')
  <2>1. k.open /\ k.nrtx < MaxRtx /\ acks' = acks /\ k' = tcp_output(Expired(k), e)
    BY <1>6 DEF RtoTmr, Expired
  <2>2. PICK p : p = Expired(k)
    OBVIOUS
  <2>3. Bounded(p, rcv)
    BY <1>1, <2>1, <2>2, ExpiredBounded
  <2>4. Sound(p, acks)
    BY <1>1, <2>1, <2>2, ExpiredSound
  <2>5. Sound(tcp_output(p, e), acks)
    BY <2>3, <2>4, OutputSound
  <2> QED
    BY <2>1, <2>2, <2>5
<1>7. CASE GiveUp
  <2>1. k' = [k EXCEPT !.open = FALSE, !.unsent = <<>>, !.unacked = <<>>]
    BY <1>7 DEF GiveUp
  <2>2. ~k'.open
    BY <1>1, <2>1 DEF Pcb
  <2> QED
    BY <2>2
<1>8. CASE k' = k /\ acks' = acks
  BY <1>1, <1>8
<1> QED
  BY <1>3, <1>4, <1>5, <1>6, <1>7, <1>8 DEF Next, PeerReceives, vars

\* From the invariant to QueuesExact and LbbIsNext.
LEMMA HoldsExact == Holds => QueuesExact /\ LbbIsNext
<1> SUFFICES ASSUME Holds, k.open PROVE QueuesExact /\ LbbIsNext
  BY DEF QueuesExact, LbbIsNext
<1>1. Bounded(k, rcv) /\ Sound(k, acks)
  BY DEF Holds, Kept
<1>2. Queued \in Seq(Segment) /\ k.lastack \in Nat /\ k.snd_lbb \in Nat /\ k.snd_wnd \in Nat
  BY <1>1, SoundParts DEF Queued
<1>3. PICK q : q = Queued
  OBVIOUS
<1>4. Exact(q, k.lastack, k.snd_lbb, k.snd_wnd)
  BY <1>1, <1>3 DEF Sound, Whole, Queued
<1>5. /\ q \in Seq(Segment) /\ Len(q) \in Nat /\ DOMAIN q = 1 .. Len(q)
      /\ \A i \in 1 .. Len(q) : q[i] \in Segment
      /\ q # <<>> => Len(q) > 0
  BY <1>2, <1>3, QueueParts
<1>6. ASSUME q # <<>>
      PROVE  /\ q[1].seq <= k.lastack
             /\ \E i \in {1, 2} \cap DOMAIN q : k.lastack < End(q[i])
  <2>1. StartsAt(q, k.lastack, k.snd_wnd)
    BY <1>4, <1>6 DEF Exact
  <2>2. 1 \in DOMAIN q /\ (Len(q) > 1 => 2 \in DOMAIN q)
    BY <1>5, <1>6
  <2> QED
    BY <2>1, <2>2 DEF StartsAt
<1>7. ASSUME q # <<>> PROVE End(q[Len(q)]) >= k.snd_lbb
  <2>1. PICK g \in Segment : g = q[Len(q)]
    BY <1>5, <1>7
  <2>2. Behind(g) = k.snd_lbb
    BY <1>4, <1>7, <2>1 DEF Exact
  <2>3. QueuePlaced(Queued, k)
    BY <1>1, SoundParts DEF Queued
  <2>4. Placed(g, k)
    BY <1>3, <1>5, <1>7, <2>1, <2>3 DEF QueuePlaced
  <2>5. g.len = 0 => g.fin
    BY <2>4 DEF Placed
  <2>6. /\ g.seq \in Nat /\ g.len \in Nat /\ g.fin \in BOOLEAN
        /\ End(g) = IF g.fin THEN g.seq + g.len + 1 ELSE g.seq + g.len
    BY SegParts
  <2>7. End(g) >= k.snd_lbb
    BY <2>2, <2>5, <2>6 DEF Behind
  <2> QED
    BY <2>1, <2>7
<1>8. ASSUME NEW i \in 1 .. Len(q) - 1
      PROVE  q[i].seq + q[i].len = q[i + 1].seq /\ (q[i].fin => q[i + 1].fin)
  <2>1. PICK j \in 1 .. Len(q) : j = i + 1 /\ i \in 1 .. Len(q) /\ i < j
    BY <1>5
  <2>2. Chain(q)
    BY <1>4 DEF Exact
  <2>3. After(q[i], q[j]) /\ q[i].seq + q[i].len = q[j].seq
    BY <2>1, <2>2 DEF Chain
  <2> QED
    BY <2>1, <2>3 DEF After
<1>9. ASSUME NEW i \in DOMAIN q, i = Len(q), q[i].len > 0
      PROVE  q[i].seq + q[i].len = k.snd_lbb
  <2>1. q # <<>> /\ q[i] \in Segment
    BY <1>5, <1>9, QueueParts
  <2>2. Behind(q[i]) = k.snd_lbb /\ q[i].len \in Nat
    BY <1>4, <1>9, <2>1, SegParts DEF Exact
  <2> QED
    BY <1>9, <2>2 DEF Behind
<1>10. q = <<>> => k.lastack >= k.snd_lbb
  BY <1>4 DEF Exact
<1>11. QueuesExact
  BY <1>3, <1>6, <1>7, <1>8, <1>10 DEF QueuesExact
<1>12. LbbIsNext
  BY <1>3, <1>9 DEF LbbIsNext
<1> QED
  BY <1>11, <1>12

\* Retransmission, splitting, acknowledgement and refilling of the queues never
\* lose, repeat or reorder a byte between what the peer has acknowledged and what
\* the application has written: for every MSS, amount of data, number of
\* retransmissions and ACKs, if the peer keeps its window and IP takes what it is
\* given, and also otherwise as long as no fast retransmit happens.
THEOREM QueuesKept == Reliable => (Spec => []QueuesExact)
<1> SUFFICES ASSUME Reliable PROVE Spec => []QueuesExact
  OBVIOUS
<1>1. Holds /\ [Next]_vars => Holds'
  BY HoldsNext
<1>2. Holds => QueuesExact
  BY HoldsExact
<1> QED
  BY HoldsInit, <1>1, <1>2, PTL DEF Spec

\* Under the same hypothesis snd_lbb is the number of the next byte to be
\* buffered, as tcp.h says, so that what tcp_write adds joins what is queued.
THEOREM LbbKept == Reliable => (Spec => []LbbIsNext)
<1> SUFFICES ASSUME Reliable PROVE Spec => []LbbIsNext
  OBVIOUS
<1>1. Holds /\ [Next]_vars => Holds'
  BY HoldsNext
<1>2. Holds => LbbIsNext
  BY HoldsExact
<1> QED
  BY HoldsInit, <1>1, <1>2, PTL DEF Spec

-----------------------------------------------------------------------------
(***************************************************************************)
(* The FIN on the wire                                                     *)
(***************************************************************************)
\* What carried the FIN was within the window.
Within(W, edge) == \A g \in W : g.fin => g.seq + g.len <= edge

\* What is in flight has been sent.
InFlight(s, W) == \A i \in 1 .. Len(s) : s[i] \in W

\* Nothing that was sent or received goes beyond the bytes of g.
Clear(g, W, r) == r <= g.seq + g.len /\ \A x \in W : End(x) <= g.seq + g.len

\* From the bth unsent segment: one with the FIN that was not sent cannot have
\* been acknowledged.
Fresh(s, W, r, b) ==
  \A i \in 1 .. Len(s) : i >= b /\ s[i].fin /\ s[i] \notin W => Clear(s[i], W, r)

\* What carried the FIN ends with the last byte or another segment with the FIN
\* begins there.
Follows(g, W, s) ==
  \/ g.seq + g.len = Bytes
  \/ \E h \in W : h.fin /\ h.seq = g.seq + g.len
  \/ \E i \in 1 .. Len(s) : s[i].fin /\ s[i].seq = g.seq + g.len

Followed(W, s) == \A g \in W : g.fin => Follows(g, W, s)

Seen(p, r, b) ==
  /\ Within(p.wire, p.lastack + p.snd_wnd)
  /\ InFlight(p.unacked, p.wire)
  /\ Fresh(p.unsent, p.wire, r, b)
  /\ Followed(p.wire, p.unsent)

\* While the persist timer runs, the first unsent segment is beyond the window.
Waits(p) ==
  p.persist /\ p.unsent # <<>> => p.unsent[1].seq + p.unsent[1].len > p.lastack + p.snd_wnd

\* What Seen is about.
LEMMA SeenParts ==
  ASSUME NEW r, NEW p, Bounded(p, r)
  PROVE  /\ p \in Pcb /\ p.unacked \in Seq(Segment) /\ p.unsent \in Seq(Segment)
         /\ p.wire \subseteq Segment /\ \A g \in p.wire : Placed(g, p) /\ End(g) <= p.snd_nxt
         /\ p.lastack \in Nat /\ p.snd_wnd \in Nat /\ p.snd_lbb \in Nat /\ p.snd_nxt \in Nat
         /\ r \in Nat /\ p.lastack <= r /\ r <= p.snd_nxt /\ p.fin \in BOOLEAN
<1>1. p \in Pcb /\ AllPlaced(p) /\ Numbers(p, r)
  BY DEF Bounded
<1>2. \A g \in p.wire : Placed(g, p) /\ End(g) <= p.snd_nxt
  BY <1>1 DEF AllPlaced
<1>3. r \in Nat /\ p.lastack <= r /\ r <= p.snd_nxt
  BY <1>1 DEF Numbers
<1> QED
  BY <1>1, <1>2, <1>3, PcbParts

\* A moved edge.
LEMMA WithinMoves ==
  ASSUME NEW W \in SUBSET Segment, NEW l \in Nat, NEW s \in Nat, NEW a \in Nat, NEW w \in Nat,
         Within(W, l + s), a + w >= l + s
  PROVE  Within(W, a + w)
<1> SUFFICES ASSUME NEW g \in W, g.fin PROVE g.seq + g.len <= a + w
  BY DEF Within
<1>1. g \in Segment /\ g.seq + g.len <= l + s
  BY DEF Within
<1> QED
  BY <1>1, EdgeMoves

\* Steps that leave the queues or open the window.
LEMMA SeenSame ==
  ASSUME NEW r, NEW p, Bounded(p, r), NEW b, Seen(p, r, b), NEW q,
         q.unacked = p.unacked, q.unsent = p.unsent, q.lastack = p.lastack, q.wire = p.wire,
         q.snd_wnd \in Nat, q.snd_wnd >= p.snd_wnd
  PROVE  Seen(q, r, b)
<1>1. p.lastack \in Nat /\ p.snd_wnd \in Nat /\ p.wire \in SUBSET Segment
  BY SeenParts
<1>2. p.lastack + q.snd_wnd >= p.lastack + p.snd_wnd
  BY <1>1
<1>3. Within(p.wire, p.lastack + p.snd_wnd)
  BY DEF Seen
<1>4. Within(p.wire, p.lastack + q.snd_wnd)
  BY <1>1, <1>2, <1>3, WithinMoves
<1> QED
  BY <1>4 DEF Seen

\* Before tcp_send_fin no segment carries the FIN.
LEMMA SeenNoFin ==
  ASSUME NEW r, NEW q, Bounded(q, r), ~q.fin, InFlight(q.unacked, q.wire), NEW b
  PROVE  Seen(q, r, b)
<1>1. QueuePlaced(q.unsent, q) /\ \A g \in q.wire : Placed(g, q)
  BY SeenParts, BoundedQueues
<1>2. (\A g \in q.wire : ~g.fin) /\ \A i \in 1 .. Len(q.unsent) : ~q.unsent[i].fin
  BY <1>1 DEF QueuePlaced, Placed
<1> QED
  BY <1>2 DEF Seen, Within, Fresh, Followed

\* The last segment of two queues is that of the second.
LEMMA LastOf ==
  ASSUME NEW s \in Seq(Segment), NEW t \in Seq(Segment), t # <<>>, NEW q, q = s \o t
  PROVE  q[Len(q)] = t[Len(t)] /\ q # <<>>
<1>1. /\ Len(q) = Len(s) + Len(t) /\ Len(s) \in Nat /\ Len(t) \in Nat /\ q # <<>>
      /\ \A i \in 1 .. Len(t) : q[Len(s) + i] = t[i]
  BY Joined
<1>2. Len(t) \in 1 .. Len(t)
  BY QueueParts
<1> QED
  BY <1>1, <1>2

\* The number behind the last segment of the queue, if it has bytes.
LEMMA LastEnds ==
  ASSUME NEW r, NEW p, Bounded(p, r), Whole(p), p.unsent # <<>>,
         p.unsent[Len(p.unsent)].len > 0
  PROVE  p.unsent[Len(p.unsent)].seq + p.unsent[Len(p.unsent)].len = p.snd_lbb
<1>1. p.unacked \in Seq(Segment) /\ p.unsent \in Seq(Segment)
  BY BoundedQueues
<1>2. PICK q : q = p.unacked \o p.unsent
  OBVIOUS
<1>3. q[Len(q)] = p.unsent[Len(p.unsent)] /\ q # <<>>
  BY <1>1, <1>2, LastOf
<1>4. Behind(q[Len(q)]) = p.snd_lbb
  BY <1>2, <1>3 DEF Whole, Exact
<1>5. PICK g : g = p.unsent[Len(p.unsent)]
  OBVIOUS
<1>6. g.len > 0 /\ Behind(g) = p.snd_lbb /\ g.len \in Nat
  BY <1>1, <1>3, <1>4, <1>5, QueueParts, SegParts
<1>7. g.seq + g.len = p.snd_lbb
  BY <1>6 DEF Behind
<1> QED
  BY <1>5, <1>7

\* Some bytes are written.
LEMMA WriteSeen ==
  ASSUME NEW r, NEW p, Bounded(p, r), Seen(p, r, 1), NEW n \in Writes(p), NEW e
  PROVE  Seen(tcp_write(p, n, e), r, 1)
<1>1. p \in Pcb /\ p.fin \in BOOLEAN /\ p.snd_lbb \in Nat
  BY SeenParts
<1>q. PICK q : q = tcp_write(p, n, e)
  OBVIOUS
<1>2. CASE q = p
  BY <1>2, <1>q
<1>3. CASE q # p
  <2>1. ~p.fin
    BY <1>3, <1>q DEF tcp_write
  <2>2. n \in Nat /\ p.snd_lbb + n <= Bytes
    BY <1>1, <2>1, Const DEF Writes, Bounded, Numbers
  <2>3. q.unacked = p.unacked /\ q.fin = p.fin /\ q.wire = p.wire
    BY <1>1, <1>3, <1>q, <2>2, WriteIs
  <2>4. Bounded(q, r)
    BY <1>q, <2>2, WriteBounded
  <2>5. InFlight(q.unacked, q.wire)
    BY <2>3 DEF Seen
  <2>6. Seen(q, r, 1)
    BY <2>1, <2>3, <2>4, <2>5, SeenNoFin
  <2> QED
    BY <1>q, <2>6
<1> QED
  BY <1>2, <1>3

\* What tcp_send_fin does: every unsent segment with the FIN ends with the last
\* byte, and nothing has been sent beyond it.
LEMMA SendFinSeen ==
  ASSUME NEW r, NEW p, Bounded(p, r), Whole(p), Seen(p, r, 1), p.snd_lbb >= Bytes, NEW e
  PROVE  Seen(tcp_send_fin(p, e), r, 1)
<1>1. /\ p \in Pcb /\ p.unsent \in Seq(Segment) /\ p.fin \in BOOLEAN /\ r \in Nat
      /\ p.snd_lbb \in Nat /\ p.snd_nxt \in Nat /\ r <= p.snd_nxt /\ p.wire \subseteq Segment
      /\ \A g \in p.wire : Placed(g, p) /\ End(g) <= p.snd_nxt
  BY SeenParts
<1>2. QueuePlaced(p.unsent, p)
  BY BoundedQueues
<1>3. ASSUME ~p.fin, NEW s, \A i \in 1 .. Len(s) : s[i].fin => s[i].seq + s[i].len = p.snd_lbb,
             NEW q, q.unsent = s, q.unacked = p.unacked, q.wire = p.wire
      PROVE  Seen(q, r, 1)
  <2>1. p.snd_nxt <= p.snd_lbb
    BY <1>3 DEF Bounded, Numbers
  <2>2. \A g \in p.wire : ~g.fin /\ End(g) <= p.snd_lbb
    <3> SUFFICES ASSUME NEW g \in p.wire PROVE ~g.fin /\ End(g) <= p.snd_lbb
      OBVIOUS
    <3>1. End(g) \in Nat /\ End(g) <= p.snd_nxt
      BY <1>1, SegParts
    <3> QED
      BY <1>1, <1>3, <2>1, <3>1 DEF Placed
  <2>3. r <= p.snd_lbb
    BY <1>1, <2>1
  <2>4. Fresh(s, p.wire, r, 1)
    BY <1>3, <2>2, <2>3 DEF Fresh, Clear
  <2>5. Within(p.wire, q.lastack + q.snd_wnd) /\ Followed(p.wire, s)
    BY <2>2 DEF Within, Followed
  <2> QED
    BY <1>3, <2>4, <2>5 DEF Seen
<1>4. CASE p.fin
  BY <1>4 DEF tcp_send_fin
<1>5. CASE ~p.fin /\ p.unsent # <<>>
  <2> DEFINE m == Len(p.unsent)
             h == [p.unsent[m] EXCEPT !.fin = TRUE]
             s == [p.unsent EXCEPT ![m] = h]
             q == [p EXCEPT !.unsent = s, !.fin = TRUE]
  <2>1. m \in Nat /\ m > 0 /\ m \in 1 .. m /\ \A i \in 1 .. m : p.unsent[i] \in Segment
    BY <1>1, <1>5, QueueParts
  <2>2. tcp_send_fin(p, e) = q
    BY <1>5 DEF tcp_send_fin
  <2>3. h \in Segment /\ h.seq = p.unsent[m].seq /\ h.len = p.unsent[m].len
    BY <2>1 DEF Segment
  <2> HIDE DEF h
  <2>4. Len(s) = m /\ s[m] = h /\ \A i \in 1 .. m : i # m => s[i] = p.unsent[i]
    BY <1>1, <2>1, <2>3, ExceptSeq
  <2> HIDE DEF s
  <2>5. q.wire = p.wire /\ q.unacked = p.unacked /\ q.unsent = s
    BY <1>1 DEF Pcb
  <2> HIDE DEF q
  <2>6. \A i \in 1 .. m : ~p.unsent[i].fin /\ p.unsent[i].len # 0
    BY <1>2, <1>5 DEF QueuePlaced, Placed
  <2>7. p.unsent[m].len > 0
    <3>1. p.unsent[m].len \in Nat /\ p.unsent[m].len # 0
      BY <2>1, <2>6, SegParts
    <3> QED
      BY <3>1
  <2>8. h.seq + h.len = p.snd_lbb
    BY <1>5, <2>3, <2>7, LastEnds
  <2>9. \A i \in 1 .. Len(s) : s[i].fin => s[i].seq + s[i].len = p.snd_lbb
    BY <2>4, <2>6, <2>8
  <2> QED
    BY <1>3, <1>5, <2>2, <2>5, <2>9
<1>6. CASE ~p.fin /\ p.unsent = <<>> /\ e.mem
  <2> DEFINE h == Seg(p.snd_lbb, 0, TRUE)
             s == <<h>>
             q == [p EXCEPT !.unsent = s, !.snd_lbb = @ + 1, !.fin = TRUE]
  <2>1. tcp_send_fin(p, e) = q
    BY <1>6 DEF tcp_send_fin
  <2>2. h.seq = p.snd_lbb /\ h.len = 0
    BY DEF Seg
  <2> HIDE DEF h
  <2>3. h.seq + h.len = p.snd_lbb
    BY <1>1, <2>2
  <2>4. Len(s) = 1 /\ s[1] = h
    OBVIOUS
  <2> HIDE DEF s
  <2>5. q.wire = p.wire /\ q.unacked = p.unacked /\ q.unsent = s
    BY <1>1 DEF Pcb
  <2> HIDE DEF q
  <2>6. \A i \in 1 .. Len(s) : s[i].fin => s[i].seq + s[i].len = p.snd_lbb
    BY <2>3, <2>4
  <2> QED
    BY <1>3, <1>6, <2>1, <2>5, <2>6
<1>7. CASE ~p.fin /\ p.unsent = <<>> /\ ~e.mem
  BY <1>7 DEF tcp_send_fin
<1> QED
  BY <1>1, <1>4, <1>5, <1>6, <1>7

\* A callback of the application, the close included.
LEMMA AppSendSeen ==
  ASSUME NEW r, NEW p, Bounded(p, r), NEW m, Sound(p, m), Seen(p, r, 1), NEW n \in Writes(p), NEW e
  PROVE  Seen(AppSend(p, n, e), r, 1)
<1>1. p \in Pcb /\ p.snd_lbb \in Nat /\ p.fin \in BOOLEAN
  BY SeenParts
<1>2. CASE p.fin
  <2>1. tcp_write(p, n, e) = p /\ tcp_send_fin(p, e) = p
    BY <1>2 DEF tcp_write, tcp_send_fin
  <2> QED
    BY <2>1 DEF AppSend
<1>3. CASE p.fin = FALSE
  <2>a. PICK a : a = tcp_write(p, n, e)
    OBVIOUS
  <2>1. n \in Nat /\ p.snd_lbb + n <= Bytes
    BY <1>1, <1>3, Const DEF Writes, Bounded, Numbers
  <2>2. Bounded(a, r)
    BY <2>1, <2>a, WriteBounded
  <2>3. Whole(a)
    BY <1>3, <2>1, <2>a, WriteWhole DEF Sound
  <2>4. Seen(a, r, 1)
    BY <2>a, WriteSeen
  <2>5. a.snd_lbb >= Bytes => Seen(tcp_send_fin(a, e), r, 1)
    BY <2>2, <2>3, <2>4, SendFinSeen
  <2>6. AppSend(p, n, e) = IF Closes /\ a.snd_lbb >= Bytes THEN tcp_send_fin(a, e) ELSE a
    BY <2>a DEF AppSend
  <2> QED
    BY <2>4, <2>5, <2>6
<1> QED
  BY <1>1, <1>2, <1>3

\* The second part of a chain is one.
LEMMA ChainSecond ==
  ASSUME NEW s \in Seq(Segment), NEW t \in Seq(Segment), Chain(s \o t)
  PROVE  Chain(t)
<1>1. PICK q : q = s \o t
  OBVIOUS
<1>2. /\ Len(q) = Len(s) + Len(t) /\ Len(s) \in Nat /\ Len(t) \in Nat
      /\ \A i \in 1 .. Len(t) : q[Len(s) + i] = t[i]
  BY <1>1, Joined
<1>3. Chain(q)
  BY <1>1
<1>4. ASSUME NEW i \in 1 .. Len(t), NEW j \in 1 .. Len(t)
      PROVE  /\ i < j => After(t[i], t[j])
             /\ j = i + 1 => t[i].seq + t[i].len = t[j].seq
  <2>0. Len(q) = Len(s) + Len(t) /\ Len(s) \in Nat /\ Len(t) \in Nat
    BY <1>2
  <2>1. PICK x \in 1 .. Len(q) : x = Len(s) + i
    BY <2>0
  <2>y. PICK y \in 1 .. Len(q) : y = Len(s) + j
    BY <2>0
  <2>3. (i < j => x < y) /\ (j = i + 1 => y = x + 1)
    BY <2>0, <2>1, <2>y
  <2>4. q[x] = t[i] /\ q[y] = t[j]
    BY <1>2, <2>1, <2>y
  <2>2. q[x] = t[i] /\ q[y] = t[j] /\ (i < j => x < y) /\ (j = i + 1 => y = x + 1)
    BY <2>3, <2>4
  <2> QED
    BY <1>3, <2>2 DEF Chain
<1> QED
  BY <1>4 DEF Chain

\* After the first unsent segment the next one follows, which carries the FIN as
\* well, or it is the last.
LEMMA FirstFollows ==
  ASSUME NEW r, NEW p, Bounded(p, r), Whole(p), p.unsent # <<>>, p.unsent[1].fin,
         NEW W
  PROVE  Follows(p.unsent[1], W, Tail(p.unsent))
<1>1. /\ p.unacked \in Seq(Segment) /\ p.unsent \in Seq(Segment) /\ p.snd_lbb \in Nat
      /\ QueuePlaced(p.unsent, p)
  BY BoundedQueues, PcbParts
<1>s. PICK s \in Seq(Segment) : s = p.unsent
  BY <1>1
<1>2. Len(s) \in Nat /\ Len(s) > 0 /\ s # <<>> /\ 1 \in 1 .. Len(s) /\ s[1] \in Segment
  BY <1>s, QueueParts
<1>3. Placed(s[1], p) /\ s[1].fin
  BY <1>1, <1>2, <1>s DEF QueuePlaced
<1>4. /\ s[1].seq \in Nat /\ s[1].len \in Nat /\ s[1].seq + s[1].len <= Bytes /\ Bytes \in Nat
      /\ p.fin /\ (s[1].len = 0 => s[1].seq = Bytes)
  BY <1>2, <1>3, SegParts, Const DEF Placed
<1>5. CASE s[1].len = 0
  <2>1. s[1].seq + s[1].len = Bytes
    BY <1>4, <1>5
  <2> QED
    BY <1>s, <2>1 DEF Follows
<1>6. CASE s[1].len # 0 /\ Len(s) = 1
  <2>1. s[1].len > 0
    BY <1>4, <1>6
  <2>2. s[1].seq + s[1].len = p.snd_lbb
    BY <1>2, <1>6, <1>s, <2>1, LastEnds
  <2>3. p.snd_lbb >= Bytes
    BY <1>4 DEF Bounded, Numbers
  <2>4. s[1].seq + s[1].len = Bytes
    BY <1>1, <1>4, <2>2, <2>3
  <2> QED
    BY <1>s, <2>4 DEF Follows
<1>7. CASE Len(s) > 1
  <2>1. 2 \in 1 .. Len(s) /\ 1 \in 1 .. Len(s)
    BY <1>2, <1>7
  <2>2. Chain(s)
    BY <1>1, <1>s, ChainSecond DEF Whole, Exact
  <2>3. s[1].seq + s[1].len = s[2].seq /\ s[2].fin
    <3>1. After(s[1], s[2])
      BY <2>1, <2>2 DEF Chain
    <3>2. 2 = 1 + 1
      OBVIOUS
    <3>3. s[1].seq + s[1].len = s[2].seq
      BY <2>1, <2>2, <3>2 DEF Chain
    <3> QED
      BY <1>3, <3>1, <3>3 DEF After
  <2>4. Tail(s)[1] = s[2] /\ 1 \in 1 .. Len(Tail(s))
    BY <1>2, <1>7, HeadTailProperties
  <2> QED
    BY <1>s, <2>3, <2>4 DEF Follows
<1>8. PICK l \in Nat : l = Len(s) /\ l > 0
  BY <1>2
<1>9. l = 1 \/ l > 1
  BY <1>8
<1> QED
  BY <1>5, <1>6, <1>7, <1>8, <1>9, Zenon

\* A queue's later segments.
LEMMA TailIs ==
  ASSUME NEW s \in Seq(Segment), s # <<>>
  PROVE  /\ \A i \in 1 .. Len(Tail(s)) : \E j \in 1 .. Len(s) : j > 1 /\ Tail(s)[i] = s[j]
         /\ \A j \in 1 .. Len(s) : j > 1 => \E i \in 1 .. Len(Tail(s)) : Tail(s)[i] = s[j]
<1>1. PICK t : t = Tail(s)
  OBVIOUS
<1>2. Len(s) \in Nat /\ Len(s) > 0
  BY QueueParts
<1>3. Len(t) = Len(s) - 1 /\ \A i \in 1 .. Len(s) - 1 : t[i] = s[i + 1]
  BY <1>1, <1>2, HeadTailProperties
<1>4. ASSUME NEW i \in 1 .. Len(t) PROVE \E j \in 1 .. Len(s) : j > 1 /\ t[i] = s[j]
  <2>1. i + 1 \in 1 .. Len(s) /\ i + 1 > 1 /\ t[i] = s[i + 1]
    BY <1>2, <1>3
  <2> QED
    BY <2>1
<1>5. ASSUME NEW j \in 1 .. Len(s), j > 1 PROVE \E i \in 1 .. Len(t) : t[i] = s[j]
  <2>1. PICK i \in 1 .. Len(s) - 1 : i + 1 = j
    <3>1. j - 1 \in 1 .. Len(s) - 1 /\ (j - 1) + 1 = j
      BY <1>2, <1>5
    <3> QED
      BY <3>1
  <2>2. i \in 1 .. Len(t) /\ t[i] = s[j]
    BY <1>3, <2>1
  <2> QED
    BY <2>2
<1> QED
  BY <1>1, <1>4, <1>5

\* What is sent before h leaves it clear.
LEMMA AfterClear ==
  ASSUME NEW g \in Segment, NEW h \in Segment, After(g, h)
  PROVE  End(g) <= h.seq + h.len
<1>1. /\ g.seq \in Nat /\ g.len \in Nat /\ g.fin \in BOOLEAN
      /\ End(g) = IF g.fin THEN g.seq + g.len + 1 ELSE g.seq + g.len
  BY SegParts
<1>2. h.seq \in Nat /\ h.len \in Nat
  BY SegParts
<1>3. g.seq + g.len <= h.seq /\ (g.fin => h.len > 0)
  BY DEF After
<1> QED
  BY <1>1, <1>2, <1>3

\* The first unsent segment goes out.
LEMMA SendOneSeen ==
  ASSUME NEW r, NEW p, Bounded(p, r), Whole(p), Seen(p, r, 2), p.unsent # <<>>, Fits(p, p.unsent[1])
  PROVE  Seen(SendOne(p), r, 1)
<1>s. PICK s : s = p.unsent
  OBVIOUS
<1>g. PICK g : g = s[1]
  OBVIOUS
<1>q. PICK q : q = SendOne(p)
  OBVIOUS
<1>W. PICK W : W = p.wire
  OBVIOUS
<1>1. /\ p \in Pcb /\ p.unacked \in Seq(Segment) /\ s \in Seq(Segment) /\ s # <<>>
      /\ p.lastack \in Nat /\ p.snd_wnd \in Nat
  BY <1>s, SeenParts
<1>2. /\ g \in Segment /\ q.unsent = Tail(s) /\ q.wire = W \cup {g}
      /\ q.unacked = IF p.unacked = <<>> \/ p.unacked[Len(p.unacked)].seq <= g.seq
                     THEN Append(p.unacked, g) ELSE Insert(p.unacked, g)
      /\ q.lastack = p.lastack /\ q.snd_wnd = p.snd_wnd
  BY <1>1, <1>g, <1>q, <1>s, <1>W, SendOneIs
<1>3. Within(q.wire, q.lastack + q.snd_wnd)
  <2>1. g.seq - p.lastack + g.len <= p.snd_wnd
    <3>1. g.seq - p.lastack + g.len <= Wnd(p)
      BY <1>g, <1>s DEF Fits
    <3>2. g.seq \in Nat /\ g.len \in Nat /\ p.cwnd \in Nat
      BY <1>1, <1>2, SegParts, PcbParts
    <3> QED
      BY <1>1, <3>1, <3>2 DEF Wnd
  <2>2. g.seq \in Nat /\ g.len \in Nat
    BY <1>2, SegParts
  <2>3. g.seq + g.len <= p.lastack + p.snd_wnd
    BY <1>1, <2>1, <2>2
  <2>4. Within(W, p.lastack + p.snd_wnd)
    BY <1>W DEF Seen
  <2> QED
    BY <1>2, <2>3, <2>4 DEF Within
<1>4. InFlight(q.unacked, q.wire)
  <2>1. \A i \in 1 .. Len(p.unacked) : p.unacked[i] \in W
    BY <1>W DEF Seen, InFlight
  <2>2. OnlyAdds(q.unacked, p.unacked, g)
    <3>1. OnlyAdds(Insert(p.unacked, g), p.unacked, g)
      BY <1>1, <1>2, InsertIs
    <3>2. OnlyAdds(Append(p.unacked, g), p.unacked, g)
      <4>1. Len(p.unacked) \in Nat
        BY <1>1, QueueParts
      <4>2. Len(Append(p.unacked, g)) = Len(p.unacked) + 1
            /\ \A i \in 1 .. Len(p.unacked) + 1 :
                  Append(p.unacked, g)[i] = IF i <= Len(p.unacked) THEN p.unacked[i] ELSE g
        BY <1>1, <1>2, <4>1
      <4> QED
        BY <4>1, <4>2 DEF OnlyAdds
    <3> QED
      BY <1>2, <3>1, <3>2
  <2> QED
    BY <1>2, <2>1, <2>2 DEF InFlight, OnlyAdds
<1>5. Chain(s)
  BY <1>1, <1>s, ChainSecond DEF Whole, Exact
<1>6. Fresh(q.unsent, q.wire, r, 1)
  <2> SUFFICES ASSUME NEW i \in 1 .. Len(Tail(s)), Tail(s)[i].fin, Tail(s)[i] \notin W \cup {g}
               PROVE  Clear(Tail(s)[i], W \cup {g}, r)
    BY <1>2 DEF Fresh
  <2>1. PICK j \in 1 .. Len(s) : j > 1 /\ Tail(s)[i] = s[j]
    BY <1>1, TailIs
  <2>2. j \in Nat /\ j >= 2 /\ 1 \in 1 .. Len(s) /\ s[j] \in Segment
    BY <1>1, <2>1, QueueParts
  <2>3. Clear(s[j], W, r)
    BY <1>s, <1>W, <2>1, <2>2 DEF Seen, Fresh
  <2>4. After(g, s[j])
    BY <1>5, <1>g, <2>1, <2>2 DEF Chain
  <2>5. End(g) <= s[j].seq + s[j].len
    BY <1>2, <2>2, <2>4, AfterClear
  <2> QED
    BY <2>1, <2>3, <2>5 DEF Clear
<1>7. Followed(q.wire, q.unsent)
  <2> SUFFICES ASSUME NEW x \in W \cup {g}, x.fin PROVE Follows(x, W \cup {g}, Tail(s))
    BY <1>2 DEF Followed
  <2>1. CASE x = g
    BY <1>g, <1>s, <2>1, FirstFollows
  <2>2. CASE x \in W
    <3>1. Follows(x, W, s)
      BY <1>s, <1>W, <2>2 DEF Seen, Followed
    <3>2. CASE \E i \in 1 .. Len(s) : s[i].fin /\ s[i].seq = x.seq + x.len
      <4>1. PICK i \in 1 .. Len(s) : s[i].fin /\ s[i].seq = x.seq + x.len
        BY <3>2
      <4>2. CASE i = 1
        BY <1>g, <4>1, <4>2 DEF Follows
      <4>3. CASE i > 1
        <5>1. PICK j \in 1 .. Len(Tail(s)) : Tail(s)[j] = s[i]
          BY <1>1, <4>3, TailIs
        <5> QED
          BY <4>1, <5>1 DEF Follows
      <4>4. i = 1 \/ i > 1
        OBVIOUS
      <4> QED
        BY <4>2, <4>3, <4>4
    <3> QED
      BY <3>1, <3>2 DEF Follows
  <2> QED
    BY <2>1, <2>2
<1>8. Seen(q, r, 1)
  BY <1>3, <1>4, <1>6, <1>7 DEF Seen
<1> QED
  BY <1>8, <1>q

\* One turn of the loop of tcp_output.
LEMMA TurnSeen ==
  ASSUME NEW r, NEW p, Bounded(p, r), NEW n, Sound(p, n), Seen(p, r, 1), NEW i, NEW e
  PROVE  Seen(Turn(p, i, e), r, 1)
<1>1. CASE Turn(p, i, e) = p
  BY <1>1
<1>2. CASE Turn(p, i, e) = [p EXCEPT !.rtime = 0]
  <2> DEFINE q == [p EXCEPT !.rtime = 0]
  <2>1. p \in Pcb /\ p.snd_wnd \in Nat
    BY SeenParts
  <2>2. /\ q.unacked = p.unacked /\ q.unsent = p.unsent /\ q.lastack = p.lastack
        /\ q.snd_wnd = p.snd_wnd /\ q.wire = p.wire
    BY <2>1 DEF Pcb
  <2> HIDE DEF q
  <2>3. q.snd_wnd \in Nat /\ q.snd_wnd >= p.snd_wnd
    BY <2>1, <2>2
  <2>4. Seen(q, r, 1)
    BY <2>2, <2>3, SeenSame
  <2> QED
    BY <1>2, <2>4 DEF q
<1>3. CASE p.unsent # <<>> /\ Fits(p, p.unsent[1]) /\ Turn(p, i, e) = SendOne(p)
  <2>1. Seen(p, r, 2) /\ Whole(p)
    BY DEF Seen, Fresh, Sound
  <2>2. Seen(SendOne(p), r, 1)
    BY <1>3, <2>1, SendOneSeen
  <2> QED
    BY <1>3, <2>2
<1> QED
  BY <1>1, <1>2, <1>3 DEF Turn

\* The loop from its bth turn.
LEMMA LoopSeen ==
  ASSUME NEW r, NEW n, NEW m \in Nat, NEW s, NEW e, NEW f, Loop(f, m, s, e), NEW b \in 0 .. m,
         Bounded(f[b], r), ~f[b].persist, Sound(f[b], n), Seen(f[b], r, 1)
  PROVE  Seen(f[m], r, 1) /\ ~f[m].persist
<1> DEFINE S == {q \in Pcb : Bounded(q, r) /\ ~q.persist /\ Sound(q, n) /\ Seen(q, r, 1)}
<1>1. f[b] \in S
  BY DEF Bounded
<1>2. \A q \in S, i \in 1 .. m : i > b => Turn(q, i, e) \in S
  <2> SUFFICES ASSUME NEW q \in S, NEW i \in 1 .. m PROVE Turn(q, i, e) \in S
    OBVIOUS
  <2>1. Bounded(q, r) /\ ~q.persist /\ Sound(q, n) /\ Seen(q, r, 1)
    OBVIOUS
  <2>2. Bounded(Turn(q, i, e), r) /\ ~Turn(q, i, e).persist
    BY <2>1, TurnBounded
  <2>3. Sound(Turn(q, i, e), n)
    BY <2>1, TurnSound
  <2>4. Seen(Turn(q, i, e), r, 1)
    BY <2>1, TurnSeen
  <2> QED
    BY <2>2, <2>3, <2>4 DEF Bounded
<1> HIDE DEF S
<1>3. f[m] \in S
  BY <1>1, <1>2, LoopKeeps
<1> QED
  BY <1>3 DEF S

\* The rest of the loop, after which the persist timer does not run.
LEMMA LeadsSeen ==
  ASSUME NEW r, NEW c, Bounded(c, r), ~c.persist, NEW n, Sound(c, n), Seen(c, r, 1),
         NEW z, NEW e, Leads(c, z, e)
  PROVE  Seen(z, r, 1) /\ Waits(z)
<1>1. PICK f, m, s : m \in Nat /\ 1 \in 0 .. m /\ Loop(f, m, s, e) /\ f[1] = c /\ f[m] = z
  BY DEF Leads
<1>2. Seen(f[m], r, 1) /\ ~f[m].persist
  BY <1>1, LoopSeen
<1> QED
  BY <1>1, <1>2 DEF Waits

\* With nothing in flight the congestion window never holds back a segment.
LEMMA PersistWaits ==
  ASSUME NEW r, NEW p, Bounded(p, r), Whole(p), p.unacked = <<>>, p.unsent # <<>>,
         ~Fits(p, p.unsent[1])
  PROVE  p.unsent[1].seq + p.unsent[1].len > p.lastack + p.snd_wnd
<1>1. /\ p \in Pcb /\ p.unsent \in Seq(Segment) /\ p.lastack \in Nat /\ p.snd_wnd \in Nat
      /\ p.cwnd \in Nat /\ MSS <= p.cwnd /\ MSS \in Nat
  BY BoundedQueues, PcbParts, Const
<1>2. p.unacked \o p.unsent = p.unsent
  BY <1>1, ConcatEmptySeq
<1>3. StartsAt(p.unsent, p.lastack, p.snd_wnd)
  BY <1>2 DEF Whole, Exact
<1>4. PICK g \in Segment : g = p.unsent[1]
  BY <1>1, QueueParts
<1>5. g.seq \in Nat /\ g.len \in Nat /\ g.len <= MSS /\ g.seq <= p.lastack
  BY <1>3, <1>4, SegParts DEF StartsAt
<1>6. ~(g.seq - p.lastack + g.len <= Wnd(p))
  BY <1>4 DEF Fits
<1>7. g.seq + g.len > p.lastack + p.snd_wnd
  BY <1>1, <1>5, <1>6 DEF Wnd
<1> QED
  BY <1>4, <1>7

\* tcp_output puts the FIN on the wire only where Seen allows it.
LEMMA OutputSeen ==
  ASSUME NEW r, NEW p, Bounded(p, r), NEW n, Sound(p, n), Seen(p, r, 1), NEW e, e.route
  PROVE  Seen(tcp_output(p, e), r, 1) /\ Waits(tcp_output(p, e))
<1>1. p \in Pcb /\ p.snd_wnd \in Nat /\ p.unsent \in Seq(Segment)
  BY SeenParts
<1>2. CASE p.unsent = <<>>
  <2>1. tcp_output(p, e) = p
    BY <1>1, <1>2, OutputCases
  <2> QED
    BY <1>2, <2>1 DEF Waits
<1>3. CASE p.unsent # <<>> /\ ~Fits(p, p.unsent[1])
  <2> DEFINE q == StartPersist(p)
  <2>1. tcp_output(p, e) = q
    BY <1>1, <1>3, OutputCases
  <2>2. /\ q.unacked = p.unacked /\ q.unsent = p.unsent /\ q.lastack = p.lastack
        /\ q.snd_wnd = p.snd_wnd /\ q.wire = p.wire
        /\ (q.persist => p.persist \/ p.unacked = <<>>)
    BY <1>1 DEF StartPersist, Pcb
  <2> HIDE DEF q
  <2>3. q.snd_wnd \in Nat /\ q.snd_wnd >= p.snd_wnd
    BY <1>1, <2>2
  <2>4. Seen(q, r, 1)
    BY <2>2, <2>3, SeenSame
  <2>5. Waits(q)
    <3> SUFFICES ASSUME q.persist
                 PROVE  p.unsent[1].seq + p.unsent[1].len > p.lastack + p.snd_wnd
      BY <2>2 DEF Waits
    <3>1. p.unacked = <<>>
      BY <2>2 DEF Bounded, Timed
    <3>2. Whole(p)
      BY DEF Sound
    <3> QED
      BY <1>3, <3>1, <3>2, PersistWaits
  <2> QED
    BY <2>1, <2>4, <2>5
<1>4. CASE p.unsent # <<>> /\ Fits(p, p.unsent[1])
  <2>1. PICK f : Loop(f, Len(p.unsent), Started(p), e) /\ tcp_output(p, e) = f[Len(p.unsent)]
    BY <1>1, <1>4, OutputCases
  <2>2. PICK m \in Nat : m = Len(p.unsent)
    BY <1>1, QueueParts
  <2>3. 0 \in 0 .. m /\ f[0] = Started(p)
    BY <2>1, <2>2 DEF Loop
  <2>4. Bounded(f[0], r) /\ ~f[0].persist
    BY <2>3, StartedBounded
  <2>5. Sound(f[0], n)
    BY <2>3, StartedSound
  <2>6. Seen(f[0], r, 1)
    <3>1. /\ f[0].unacked = p.unacked /\ f[0].unsent = p.unsent /\ f[0].lastack = p.lastack
          /\ f[0].snd_wnd = p.snd_wnd /\ f[0].wire = p.wire
      BY <1>1, <2>3 DEF Started, Pcb
    <3>2. f[0].snd_wnd \in Nat /\ f[0].snd_wnd >= p.snd_wnd
      BY <1>1, <3>1
    <3> QED
      BY <3>1, <3>2, SeenSame
  <2>7. Seen(f[m], r, 1) /\ ~f[m].persist
    BY <2>1, <2>2, <2>3, <2>4, <2>5, <2>6, LoopSeen
  <2> QED
    BY <2>1, <2>2, <2>7 DEF Waits
<1> QED
  BY <1>2, <1>3, <1>4

\* What an ACK does not acknowledge stays.
LEMMA RestKeeps ==
  ASSUME NEW s \in Seq(Segment), NEW a \in Nat, NEW i \in 1 .. Len(s), a < End(s[i])
  PROVE  \E j \in 1 .. Len(Rest(s, a)) : Rest(s, a)[j] = s[i]
<1>1. PICK c : c = Acked(s, a)
  OBVIOUS
<1>2. c \in 0 .. Len(s) /\ \A x \in 1 .. c : End(s[x]) <= a
  BY <1>1, AckedIs
<1>3. PICK t : t = SubSeq(s, c + 1, Len(s))
  OBVIOUS
<1>4. /\ Len(t) = Len(s) - c /\ Len(s) \in Nat
      /\ \A x \in 1 .. Len(t) : t[x] = s[c + x] /\ c + x \in 1 .. Len(s)
  BY <1>2, <1>3, RestIs
<1>5. t = Rest(s, a)
  BY <1>1, <1>3 DEF Rest
<1>6. End(s[i]) \in Nat
  BY QueueParts, SegParts
<1>7. c < i
  <2> SUFFICES ASSUME i <= c PROVE FALSE
    BY <1>2, <1>4
  <2>1. i \in 1 .. c
    BY <1>2, <1>4
  <2>2. End(s[i]) <= a
    BY <1>2, <2>1
  <2> QED
    BY <1>6, <2>2
<1>8. PICK j \in 1 .. Len(t) : c + j = i
  <2>1. i - c \in 1 .. Len(t) /\ c + (i - c) = i
    BY <1>2, <1>4, <1>7
  <2> QED
    BY <2>1
<1>9. t[j] = s[i]
  BY <1>4, <1>8
<1> QED
  BY <1>5, <1>9

\* An ACK frees no segment with the FIN that was not sent.
LEMMA NewAckSeen ==
  ASSUME NEW r, NEW p, Bounded(p, r), Seen(p, r, 1), NEW a \in Nat, a <= r, p.lastack < a,
         NEW w \in Windows, a + w >= p.lastack + p.snd_wnd
  PROVE  Seen(NewAck(p, a, w), r, 1)
<1>q. PICK q : q = NewAck(p, a, w)
  OBVIOUS
<1>s. PICK s : s = p.unsent
  OBVIOUS
<1>t. PICK t : t = Rest(s, a)
  OBVIOUS
<1>1. /\ p \in Pcb /\ p.unacked \in Seq(Segment) /\ s \in Seq(Segment) /\ p.wire \in SUBSET Segment
      /\ p.lastack \in Nat /\ p.snd_wnd \in Nat /\ p.snd_nxt \in Nat /\ r \in Nat /\ r <= p.snd_nxt
  BY <1>s, SeenParts
<1>2. a <= Bytes + 1 /\ w \in Nat
  BY <1>1, PcbParts, Const
<1>3. /\ q.unacked = Rest(p.unacked, a) /\ q.unsent = t
      /\ q.lastack = a /\ q.snd_wnd = w /\ q.wire = p.wire
  BY <1>1, <1>2, <1>q, <1>s, <1>t, NewAckIs
<1>4. Within(q.wire, q.lastack + q.snd_wnd)
  <2>1. Within(p.wire, p.lastack + p.snd_wnd)
    BY DEF Seen
  <2>2. Within(p.wire, a + w)
    BY <1>1, <1>2, <2>1, WithinMoves
  <2> QED
    BY <1>3, <2>2
<1>5. InFlight(q.unacked, q.wire)
  <2> SUFFICES ASSUME NEW i \in 1 .. Len(Rest(p.unacked, a)) PROVE Rest(p.unacked, a)[i] \in p.wire
    BY <1>3 DEF InFlight
  <2>1. PICK j \in 1 .. Len(p.unacked) : Rest(p.unacked, a)[i] = p.unacked[j]
    BY <1>1, RestWas
  <2> QED
    BY <2>1 DEF Seen, InFlight
<1>6. Fresh(q.unsent, q.wire, r, 1)
  <2> SUFFICES ASSUME NEW i \in 1 .. Len(t), t[i].fin, t[i] \notin p.wire
               PROVE  Clear(t[i], p.wire, r)
    BY <1>3 DEF Fresh
  <2>1. PICK j \in 1 .. Len(s) : t[i] = s[j]
    BY <1>1, <1>t, RestWas
  <2>2. j >= 1
    BY <1>1, QueueParts
  <2> QED
    BY <1>s, <2>1, <2>2 DEF Seen, Fresh
<1>7. Followed(q.wire, q.unsent)
  <2> SUFFICES ASSUME NEW x \in p.wire, x.fin PROVE Follows(x, p.wire, t)
    BY <1>3 DEF Followed
  <2>1. Follows(x, p.wire, s)
    BY <1>s DEF Seen, Followed
  <2>2. CASE \E i \in 1 .. Len(s) : s[i].fin /\ s[i].seq = x.seq + x.len
    <3>1. PICK i \in 1 .. Len(s) : s[i].fin /\ s[i].seq = x.seq + x.len
      BY <2>2
    <3>2. CASE s[i] \in p.wire
      BY <3>1, <3>2 DEF Follows
    <3>3. CASE s[i] \notin p.wire
      <4>1. i >= 1 /\ s[i] \in Segment
        BY <1>1, QueueParts
      <4>2. r <= s[i].seq + s[i].len
        BY <1>s, <3>1, <3>3, <4>1 DEF Seen, Fresh, Clear
      <4>3. a < End(s[i])
        <5>1. PICK b \in Nat, c \in Nat : b = s[i].seq /\ c = s[i].len /\ End(s[i]) = b + c + 1
          BY <3>1, <4>1, SegParts
        <5>2. r <= b + c
          BY <4>2, <5>1
        <5>3. a < b + c + 1
          BY <1>1, <5>2
        <5> QED
          BY <5>1, <5>3
      <4>4. PICK j \in 1 .. Len(t) : t[j] = s[i]
        BY <1>1, <1>t, <4>3, RestKeeps
      <4> QED
        BY <3>1, <4>4 DEF Follows
    <3> QED
      BY <3>2, <3>3
  <2> QED
    BY <2>1, <2>2 DEF Follows
<1>8. Seen(q, r, 1)
  BY <1>3, <1>4, <1>5, <1>6, <1>7 DEF Seen
<1> QED
  BY <1>8, <1>q

\* A duplicate leaves what is on the wire.
LEMMA CountedSeen ==
  ASSUME NEW r, NEW p, Bounded(p, r), Seen(p, r, 1), NEW w, NEW q, Counted(p, q, w)
  PROVE  Seen(q, r, 1)
<1>1. /\ q \in Pcb /\ q.unsent = p.unsent /\ q.unacked = p.unacked /\ q.lastack = p.lastack
      /\ q.snd_wnd >= p.snd_wnd /\ q.wire = p.wire
  BY DEF Counted
<1>2. q.snd_wnd \in Nat
  BY <1>1, PcbParts
<1> QED
  BY <1>1, <1>2, SeenSame

\* Fast retransmit sends again what was sent before.
LEMMA FastSeen ==
  ASSUME NEW r, NEW p, Bounded(p, r), NEW n, Sound(p, n), Edge(p), Seen(p, r, 1), NEW busy,
         NEW e, e.route, e.out = 3
  PROVE  LET z == tcp_output(tcp_rexmit_fast(p, busy), e) IN Seen(z, r, 1) /\ Waits(z)
<1>1. CASE tcp_rexmit_fast(p, busy) = p
  BY <1>1, OutputSeen
<1>2. CASE tcp_rexmit_fast(p, busy) # p
  <2>z. PICK z : z = tcp_output(tcp_rexmit_fast(p, busy), e)
    OBVIOUS
  <2>1. PICK c : Bounded(c, r) /\ ~c.persist /\ SentAgain(p, c) /\ Leads(c, z, e)
    BY <1>2, <2>z, FastFirst
  <2>2. Sound(c, n)
    BY <2>1 DEF SentAgain, Sound, Whole, Edge
  <2>3. p.unacked[1] \in p.wire
    <3>1. p.unacked \in Seq(Segment) /\ p.unacked # <<>>
      BY <2>1, SeenParts DEF SentAgain
    <3>2. 1 \in 1 .. Len(p.unacked)
      BY <3>1, QueueParts
    <3> QED
      BY <3>2 DEF Seen, InFlight
  <2>4. c.wire = p.wire
    BY <2>1, <2>3 DEF SentAgain
  <2>5. Seen(c, r, 1)
    BY <2>1, <2>4 DEF SentAgain, Seen
  <2>6. Seen(z, r, 1) /\ Waits(z)
    BY <2>1, <2>2, <2>5, LeadsSeen
  <2> QED
    BY <2>z, <2>6
<1> QED
  BY <1>1, <1>2

\* Any ACK of lastack, with the output that follows.
LEMMA DuplicateSeen ==
  ASSUME ~Failures /\ ~Shrinks, NEW r, NEW p, Bounded(p, r), NEW n \in Nat, Sound(p, n), Seen(p, r, 1),
         NEW w \in Windows, NEW busy, NEW e \in Env
  PROVE  LET z == tcp_output(DuplicateAck(p, w, busy), e) IN Seen(z, r, 1) /\ Waits(z)
<1>1. p \in Pcb /\ p.dupacks \in Nat
  BY BoundedQueues, PcbParts
<1>e. e.route /\ e.out = 3
  BY DEF Env
<1>q. PICK q : q = DuplicateAck(p, w, busy)
  OBVIOUS
<1>2. CASE Counted(p, q, w)
  <2>1. Bounded(q, r)
    BY <1>2, CountedBounded
  <2>2. Sound(q, n + 1)
    BY <1>2, CountedSound
  <2>3. Seen(q, r, 1)
    BY <1>2, CountedSeen
  <2> QED
    BY <1>e, <1>q, <2>1, <2>2, <2>3, OutputSeen
<1>3. CASE \E c : Counted(p, c, w) /\ p.dupacks >= 2 /\ c.snd_wnd = p.snd_wnd /\ q = tcp_rexmit_fast(c, busy)
  <2>1. PICK c : Counted(p, c, w) /\ q = tcp_rexmit_fast(c, busy)
    BY <1>3
  <2>2. Bounded(c, r)
    BY <2>1, CountedBounded
  <2>3. Sound(c, n + 1)
    BY <2>1, CountedSound
  <2>4. Seen(c, r, 1)
    BY <2>1, CountedSeen
  <2>5. Edge(c)
    BY <2>3 DEF Sound
  <2>z. PICK z : z = tcp_output(tcp_rexmit_fast(c, busy), e)
    OBVIOUS
  <2>6. Seen(z, r, 1) /\ Waits(z)
    BY <1>e, <2>2, <2>3, <2>4, <2>5, <2>z, FastSeen
  <2> QED
    BY <1>q, <2>1, <2>6, <2>z
<1>4. \/ Counted(p, q, w)
      \/ \E c : Counted(p, c, w) /\ p.dupacks >= 2 /\ c.snd_wnd = p.snd_wnd /\ q = tcp_rexmit_fast(c, busy)
  BY <1>1, <1>q, DuplicateIs
<1> QED
  BY <1>2, <1>3, <1>4

\* Any ACK, with the callback and the output that follow.
LEMMA AckSeen ==
  ASSUME ~Failures /\ ~Shrinks, NEW r, NEW p, Bounded(p, r), NEW m \in Nat, Sound(p, m), Seen(p, r, 1),
         NEW a \in Nat, a <= r, NEW w \in Windows, NEW busy, NEW e \in Env,
         a > p.lastack => a + w >= p.lastack + p.snd_wnd,
         NEW n \in Writes(tcp_receive(p, a, w, busy))
  PROVE  LET z == tcp_output(Callback(p, tcp_receive(p, a, w, busy), a, n, e), e)
         IN  Seen(z, r, 1) /\ Waits(z)
<1>1. p \in Pcb /\ p.lastack \in Nat /\ p.snd_wnd \in Nat
  BY BoundedQueues, PcbParts
<1>e. e.route
  BY DEF Env
<1>q. PICK q : q = [p EXCEPT !.probe = 0]
  OBVIOUS
<1>2. Bounded(q, r) /\ q.lastack = p.lastack /\ q.snd_wnd = p.snd_wnd /\ Sound(q, m)
  BY <1>q, NoProbes
<1>s. Seen(q, r, 1)
  <2>1. q.unacked = p.unacked /\ q.unsent = p.unsent /\ q.wire = p.wire
    BY <1>1, <1>q DEF Pcb
  <2>2. q.snd_wnd \in Nat /\ q.snd_wnd >= p.snd_wnd
    BY <1>1, <1>2
  <2> QED
    BY <1>2, <2>1, <2>2, SeenSame
<1>t. PICK t : t = tcp_receive(p, a, w, busy)
  OBVIOUS
<1>3. t = IF a > p.lastack THEN NewAck(q, a, w)
          ELSE IF a = p.lastack THEN DuplicateAck(q, w, busy) ELSE [q EXCEPT !.dupacks = 0]
  BY <1>q, <1>t DEF tcp_receive
<1>4. Bounded(t, r) /\ n \in Writes(t)
  BY <1>t, ReceiveBounded
<1>c. PICK c : c = Callback(p, t, a, n, e)
  OBVIOUS
<1>6. Bounded(c, r)
  BY <1>4, <1>c, CallbackBounded
<1>5. CASE a > p.lastack
  <2>1. q.lastack < a /\ a + w >= q.lastack + q.snd_wnd /\ t = NewAck(q, a, w)
    BY <1>1, <1>2, <1>3, <1>5
  <2>2. Sound(t, m)
    BY <1>2, <2>1, NewAckSound
  <2>3. Seen(t, r, 1)
    BY <1>2, <1>s, <2>1, NewAckSeen
  <2>4. Sound(c, m)
    BY <1>4, <1>c, <2>2, AppSendSound DEF Callback
  <2>5. Seen(c, r, 1)
    BY <1>4, <1>c, <2>2, <2>3, AppSendSeen DEF Callback
  <2>6. Seen(tcp_output(c, e), r, 1) /\ Waits(tcp_output(c, e))
    BY <1>6, <1>e, <2>4, <2>5, OutputSeen
  <2> QED
    BY <1>c, <1>t, <2>6
<1>7. CASE ~(a > p.lastack)
  <2>1. c = t
    BY <1>7, <1>c DEF Callback, AcksBytes
  <2>2. CASE a = p.lastack
    <3>1. t = DuplicateAck(q, w, busy)
      BY <1>3, <1>7, <2>2
    <3>z. PICK z : z = tcp_output(t, e)
      OBVIOUS
    <3>2. Seen(z, r, 1) /\ Waits(z)
      BY <1>2, <1>s, <3>1, <3>z, DuplicateSeen
    <3> QED
      BY <1>c, <1>t, <2>1, <3>2, <3>z
  <2>3. CASE a # p.lastack
    <3> DEFINE z == [q EXCEPT !.dupacks = 0]
    <3>1. t = z
      BY <1>3, <1>7, <2>3
    <3>2. q \in Pcb /\ q.snd_wnd \in Nat /\ 0 \in 0 .. 3
      BY <1>2, BoundedQueues, PcbParts
    <3>3. /\ z.unacked = q.unacked /\ z.unsent = q.unsent /\ z.lastack = q.lastack
          /\ z.snd_lbb = q.snd_lbb /\ z.snd_wnd = q.snd_wnd /\ z.dupacks = 0 /\ z.wire = q.wire
      BY <3>2 DEF Pcb
    <3> HIDE DEF z
    <3>4. z.snd_wnd \in Nat /\ z.snd_wnd >= q.snd_wnd /\ z.dupacks <= m
      BY <3>2, <3>3
    <3>5. Sound(z, m)
      BY <1>2, <3>3, <3>4, SoundSame
    <3>6. Seen(z, r, 1)
      BY <1>2, <1>s, <3>3, <3>4, SeenSame
    <3>7. Seen(tcp_output(t, e), r, 1) /\ Waits(tcp_output(t, e))
      BY <1>4, <1>e, <3>1, <3>5, <3>6, OutputSeen
    <3> QED
      BY <1>c, <1>t, <2>1, <3>7
  <2> QED
    BY <2>2, <2>3
<1> QED
  BY <1>5, <1>7

\* The timer's expiry: what was in flight has been sent.
LEMMA ExpiredSeen ==
  ASSUME NEW r, NEW p, Bounded(p, r), Seen(p, r, 1), p.nrtx < MaxRtx
  PROVE  Seen(Expired(p), r, 1)
<1>q. PICK q : q = Expired(p)
  OBVIOUS
<1>s. PICK s : s = p.unacked
  OBVIOUS
<1>t. PICK t : t = p.unsent
  OBVIOUS
<1>v. PICK v : v = q.unsent
  OBVIOUS
<1>W. PICK W : W = p.wire
  OBVIOUS
<1>1. /\ v = s \o t /\ q.unacked = <<>> /\ q.lastack = p.lastack
      /\ q.snd_wnd = p.snd_wnd /\ q.wire = W
  BY <1>q, <1>s, <1>t, <1>v, <1>W, ExpiredIs
<1>2. s \in Seq(Segment) /\ t \in Seq(Segment)
  BY <1>s, <1>t, SeenParts
<1>3. /\ Len(v) = Len(s) + Len(t) /\ Len(s) \in Nat /\ Len(t) \in Nat
      /\ \A i \in 1 .. Len(s) : v[i] = s[i]
      /\ \A i \in 1 .. Len(t) : v[Len(s) + i] = t[i]
      /\ \A i \in 1 .. Len(v) : Len(s) < i => v[i] = t[i - Len(s)] /\ i - Len(s) \in 1 .. Len(t)
  BY <1>1, <1>2, Joined
<1>4. Within(W, p.lastack + p.snd_wnd) /\ InFlight(s, W) /\ Fresh(t, W, r, 1) /\ Followed(W, t)
  BY <1>s, <1>t, <1>W DEF Seen
<1>5. Len(<<>>) = 0
  BY EmptySeq
<1>6. InFlight(<<>>, W)
  BY <1>5 DEF InFlight
<1>7. Fresh(v, W, r, 1)
  <2> SUFFICES ASSUME NEW i \in 1 .. Len(v), v[i].fin, v[i] \notin W PROVE Clear(v[i], W, r)
    BY DEF Fresh
  <2>1. ~(i <= Len(s))
    <3> SUFFICES ASSUME i <= Len(s) PROVE FALSE
      OBVIOUS
    <3>1. i \in 1 .. Len(s)
      BY <1>3
    <3> QED
      BY <1>3, <1>4, <3>1 DEF InFlight
  <2>2. PICK j \in 1 .. Len(t) : v[i] = t[j]
    <3>1. Len(s) < i
      BY <1>3, <2>1
    <3> QED
      BY <1>3, <3>1
  <2>3. j >= 1
    OBVIOUS
  <2> QED
    BY <1>4, <2>2, <2>3 DEF Fresh
<1>8. Followed(W, v)
  <2> SUFFICES ASSUME NEW x \in W, x.fin PROVE Follows(x, W, v)
    BY DEF Followed
  <2>1. Follows(x, W, t)
    BY <1>4 DEF Followed
  <2>2. CASE \E i \in 1 .. Len(t) : t[i].fin /\ t[i].seq = x.seq + x.len
    <3>1. PICK i \in 1 .. Len(t) : t[i].fin /\ t[i].seq = x.seq + x.len
      BY <2>2
    <3>2. PICK j \in 1 .. Len(v) : j = Len(s) + i
      BY <1>3
    <3>3. v[j] = t[i]
      BY <1>3, <3>2
    <3> QED
      BY <3>1, <3>3 DEF Follows
  <2> QED
    BY <2>1, <2>2 DEF Follows
<1>9. Seen(q, r, 1)
  BY <1>1, <1>4, <1>6, <1>7, <1>8, <1>v DEF Seen
<1> QED
  BY <1>9, <1>q

\* The unsent queue while the persist timer runs.
LEMMA PersistQueue ==
  ASSUME NEW r, NEW p, Bounded(p, r), Whole(p), p.persist, NEW s, s = p.unsent, s # <<>>
  PROVE  /\ s \in Seq(Segment) /\ Chain(s) /\ QueuePlaced(s, p) /\ s[1] \in Segment
         /\ Len(s) \in Nat /\ 1 \in 1 .. Len(s) /\ s[1].seq <= p.lastack
<1>1. /\ p.unacked = <<>> /\ s \in Seq(Segment) /\ QueuePlaced(s, p)
  BY BoundedQueues DEF Timed
<1>2. p.unacked \o p.unsent = s
  BY <1>1, ConcatEmptySeq
<1>3. Exact(s, p.lastack, p.snd_lbb, p.snd_wnd)
  BY <1>2 DEF Whole
<1>4. Chain(s) /\ s[1].seq <= p.lastack
  BY <1>3 DEF Exact, StartsAt
<1>5. Len(s) \in Nat /\ 1 \in 1 .. Len(s) /\ s[1] \in Segment
  BY <1>1, QueueParts
<1> QED
  BY <1>1, <1>4, <1>5

\* The byte that a probe takes from a segment ends within every unsent segment.
LEMMA ProbeClear ==
  ASSUME NEW s \in Seq(Segment), Chain(s), s # <<>>, s[1].len > 0, NEW i \in 1 .. Len(s)
  PROVE  s[1].seq + 1 <= s[i].seq + s[i].len
<1>1. Len(s) \in Nat /\ 1 \in 1 .. Len(s)
  BY QueueParts
<1>2. PICK g \in Segment, h \in Segment : g = s[1] /\ h = s[i]
  BY <1>1, QueueParts
<1>3. g.seq \in Nat /\ g.len \in Nat /\ g.len > 0
  BY <1>2, SegParts
<1>4. h.seq \in Nat /\ h.len \in Nat
  BY SegParts
<1>5. CASE i = 1
  <2>1. g = h
    BY <1>2, <1>5
  <2>2. g.seq + 1 <= h.seq + h.len
    BY <1>3, <2>1
  <2> QED
    BY <1>2, <2>2
<1>6. CASE i > 1
  <2>1. After(g, h)
    BY <1>1, <1>2, <1>6 DEF Chain
  <2>2. g.seq + 1 <= h.seq + h.len
    BY <1>3, <1>4, <2>1 DEF After
  <2> QED
    BY <1>2, <2>2
<1>7. i = 1 \/ i > 1
  OBVIOUS
<1> QED
  BY <1>5, <1>6, <1>7

\* A probe.
LEMMA ProbeSeen ==
  ASSUME NEW r, NEW p, Bounded(p, r), Whole(p), Seen(p, r, 1), Waits(p), p.persist, p.probe < MaxRtx, NEW e
  PROVE  Seen(tcp_zero_window_probe(p, e), r, 1) /\ Waits(tcp_zero_window_probe(p, e))
<1>1. CASE p.unsent = <<>>
  BY <1>1 DEF tcp_zero_window_probe
<1>2. CASE p.unsent # <<>>
  <2>q. PICK q : q = tcp_zero_window_probe(p, e)
    OBVIOUS
  <2>s. PICK s : s = p.unsent
    OBVIOUS
  <2>g. PICK g : g = s[1]
    OBVIOUS
  <2>W. PICK W : W = p.wire
    OBVIOUS
  <2>1. /\ g \in Segment /\ Placed(g, p)
        /\ q.unsent = s /\ q.unacked = p.unacked /\ q.lastack = p.lastack
        /\ q.snd_wnd = p.snd_wnd /\ q.persist = p.persist
        /\ q.wire = W \/ q.wire = W \cup {Probe(g)}
    <3>1. p.unsent # <<>> /\ g = p.unsent[1]
      BY <1>2, <2>s, <2>g
    <3> DEFINE h == p.unsent[1]
    <3>h. h \in Segment /\ Placed(h, p) /\ Probed(p, q, h)
      BY <1>2, <2>q, ProbeIs
    <3>q. /\ q.unsent = p.unsent /\ q.unacked = p.unacked /\ q.lastack = p.lastack
          /\ q.snd_wnd = p.snd_wnd /\ q.persist = p.persist
      <4>1. q.persist = p.persist
        BY <1>2, <2>q, ProbeIs
      <4> QED
        BY <1>2, <2>q, <4>1, ProbeIs
    <3>2. /\ g \in Segment /\ Placed(g, p)
          /\ q.unsent = p.unsent /\ q.unacked = p.unacked /\ q.lastack = p.lastack
          /\ q.snd_wnd = p.snd_wnd /\ q.persist = p.persist /\ Probed(p, q, g)
      BY <3>1, <3>h, <3>q
    <3>3. q.wire = p.wire \/ q.wire = p.wire \cup {Probe(g)}
      BY <3>2 DEF Probed
    <3> QED
      BY <2>s, <2>W, <3>2, <3>3
  <2>2. Waits(q)
    BY <2>1, <2>s DEF Waits
  <2>3. /\ s \in Seq(Segment) /\ Chain(s) /\ QueuePlaced(s, p) /\ s # <<>>
        /\ Len(s) \in Nat /\ 1 \in 1 .. Len(s) /\ g.seq <= p.lastack
    BY <1>2, <2>s, <2>g, PersistQueue
  <2>4. Within(W, p.lastack + p.snd_wnd) /\ InFlight(p.unacked, W) /\ Fresh(s, W, r, 1) /\ Followed(W, s)
    BY <2>s, <2>W DEF Seen
  <2>5. /\ g.seq \in Nat /\ g.len \in Nat /\ p.lastack \in Nat /\ p.snd_wnd \in Nat
        /\ Bytes \in Nat
    BY <2>1, SegParts, SeenParts, Const
  <2>6. CASE q.wire = W
    <3>1. Seen(q, r, 1)
      BY <2>1, <2>4, <2>6 DEF Seen
    <3> QED
      BY <2>2, <2>q, <3>1
  <2>7. CASE q.wire = W \cup {g} /\ g.len = 0
    <3>1. g.seq + g.len <= p.lastack + p.snd_wnd /\ g.seq + g.len = Bytes
      <4>1. g.seq = Bytes
        BY <2>1, <2>7 DEF Placed
      <4> QED
        BY <2>3, <2>5, <2>7, <4>1
    <3>2. Within(W \cup {g}, p.lastack + p.snd_wnd)
      BY <2>4, <3>1 DEF Within
    <3>3. InFlight(p.unacked, W \cup {g})
      BY <2>4 DEF InFlight
    <3>4. Fresh(s, W \cup {g}, r, 1)
      <4> SUFFICES ASSUME NEW i \in 1 .. Len(s), s[i] \notin W \cup {g} PROVE FALSE
        BY DEF Fresh
      <4>1. i # 1
        BY <2>g
      <4>2. i > 1
        BY <4>1
      <4>3. After(g, s[i])
        BY <2>3, <2>g, <4>2 DEF Chain
      <4>4. g.len > 0
        BY <4>3 DEF After
      <4> QED
        BY <2>7, <4>4
    <3>5. Followed(W \cup {g}, s)
      BY <2>4, <3>1 DEF Followed, Follows
    <3>6. Seen(q, r, 1)
      BY <2>1, <2>7, <3>2, <3>3, <3>4, <3>5 DEF Seen
    <3> QED
      BY <2>2, <2>q, <3>6
  <2>8. CASE q.wire = W \cup {Probe(g)} /\ g.len # 0
    <3>1. PICK x : x = Probe(g)
      OBVIOUS
    <3>2. x.fin = FALSE /\ x.seq = g.seq /\ x.len = 1
      BY <2>8, <3>1 DEF Probe, Seg
    <3>3. End(x) = g.seq + 1
      BY <2>5, <3>2 DEF End, TCPLEN
    <3>4. g.len > 0
      BY <2>5, <2>8
    <3>5. Within(W \cup {x}, p.lastack + p.snd_wnd)
      BY <2>4, <3>2 DEF Within
    <3>6. InFlight(p.unacked, W \cup {x})
      BY <2>4 DEF InFlight
    <3>7. Fresh(s, W \cup {x}, r, 1)
      <4> SUFFICES ASSUME NEW i \in 1 .. Len(s), s[i].fin, s[i] \notin W \cup {x}
                   PROVE  Clear(s[i], W \cup {x}, r)
        BY DEF Fresh
      <4>1. i >= 1
        OBVIOUS
      <4>2. Clear(s[i], W, r)
        BY <2>4, <4>1 DEF Fresh
      <4>3. End(x) <= s[i].seq + s[i].len
        BY <2>3, <2>g, <3>3, <3>4, ProbeClear
      <4> QED
        BY <4>2, <4>3 DEF Clear
    <3>8. Followed(W \cup {x}, s)
      <4> SUFFICES ASSUME NEW y \in W, y.fin PROVE Follows(y, W \cup {x}, s)
        BY <3>2 DEF Followed
      <4>1. Follows(y, W, s)
        BY <2>4 DEF Followed
      <4> QED
        BY <4>1 DEF Follows
    <3>9. Seen(q, r, 1)
      BY <2>1, <2>8, <3>1, <3>5, <3>6, <3>7, <3>8 DEF Seen
    <3> QED
      BY <2>2, <2>q, <3>9
  <2> QED
    BY <2>1, <2>6, <2>7, <2>8 DEF Probe
<1> QED
  BY <1>1, <1>2

\* A cut of the first unsent segment: with the FIN, the first part is not clear of
\* what the peer may acknowledge, but the rest is.
LEMMA SplitSeen ==
  ASSUME NEW r, NEW p, Bounded(p, r), Seen(p, r, 1), Waits(p), p.persist, p.unsent # <<>>,
         p.snd_wnd < p.unsent[1].len
  PROVE  Seen(tcp_split_unsent_seg(p), r, 2)
<1>q. PICK q : q = tcp_split_unsent_seg(p)
  OBVIOUS
<1>s. PICK s : s = p.unsent
  OBVIOUS
<1>v. PICK v : v = q.unsent
  OBVIOUS
<1>W. PICK W : W = p.wire
  OBVIOUS
<1>w. PICK w : w = p.snd_wnd
  OBVIOUS
<1>1. /\ SplitInto(s, v, w) /\ q.unacked = p.unacked
      /\ q.lastack = p.lastack /\ q.snd_wnd = w /\ q.wire = W
  BY <1>q, <1>s, <1>v, <1>w, <1>W, SplitIs
<1>2. /\ s \in Seq(Segment) /\ s # <<>> /\ p.lastack \in Nat /\ w \in Nat
  BY <1>s, <1>w, SeenParts
<1>3. Len(s) \in Nat /\ Len(s) > 0 /\ 1 \in 1 .. Len(s) /\ s[1] \in Segment
  BY <1>2, QueueParts
<1>4. Within(W, p.lastack + w) /\ InFlight(p.unacked, W) /\ Fresh(s, W, r, 1) /\ Followed(W, s)
  BY <1>s, <1>w, <1>W DEF Seen
<1>5. /\ v \in Seq(Segment) /\ Len(v) = Len(s) + 1
      /\ v[1].seq = s[1].seq /\ v[1].fin = s[1].fin
      /\ v[2].seq = s[1].seq + w /\ v[2].len = s[1].len - w /\ v[2].fin = s[1].fin
      /\ \A i \in 3 .. Len(v) : v[i] = s[i - 1]
  BY <1>1 DEF SplitInto
<1>6. s[1].seq \in Nat /\ s[1].len \in Nat /\ s[1].seq + s[1].len > p.lastack + w
  BY <1>3, <1>s, <1>w, <1>2, SegParts DEF Waits
<1>7. s[1].fin => Clear(s[1], W, r)
  <2> SUFFICES ASSUME s[1].fin PROVE Clear(s[1], W, r)
    OBVIOUS
  <2>1. s[1] \notin W
    <3> SUFFICES ASSUME s[1] \in W PROVE FALSE
      OBVIOUS
    <3>1. s[1].seq + s[1].len <= p.lastack + w
      BY <1>4 DEF Within
    <3> QED
      BY <1>2, <1>6, <3>1
  <2>2. 1 >= 1
    OBVIOUS
  <2> QED
    BY <1>3, <1>4, <2>1, <2>2 DEF Fresh
<1>8. Fresh(v, W, r, 2)
  <2> SUFFICES ASSUME NEW i \in 1 .. Len(v), i >= 2, v[i].fin, v[i] \notin W PROVE Clear(v[i], W, r)
    BY DEF Fresh
  <2>1. CASE i = 2
    <3>1. v[2].seq + v[2].len = s[1].seq + s[1].len
      BY <1>2, <1>5, <1>6
    <3>2. s[1].fin
      BY <1>5, <2>1
    <3>3. Clear(v[2], W, r)
      BY <1>7, <3>1, <3>2 DEF Clear
    <3> QED
      BY <2>1, <3>3
  <2>2. CASE i > 2
    <3>1. PICK j \in 1 .. Len(s) : j = i - 1 /\ i \in 3 .. Len(v) /\ j >= 1
      BY <1>3, <1>5, <2>2
    <3>2. v[i] = s[j]
      BY <1>5, <3>1
    <3> QED
      BY <1>4, <3>1, <3>2 DEF Fresh
  <2>3. i = 2 \/ i > 2
    OBVIOUS
  <2> QED
    BY <2>1, <2>2, <2>3
<1>9. Followed(W, v)
  <2> SUFFICES ASSUME NEW x \in W, x.fin PROVE Follows(x, W, v)
    BY DEF Followed
  <2>1. Follows(x, W, s)
    BY <1>4 DEF Followed
  <2>2. CASE \E i \in 1 .. Len(s) : s[i].fin /\ s[i].seq = x.seq + x.len
    <3>1. PICK i \in 1 .. Len(s) : s[i].fin /\ s[i].seq = x.seq + x.len
      BY <2>2
    <3>2. CASE i = 1
      <4>1. 1 \in 1 .. Len(v) /\ v[1].fin /\ v[1].seq = x.seq + x.len
        BY <1>3, <1>5, <3>1, <3>2
      <4> QED
        BY <4>1 DEF Follows
    <3>3. CASE i > 1
      <4>1. PICK j \in 1 .. Len(v) : j = i + 1 /\ j \in 3 .. Len(v) /\ j - 1 = i
        BY <1>3, <1>5, <3>3
      <4>2. v[j] = s[i]
        BY <1>5, <4>1
      <4> QED
        BY <3>1, <4>2 DEF Follows
    <3>4. i = 1 \/ i > 1
      OBVIOUS
    <3> QED
      BY <3>2, <3>3, <3>4
  <2> QED
    BY <2>1, <2>2 DEF Follows
<1>10. Seen(q, r, 2)
  BY <1>1, <1>4, <1>8, <1>9, <1>v DEF Seen
<1> QED
  BY <1>10, <1>q

\* The first part of a cut segment goes out at once; after it all is clear.
LEMMA CutOutputSeen ==
  ASSUME NEW r, NEW p, Bounded(p, r), NEW n, Sound(p, n), Seen(p, r, 1), Waits(p), p.persist,
         p.unsent # <<>>, p.snd_wnd > 0, p.snd_wnd < p.unsent[1].len, NEW e, e.route, e.out = 3
  PROVE  LET z == tcp_output(tcp_split_unsent_seg(p), e) IN Seen(z, r, 1) /\ Waits(z)
<1>q. PICK q : q = tcp_split_unsent_seg(p)
  OBVIOUS
<1>u. PICK u : u = Started(q)
  OBVIOUS
<1>c. PICK c : c = SendOne(u)
  OBVIOUS
<1>z. PICK z : z = tcp_output(q, e)
  OBVIOUS
<1>1. Bounded(q, r)
  BY <1>q, SplitBounded
<1>2. Sound(q, n)
  BY <1>q, SplitSound
<1>3. Seen(q, r, 2)
  BY <1>q, SplitSeen
<1>4. /\ SplitInto(p.unsent, q.unsent, p.snd_wnd) /\ q.unacked = p.unacked
      /\ q.lastack = p.lastack /\ q.snd_wnd = p.snd_wnd /\ q.cwnd = p.cwnd
  BY <1>q, SplitIs
<1>5. /\ p \in Pcb /\ p.unsent \in Seq(Segment) /\ p.unacked = <<>> /\ p.lastack \in Nat
      /\ p.snd_wnd \in Nat /\ p.cwnd \in Nat /\ MSS <= p.cwnd /\ MSS \in Nat
  BY BoundedQueues, PcbParts, Const DEF Timed
<1>6. q.unsent # <<>>
  <2>1. q.unsent \in Seq(Segment) /\ Len(q.unsent) = Len(p.unsent) + 1
    BY <1>4 DEF SplitInto
  <2>2. Len(p.unsent) \in Nat
    BY <1>5, QueueParts
  <2> QED
    BY <2>1, <2>2, QueueParts
<1>7. Fits(q, q.unsent[1])
  <2>1. PICK g \in Segment : g = p.unsent[1]
    BY <1>5, QueueParts
  <2>2. q.unsent[1].seq = g.seq /\ q.unsent[1].len = p.snd_wnd
    BY <1>4, <2>1 DEF SplitInto
  <2>3. g.seq \in Nat /\ g.len \in Nat /\ g.len <= MSS /\ p.snd_wnd < g.len
    BY <2>1, SegParts
  <2>4. g.seq <= p.lastack
    BY <2>1, PersistQueue DEF Sound
  <2>5. Wnd(q) = p.snd_wnd
    BY <1>4, <1>5, <2>3 DEF Wnd
  <2>6. g.seq - p.lastack + p.snd_wnd <= p.snd_wnd
    BY <1>5, <2>3, <2>4
  <2> QED
    BY <1>4, <2>2, <2>5, <2>6 DEF Fits
<1>8. Leads(c, z, e)
  BY <1>1, <1>4, <1>5, <1>6, <1>7, <1>c, <1>u, <1>z, OutputFirst
<1>9. /\ u.unsent = q.unsent /\ u.unacked = q.unacked /\ u.lastack = q.lastack
      /\ u.snd_wnd = q.snd_wnd /\ u.cwnd = q.cwnd /\ u.wire = q.wire
  <2>1. q \in Pcb
    BY <1>1, SeenParts
  <2> QED
    BY <2>1, <1>u DEF Started, Pcb
<1>10. Bounded(u, r) /\ ~u.persist
  BY <1>1, <1>u, StartedBounded
<1>11. Sound(u, n)
  BY <1>1, <1>2, <1>u, StartedSound
<1>12. Seen(u, r, 2)
  BY <1>3, <1>9 DEF Seen
<1>13. u.unsent # <<>> /\ Fits(u, u.unsent[1])
  BY <1>6, <1>7, <1>9 DEF Fits, Wnd
<1>14. Bounded(c, r) /\ ~c.persist
  BY <1>10, <1>13, <1>c, SendOneBounded
<1>15. Sound(c, n)
  BY <1>10, <1>11, <1>13, <1>c, SendOneSound
<1>16. Seen(c, r, 1)
  BY <1>10, <1>11, <1>12, <1>13, <1>c, SendOneSeen DEF Sound
<1>17. Seen(z, r, 1) /\ Waits(z)
  BY <1>8, <1>14, <1>15, <1>16, LeadsSeen
<1> QED
  BY <1>17, <1>q, <1>z

\* The invariant behind FinLast.
FinHolds == Holds /\ (k.open => Seen(k, rcv, 1) /\ Waits(k))

\* A new connection has sent no FIN.
LEMMA FinInit == Init => FinHolds
<1> SUFFICES ASSUME Init PROVE FinHolds
  OBVIOUS
<1>1. Holds
  BY HoldsInit
<1>2. PICK w \in Windows :
        k = [unsent |-> <<>>, unacked |-> <<>>, lastack |-> 0, snd_nxt |-> 0,
             snd_lbb |-> 0, snd_wnd |-> w, cwnd |-> SndBuf, rtime |-> -1,
             nrtx |-> 0, rto_end |-> -1, persist |-> FALSE, probe |-> 0,
             dupacks |-> 0, infr |-> FALSE, fin |-> FALSE, open |-> TRUE, wire |-> {}]
  BY DEF Init
<1>3. k.unsent = <<>> /\ k.unacked = <<>> /\ k.wire = {}
  BY <1>2
<1>4. Len(<<>>) = 0
  BY EmptySeq
<1>5. Seen(k, rcv, 1)
  BY <1>3, <1>4 DEF Seen, Within, InFlight, Fresh, Followed
<1>6. Waits(k)
  BY <1>3 DEF Waits
<1> QED
  BY <1>1, <1>5, <1>6 DEF FinHolds

\* What the peer receives was sent, so it leaves clear what was not.
LEMMA ReceiptSeen ==
  ASSUME NEW r, NEW p, Bounded(p, r), Seen(p, r, 1), NEW g \in p.wire, NEW m \in Nat, m <= End(g)
  PROVE  Seen(p, m, 1)
<1>1. p.unsent \in Seq(Segment) /\ g \in Segment
  BY SeenParts
<1>2. Fresh(p.unsent, p.wire, m, 1)
  <2> SUFFICES ASSUME NEW i \in 1 .. Len(p.unsent), i >= 1, p.unsent[i].fin, p.unsent[i] \notin p.wire
               PROVE  Clear(p.unsent[i], p.wire, m)
    BY DEF Fresh
  <2>1. Clear(p.unsent[i], p.wire, r)
    BY DEF Seen, Fresh
  <2>2. PICK h \in Segment : h = p.unsent[i]
    BY <1>1, QueueParts
  <2>3. End(g) <= h.seq + h.len
    BY <2>1, <2>2 DEF Clear
  <2>4. End(g) \in Nat /\ h.seq \in Nat /\ h.len \in Nat
    BY <1>1, SegParts
  <2>5. m <= h.seq + h.len
    BY <2>3, <2>4
  <2> QED
    BY <2>1, <2>2, <2>5 DEF Clear
<1> QED
  BY <1>2 DEF Seen

\* Every step keeps the FIN where it belongs.
LEMMA FinNext ==
  ASSUME ~Failures /\ ~Shrinks, FinHolds, [Next]_vars
  PROVE  FinHolds'
<1>1. /\ Holds /\ Bounded(k, rcv) /\ acks \in Nat /\ k \in Pcb /\ rcv \in Nat
      /\ (k.open => Sound(k, acks) /\ Seen(k, rcv, 1) /\ Waits(k))
  BY BoundedQueues, Const DEF FinHolds, Holds, Kept
<1>2. Holds'
  BY <1>1, HoldsNext DEF Reliable
<1>e. \A e \in Env : e.route /\ e.out = 3
  BY DEF Env
<1> SUFFICES k'.open => Seen(k', rcv', 1) /\ Waits(k')
  BY <1>2 DEF FinHolds
<1>3. CASE Application
  <2>1. PICK n \in Writes(k), e \in Env : k' = tcp_output(AppSend(k, n, e), e)
    BY <1>3 DEF Application
  <2>2. k.open /\ rcv' = rcv
    BY <1>3 DEF Application
  <2>3. PICK p : p = AppSend(k, n, e)
    OBVIOUS
  <2>4. Bounded(p, rcv)
    BY <1>1, <2>3, AppSendBounded
  <2>5. Sound(p, acks)
    BY <1>1, <2>2, <2>3, AppSendSound
  <2>6. Seen(p, rcv, 1)
    BY <1>1, <2>2, <2>3, AppSendSeen
  <2>7. Seen(tcp_output(p, e), rcv, 1) /\ Waits(tcp_output(p, e))
    BY <1>e, <2>4, <2>5, <2>6, OutputSeen
  <2> QED
    BY <2>1, <2>2, <2>3, <2>7
<1>4. CASE AckArrives
  <2>1. PICK a \in 0 .. rcv, w \in Windows, busy \in BOOLEAN :
          /\ a > k.lastack /\ ~Shrinks => a + w >= k.lastack + k.snd_wnd
          /\ \E n \in Writes(tcp_receive(k, a, w, busy)), e \in Env :
                k' = tcp_output(Callback(k, tcp_receive(k, a, w, busy), a, n, e), e)
    BY <1>4 DEF AckArrives
  <2>2. PICK n \in Writes(tcp_receive(k, a, w, busy)), e \in Env :
          k' = tcp_output(Callback(k, tcp_receive(k, a, w, busy), a, n, e), e)
    BY <2>1
  <2>3. k.open /\ rcv' = rcv /\ a \in Nat /\ a <= rcv
    BY <1>1, <1>4 DEF AckArrives
  <2>4. a > k.lastack => a + w >= k.lastack + k.snd_wnd
    BY <2>1
  <2>5. Sound(k, acks) /\ Seen(k, rcv, 1)
    BY <1>1, <2>3
  <2>z. PICK z : z = tcp_output(Callback(k, tcp_receive(k, a, w, busy), a, n, e), e)
    OBVIOUS
  <2>6. Seen(z, rcv, 1) /\ Waits(z)
    BY <1>1, <2>3, <2>4, <2>5, <2>z, AckSeen
  <2> QED
    BY <2>2, <2>3, <2>6, <2>z
<1>5. ASSUME NEW e \in Env, PersistTmr(e) PROVE Seen(k', rcv', 1) /\ Waits(k')
  <2>1. /\ k.open /\ k.persist /\ k.probe < MaxRtx /\ rcv' = rcv
        /\ k' = IF k.snd_wnd = 0 THEN tcp_zero_window_probe(k, e)
                ELSE IF k.unsent = <<>> \/ ~e.mem THEN k
                ELSE tcp_output(tcp_split_unsent_seg(k), e)
    BY <1>5 DEF PersistTmr
  <2>2. Sound(k, acks) /\ Seen(k, rcv, 1) /\ Waits(k) /\ Whole(k)
    BY <1>1, <2>1 DEF Sound
  <2>3. CASE k' = tcp_zero_window_probe(k, e)
    <3>1. Seen(tcp_zero_window_probe(k, e), rcv, 1) /\ Waits(tcp_zero_window_probe(k, e))
      BY <1>1, <2>1, <2>2, ProbeSeen
    <3> QED
      BY <2>1, <2>3, <3>1
  <2>4. CASE k' = k
    BY <2>1, <2>2, <2>4
  <2>5. CASE k.snd_wnd # 0 /\ k.unsent # <<>> /\ k' = tcp_output(tcp_split_unsent_seg(k), e)
    <3>1. k.snd_wnd > 0 /\ k.snd_wnd \in Nat /\ k.unsent[1].len \in Nat
      <4>1. k.snd_wnd \in Nat /\ k.unsent \in Seq(Segment)
        BY <1>1, PcbParts
      <4>2. k.unsent[1].len \in Nat
        BY <2>5, <4>1, QueueParts, SegParts
      <4> QED
        BY <2>5, <4>1, <4>2
    <3>2. CASE k.snd_wnd < k.unsent[1].len
      <4>z. PICK z : z = tcp_output(tcp_split_unsent_seg(k), e)
        OBVIOUS
      <4>1. Seen(z, rcv, 1) /\ Waits(z)
        BY <1>1, <1>e, <2>1, <2>2, <2>5, <3>1, <3>2, <4>z, CutOutputSeen
      <4> QED
        BY <2>1, <2>5, <4>1, <4>z
    <3>3. CASE k.unsent[1].len <= k.snd_wnd
      <4>1. tcp_split_unsent_seg(k) = k
        BY <3>3 DEF tcp_split_unsent_seg
      <4>2. Seen(tcp_output(k, e), rcv, 1) /\ Waits(tcp_output(k, e))
        BY <1>1, <1>e, <2>2, OutputSeen
      <4> QED
        BY <2>1, <2>5, <4>1, <4>2
    <3> QED
      BY <3>1, <3>2, <3>3
  <2> QED
    BY <2>1, <2>3, <2>4, <2>5
<1>6. ASSUME NEW e \in Env, RtoTmr(e) PROVE Seen(k', rcv', 1) /\ Waits(k')
  <2>1. k.open /\ k.nrtx < MaxRtx /\ rcv' = rcv /\ k' = tcp_output(Expired(k), e)
    BY <1>6 DEF RtoTmr, Expired
  <2>2. PICK p : p = Expired(k)
    OBVIOUS
  <2>3. Bounded(p, rcv)
    BY <1>1, <2>1, <2>2, ExpiredBounded
  <2>4. Sound(p, acks)
    BY <1>1, <2>1, <2>2, ExpiredSound
  <2>5. Seen(p, rcv, 1)
    BY <1>1, <2>1, <2>2, ExpiredSeen
  <2>6. Seen(tcp_output(p, e), rcv, 1) /\ Waits(tcp_output(p, e))
    BY <1>e, <2>3, <2>4, <2>5, OutputSeen
  <2> QED
    BY <2>1, <2>2, <2>6
<1>7. CASE GiveUp
  <2>1. k' = [k EXCEPT !.open = FALSE, !.unsent = <<>>, !.unacked = <<>>]
    BY <1>7 DEF GiveUp
  <2>2. ~k'.open
    BY <1>1, <2>1 DEF Pcb
  <2> QED
    BY <2>2
<1>8. CASE PeerReceives
  <2>1. PICK g \in k.wire : \E r \in rcv + 1 .. End(g) : rcv' = r
    BY <1>8 DEF PeerReceives
  <2>2. k' = k
    BY <1>8 DEF PeerReceives
  <2>3. g \in Segment
    BY <1>1, SeenParts
  <2>4. rcv' \in Nat /\ rcv' <= End(g)
    <3>1. End(g) \in Nat
      BY <2>3, SegParts
    <3> QED
      BY <1>1, <2>1, <3>1
  <2>5. k.open => Seen(k, rcv', 1)
    BY <1>1, <2>4, ReceiptSeen
  <2> QED
    BY <1>1, <2>2, <2>5
<1>9. CASE UNCHANGED vars
  BY <1>1, <1>9 DEF vars
<1> QED
  BY <1>3, <1>4, <1>5, <1>6, <1>7, <1>8, <1>9 DEF Next

\* From the invariant to FinLast.
LEMMA FinHoldsLast == FinHolds => FinLast
<1> SUFFICES ASSUME FinHolds, k.open, NEW g \in k.wire, g.fin
             PROVE  \/ g.seq + g.len = Bytes
                    \/ \E h \in k.wire \cup Range(Queued) : h.fin /\ h.seq = g.seq + g.len
  BY DEF FinLast
<1>1. Bounded(k, rcv) /\ Seen(k, rcv, 1)
  BY DEF FinHolds, Holds, Kept
<1>2. k.unacked \in Seq(Segment) /\ k.unsent \in Seq(Segment)
  BY <1>1, SeenParts
<1>3. Follows(g, k.wire, k.unsent)
  BY <1>1 DEF Seen, Followed
<1>4. CASE \E i \in 1 .. Len(k.unsent) : k.unsent[i].fin /\ k.unsent[i].seq = g.seq + g.len
  <2>1. PICK i \in 1 .. Len(k.unsent) : k.unsent[i].fin /\ k.unsent[i].seq = g.seq + g.len
    BY <1>4
  <2>2. PICK q : q = Queued
    OBVIOUS
  <2>s. PICK s : s = k.unacked
    OBVIOUS
  <2>t. PICK t : t = k.unsent
    OBVIOUS
  <2>3. /\ q \in Seq(Segment) /\ Len(q) = Len(s) + Len(t) /\ Len(s) \in Nat /\ Len(t) \in Nat
        /\ \A x \in 1 .. Len(t) : q[Len(s) + x] = t[x]
    <3>1. s \in Seq(Segment) /\ t \in Seq(Segment) /\ q = s \o t
      BY <1>2, <2>2, <2>s, <2>t DEF Queued
    <3> QED
      BY <3>1, Joined
  <2>i. i \in 1 .. Len(t)
    BY <2>t
  <2>4. PICK j \in 1 .. Len(q) : j = Len(s) + i
    BY <2>3, <2>i
  <2>5. j \in DOMAIN q
    BY <2>3, QueueParts
  <2>6. k.unsent[i] \in Range(q)
    <3>1. q[j] = k.unsent[i]
      BY <2>3, <2>4, <2>i, <2>t
    <3> QED
      BY <2>5, <3>1 DEF Range
  <2> QED
    BY <2>1, <2>2, <2>6
<1> QED
  BY <1>3, <1>4 DEF Follows

\* The FIN that the peer sees comes after the last byte, or on the first part of a
\* segment that was cut, whose rest carries it as well: for every MSS, amount of
\* data, number of retransmissions, probes and ACKs, if the peer keeps its window
\* and IP takes what it is given.
THEOREM FinKept == ~Failures /\ ~Shrinks => (Spec => []FinLast)
<1> SUFFICES ASSUME ~Failures /\ ~Shrinks PROVE Spec => []FinLast
  OBVIOUS
<1>1. FinHolds /\ [Next]_vars => FinHolds'
  BY FinNext
<1> QED
  BY FinInit, <1>1, FinHoldsLast, PTL DEF Spec
=============================================================================
