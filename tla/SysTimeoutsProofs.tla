-------------------------- MODULE SysTimeoutsProofs --------------------------
(***************************************************************************)
(* No timer of lwIP is lost or doubled, and the list is worked through in  *)
(* true time order, whatever the intervals, the width of the clock and the *)
(* time the main loop takes.                                               *)
(***************************************************************************)
EXTENDS SysTimeouts, FiniteSetTheorems, SequenceTheorems, TLAPS

LEMMA Constants ==
  /\ Len(Interval) \in Nat /\ Len(Interval) > 0
  /\ \A h \in Handlers : Interval[h] \in Nat
  /\ TimeMod \in Nat /\ TimeMod > 0 /\ MsPerTick \in Nat /\ MaxLag \in Nat
  /\ PoolSize \in Nat /\ PoolSize >= Len(Interval)
<1>1. Interval \in Seq(Nat \ {0}) /\ Interval # <<>>
  BY TimeoutAssumption
<1>2. Len(Interval) \in Nat \ {0}
  BY <1>1, EmptySeq
<1>3. \A h \in Handlers : Interval[h] \in Nat
  BY <1>1 DEF Handlers
<1> QED
  BY <1>2, <1>3, TimeoutAssumption

LEMMA ModRange ==
  ASSUME NEW x \in Int
  PROVE  x % TimeMod \in Times
  BY Constants DEF Times

\* The least position of a set is not above any other.
LEMMA LeastFirst ==
  ASSUME NEW S \in SUBSET Nat, S # {}
  PROVE  Min(S) \in S /\ \A y \in S : Min(S) <= y
<1> DEFINE R == {ss \in Nat \X Nat : ss[1] < ss[2]}
<1>1. IsWellFoundedOn(R, Nat)
  BY NatLessThanWellFounded DEF OpToRel
<1> HIDE DEF R
<1>2. PICK x \in S : \A y \in S : ~(<<y, x>> \in R)
  BY <1>1, WFMin
<1>3. \A y \in S : x <= y
  <2> SUFFICES ASSUME NEW y \in S, ~(x <= y) PROVE FALSE
    OBVIOUS
  <2>1. <<y, x>> \in Nat \X Nat /\ <<y, x>>[1] < <<y, x>>[2]
    OBVIOUS
  <2>2. <<y, x>> \in R
    BY <2>1, Zenon DEF R
  <2> QED
    BY <2>2, <1>2
<1> QED
  BY <1>3 DEF Min

\* sys_timeout_abs inserts somewhere from the front to the end.
LEMMA InsertPositionRange ==
  ASSUME list \in Seq(Entries), NEW t
  PROVE  InsertPosition(t) \in 1 .. Len(list) + 1
<1> DEFINE I == {i \in 1 .. Len(list) : TimeLessThan(t, list[i].time)}
<1>1. InsertPosition(t) = LET p == IF I # {} THEN Min(I) ELSE 0
                          IN  IF p = 0 THEN Len(list) + 1 ELSE p
  BY DEF InsertPosition, SelectInSeq
<1>2. I \in SUBSET Nat /\ Len(list) \in Nat
  OBVIOUS
<1>3. I # {} => Min(I) \in 1 .. Len(list)
  <2>1. I # {} => Min(I) \in I
    BY <1>2, LeastFirst
  <2> QED
    BY <2>1
<1> HIDE DEF I
<1> QED
  BY <1>1, <1>2, <1>3

\* The elements of a sequence after an insertion.
Inserted(S, s, p, e, r) ==
  /\ r \in Seq(S)
  /\ Len(r) = Len(s) + 1
  /\ \A k \in 1 .. Len(s) + 1 :
        r[k] = IF k < p THEN s[k] ELSE IF k = p THEN e ELSE s[k - 1]

LEMMA InsertAtElements ==
  ASSUME NEW S, NEW s \in Seq(S), NEW e \in S, NEW p \in 1 .. Len(s) + 1
  PROVE  Inserted(S, s, p, e, InsertAt(s, p, e))
<1>1. PICK n \in Nat : n = Len(s)
  OBVIOUS
<1> DEFINE a == SubSeq(s, 1, p - 1) b == SubSeq(s, p, n)
<1>2. a \in Seq(S) /\ Len(a) = p - 1 /\ \A k \in 1 .. p - 1 : a[k] = s[k]
  BY <1>1
<1>3. b \in Seq(S) /\ Len(b) = n - p + 1 /\ \A k \in 1 .. n - p + 1 : b[k] = s[p + k - 1]
  BY <1>1, SubSeqProperties
<1> DEFINE r == a \o <<e>> \o b
<1>4. InsertAt(s, p, e) = r
  BY <1>1 DEF InsertAt
<1> HIDE DEF a, b
<1>5. (a \o <<e>>) \in Seq(S) /\ Len(a \o <<e>>) = p /\ (a \o <<e>>)[p] = e
      /\ \A k \in 1 .. p - 1 : (a \o <<e>>)[k] = a[k]
  BY <1>1, <1>2
<1> DEFINE c == a \o <<e>>
<1> HIDE DEF c
<1>6. /\ c \o b \in Seq(S) /\ Len(c \o b) = Len(c) + Len(b)
      /\ \A k \in 1 .. Len(c) + Len(b) : (c \o b)[k] = IF k <= Len(c) THEN c[k] ELSE b[k - Len(c)]
  <2>1. c \in Seq(S)
    BY <1>5 DEF c
  <2> QED
    BY <2>1, <1>3, ConcatProperties
<1>7. r = c \o b
  BY DEF c
<1> HIDE DEF r
<1>8. Len(r) = n + 1 /\ r \in Seq(S)
  <2>1. Len(c) = p
    BY <1>5 DEF c
  <2> QED
    BY <2>1, <1>1, <1>3, <1>6, <1>7
<1>9. ASSUME NEW k \in 1 .. n + 1
      PROVE  r[k] = IF k < p THEN s[k] ELSE IF k = p THEN e ELSE s[k - 1]
  <2>1. r[k] = IF k <= p THEN c[k] ELSE b[k - p]
    BY <1>1, <1>3, <1>5, <1>6, <1>7 DEF c
  <2>2. CASE k < p
    <3>1. k \in 1 .. p - 1
      BY <2>2, <1>1
    <3> QED
      BY <3>1, <2>1, <2>2, <1>2, <1>5 DEF c
  <2>3. CASE k = p
    BY <2>1, <2>3, <1>5 DEF c
  <2>4. CASE k > p
    <3>1. k - p \in 1 .. n - p + 1 /\ p + (k - p) - 1 = k - 1
      BY <2>4, <1>1
    <3>2. b[k - p] = s[k - 1]
      BY <3>1, <1>3
    <3> QED
      BY <3>2, <2>1, <2>4, <1>1
  <2> QED
    BY <2>2, <2>3, <2>4, <1>1
<1> QED
  BY <1>1, <1>4, <1>8, <1>9 DEF Inserted

-----------------------------------------------------------------------------
(***************************************************************************)
(* The list                                                                *)
(***************************************************************************)
\* No handler has two timeouts.
Once(l) == \A i, j \in DOMAIN l : l[i].h = l[j].h => i = j

ListedIn(l) == {l[i].h : i \in DOMAIN l}

LEMMA ListedIs == Listed = ListedIn(list) /\ Listed' = ListedIn(list')
  BY DEF Listed, ListedIn

\* The pool has a record for every handler that has no timeout.
LEMMA PoolSuffices ==
  ASSUME NEW l \in Seq(Entries), Once(l), NEW h \in Handlers, h \notin ListedIn(l)
  PROVE  Len(l) < PoolSize
<1>1. PICK n \in Nat : n = Len(l) /\ DOMAIN l = 1 .. n
  OBVIOUS
<1> DEFINE T == Handlers \ {h} f == [i \in 1 .. n |-> l[i].h]
<1>2. \A i \in 1 .. n : l[i].h \in T
  <2> SUFFICES ASSUME NEW i \in 1 .. n PROVE l[i].h \in Handlers /\ l[i].h # h
    OBVIOUS
  <2>1. l[i] \in Entries
    BY <1>1
  <2>2. l[i].h \in ListedIn(l)
    BY <1>1 DEF ListedIn
  <2> QED
    BY <2>1, <2>2 DEF Entries
<1>3. f \in [1 .. n -> T]
  BY <1>2
<1>4. f \in Injection(1 .. n, T)
  BY <1>1, <1>3 DEF Injection, IsInjective, Once
<1>5. IsFiniteSet(Handlers) /\ Cardinality(Handlers) = Len(Interval)
  <2>1. PICK m \in Int : m = Len(Interval) /\ m > 0
    BY Constants
  <2>2. IsFiniteSet(1 .. m) /\ Cardinality(1 .. m) = m
    <3>1. 1 \in Int
      OBVIOUS
    <3>2. IsFiniteSet(1 .. m) /\ Cardinality(1 .. m) = IF 1 > m THEN 0 ELSE m - 1 + 1
      BY <3>1, FS_Interval, Zenon
    <3> QED
      BY <2>1, <3>2
  <2> QED
    BY <2>1, <2>2 DEF Handlers
<1>6. IsFiniteSet(T) /\ Cardinality(T) = Len(Interval) - 1
  BY <1>5, FS_RemoveElement
<1>7. Cardinality(1 .. n) = n
  BY FS_Interval
<1> HIDE DEF T, f
<1>8. n <= Len(Interval) - 1
  BY <1>4, <1>6, <1>7, FS_Injection
<1> QED
  BY <1>1, <1>8, Constants

\* A handler without a timeout gets one: sys_timeout_abs never drops it.
LEMMA Added ==
  ASSUME list \in Seq(Entries), Once(list), NEW h \in Handlers, h \notin Listed,
         NEW t \in Times, SysTimeoutAbs(t, h)
  PROVE  /\ list' \in Seq(Entries) /\ Len(list') <= PoolSize
         /\ Once(list')
         /\ Listed' = Listed \cup {h}
<1>1. Len(list) < PoolSize
  BY PoolSuffices, ListedIs
<1> DEFINE e == [time |-> t, h |-> h]
<1>2. PICK n \in Nat : n = Len(list)
  OBVIOUS
<1>3. PICK p \in 1 .. n + 1 : p = InsertPosition(t)
  BY <1>2, InsertPositionRange
<1>4. list' = InsertAt(list, p, e)
  BY <1>1, <1>3, Constants DEF SysTimeoutAbs
<1>5. e \in Entries /\ e.h = h
  BY DEF Entries
<1> HIDE DEF e
<1>6. /\ list' \in Seq(Entries) /\ Len(list') = n + 1
      /\ \A k \in 1 .. n + 1 :
            list'[k] = IF k < p THEN list[k] ELSE IF k = p THEN e ELSE list[k - 1]
  <2>1. p \in 1 .. Len(list) + 1
    BY <1>2, <1>3
  <2>2. Inserted(Entries, list, p, e, list')
    BY <1>4, <1>5, <2>1, InsertAtElements
  <2> QED
    BY <1>2, <2>2 DEF Inserted
<1>7. DOMAIN list' = 1 .. n + 1 /\ DOMAIN list = 1 .. n
  BY <1>2, <1>6
<1>8. \A k \in 1 .. n : list[k].h # h
  BY <1>7 DEF Listed
<1>9. ASSUME NEW k \in 1 .. n + 1
      PROVE  /\ k < p => k \in 1 .. n /\ list'[k] = list[k]
             /\ k = p => list'[k] = e
             /\ k > p => k - 1 \in 1 .. n /\ list'[k] = list[k - 1]
  BY <1>3, <1>6
<1>10. Once(list')
  <2> SUFFICES ASSUME NEW j \in 1 .. n + 1, NEW k \in 1 .. n + 1, list'[j].h = list'[k].h
               PROVE  j = k
    BY <1>7 DEF Once
  <2> DEFINE J(m) == IF m < p THEN m ELSE m - 1
  <2>1. CASE j = p \/ k = p
    BY <2>1, <1>5, <1>8, <1>9, <1>3
  <2>2. CASE j # p /\ k # p
    <3>1. /\ J(j) \in 1 .. n /\ list'[j] = list[J(j)]
          /\ J(k) \in 1 .. n /\ list'[k] = list[J(k)]
      BY <2>2, <1>9, <1>3
    <3>2. J(j) = J(k)
      <4> HIDE DEF J
      <4> QED
        BY <3>1, <1>7 DEF Once
    <3> QED
      BY <3>2, <2>2, <1>3
  <2> QED
    BY <2>1, <2>2
<1>11. Listed' \subseteq Listed \cup {h}
  <2> SUFFICES ASSUME NEW k \in 1 .. n + 1 PROVE list'[k].h \in Listed \cup {h}
    BY <1>7 DEF Listed
  <2> QED
    BY <1>3, <1>5, <1>7, <1>9 DEF Listed
<1>12. Listed \cup {h} \subseteq Listed'
  <2>1. h \in Listed'
    BY <1>3, <1>5, <1>7, <1>9 DEF Listed
  <2>2. ASSUME NEW k \in 1 .. n PROVE list[k].h \in Listed'
    <3>1. CASE k < p
      BY <3>1, <1>6, <1>7 DEF Listed
    <3>2. CASE k >= p
      <4>1. k + 1 \in 1 .. n + 1 /\ k + 1 > p /\ (k + 1) - 1 = k
        BY <3>2, <1>3
      <4>2. list'[k + 1] = list[k]
        BY <4>1, <1>9
      <4> QED
        BY <4>1, <4>2, <1>7 DEF Listed
    <3> QED
      BY <3>1, <3>2, <1>3
  <2> QED
    BY <2>1, <2>2, <1>7 DEF Listed
<1> QED
  BY <1>1, <1>2, <1>6, <1>10, <1>11, <1>12, Constants

-----------------------------------------------------------------------------
(***************************************************************************)
(* The inductive invariant                                                 *)
(***************************************************************************)
\* A handler runs only when called, and the cyclic timers are started before
\* the TCP timer can be.
PcInv == /\ running # 0 <=> pc = "handler"
         /\ pc = "init" => ~active
         /\ pc # "init" => next = Len(Interval) + 1

IInv == TypeOK /\ TimersKept /\ PcInv

\* TimersKept in the terms of the lemmas.
Keeps(L, r, n, a) ==
  /\ r \notin L
  /\ 2 .. n - 1 = (L \union {r}) \ {0, TCP}
  /\ a <=> TCP \in L \union {r}

LEMMA KeptIs ==
  /\ TimersKept <=> (Once(list) /\ Keeps(Listed, running, next, active))
  /\ TimersKept' <=> (Once(list') /\ Keeps(Listed', running', next', active'))
<1>1. TimersKept <=> (Once(list) /\ Keeps(Listed, running, next, active))
  BY Zenon DEF TimersKept, Once, Keeps
<1>2. TimersKept' <=> (Once(list') /\ Keeps(Listed', running', next', active'))
  BY Zenon DEF TimersKept, Once, Keeps, TCP
<1> QED
  BY <1>1, <1>2

LEMMA InitIInv == Init => IInv
<1> SUFFICES ASSUME Init PROVE IInv
  OBVIOUS
<1> USE Constants
<1>1. active = FALSE /\ pcbs = FALSE
  BY DEF Init
<1>2. list = <<>> /\ running = 0 /\ next = 2 /\ pc = "init"
  BY DEF Init
<1>3. TypeOK
  <2>1. active \in BOOLEAN /\ pcbs \in BOOLEAN
    BY <1>1, Zenon
  <2>2. list \in Seq(Entries) /\ Len(list) <= PoolSize
    BY <1>2, EmptySeq
  <2> QED
    BY <2>1, <2>2 DEF Init, TypeOK, Times
<1>4. Listed = {} /\ Once(list)
  BY <1>2 DEF Listed, Once
<1>5. TimersKept
  <2>1. 2 .. next - 1 = {} /\ (Listed \union {running}) \ {0, TCP} = {}
    BY <1>2, <1>4
  <2>2. TCP \notin Listed \union {running} /\ running \notin Listed
    BY <1>2, <1>4 DEF TCP
  <2> QED
    BY <2>1, <2>2, <1>1, <1>4, KeptIs, Zenon DEF Keeps
<1>6. PcInv
  BY <1>1, <1>2 DEF PcInv
<1> QED
  BY <1>3, <1>5, <1>6 DEF IInv

LEMMA ListedHandlers ==
  ASSUME TypeOK
  PROVE  Listed \subseteq Handlers
<1> SUFFICES ASSUME NEW i \in DOMAIN list PROVE list[i].h \in Handlers
  BY DEF Listed
<1>1. list[i] \in Entries
  BY DEF TypeOK
<1> QED
  BY <1>1 DEF Entries

\* Nothing about the timers changes.
LEMMA KeptSame ==
  ASSUME TimersKept, list' = list, running' = running, next' = next, active' = active
  PROVE  TimersKept'
<1>1. Listed' = Listed
  BY DEF Listed
<1> QED
  BY <1>1, KeptIs

\* A time on the clock.
LEMMA NowTypes ==
  ASSUME TypeOK
  PROVE  /\ sys_now \in Times
         /\ \A h \in Handlers : (sys_now + Interval[h]) % TimeMod \in Times
         /\ \A h \in Handlers : (due_time + Interval[h]) % TimeMod \in Times
<1>1. time \in Nat /\ due_time \in Nat
  BY Constants DEF TypeOK, Times
<1>2. time * MsPerTick \in Int
  BY <1>1, Constants
<1>3. sys_now \in Times
  BY <1>2, ModRange DEF sys_now
<1>4. sys_now \in Int
  BY <1>3, Constants DEF Times
<1>5. ASSUME NEW h \in Handlers
      PROVE  /\ (sys_now + Interval[h]) % TimeMod \in Times
             /\ (due_time + Interval[h]) % TimeMod \in Times
  <2>1. sys_now + Interval[h] \in Int /\ due_time + Interval[h] \in Int
    BY <1>1, <1>4, Constants
  <2> QED
    BY <2>1, ModRange
<1> QED
  BY <1>3, <1>5

LEMMA TickStep ==
  ASSUME IInv, Tick
  PROVE  IInv'
<1> USE Constants
<1>1. TypeOK /\ TimersKept /\ PcInv
  BY DEF IInv
<1>2. /\ list' = list /\ active' = active /\ pcbs' = pcbs /\ pc' = pc /\ next' = next /\ now' = now
      /\ running' = running /\ due_time' = due_time /\ calls' = calls
  BY DEF Tick
<1>3. TimersKept'
  BY <1>1, <1>2, KeptSame
<1>4. PcInv'
  BY <1>1, <1>2 DEF PcInv
<1>5. time' \in Times
  <2>1. time + 1 \in Int
    BY <1>1 DEF TypeOK, Times
  <2> QED
    BY <2>1, ModRange DEF Tick
<1>6. due_in' \in [Handlers -> Int] /\ lag' \in 0 .. MaxLag
  BY <1>1 DEF Tick, TypeOK
<1>7. TypeOK'
  BY <1>1, <1>2, <1>5, <1>6 DEF TypeOK, Times, Entries, Handlers
<1> QED
  BY <1>3, <1>4, <1>7 DEF IInv

\* A handler that has no timeout is put into the list by sys_timeout_abs.
LEMMA AddTypes ==
  ASSUME TypeOK, TimersKept, NEW h \in Handlers, h \notin Listed, NEW t \in Times, SysTimeoutAbs(t, h)
  PROVE  /\ list' \in Seq(Entries) /\ Len(list') <= PoolSize
         /\ Once(list')
         /\ Listed' = Listed \cup {h}
  BY Added, KeptIs DEF TypeOK

LEMMA InitStep ==
  ASSUME IInv, SysTimeoutsInit
  PROVE  IInv'
<1> USE Constants
<1>1. TypeOK /\ TimersKept /\ PcInv
  BY DEF IInv
<1>2. /\ pc = "init" /\ next <= Len(Interval) /\ SysTimeout(next) /\ next' = next + 1
      /\ time' = time /\ lag' = lag /\ active' = active /\ pcbs' = pcbs /\ pc' = pc /\ now' = now
      /\ running' = running /\ due_time' = due_time /\ calls' = calls
  BY DEF SysTimeoutsInit, clock
<1>3. next \in Handlers /\ next \in Nat /\ next >= 2 /\ running = 0 /\ ~active
  BY <1>1, <1>2 DEF TypeOK, Handlers, PcInv
<1>4. /\ Once(list) /\ 2 .. next - 1 = Listed \ {0, TCP} /\ (active <=> TCP \in Listed)
  <2>1. (Listed \union {running}) \ {0, TCP} = Listed \ {0, TCP} /\ running # TCP
    BY <1>3 DEF TCP
  <2>2. TCP \in Listed \union {running} <=> TCP \in Listed
    BY <2>1
  <2> QED
    BY <1>1, <2>1, <2>2, KeptIs DEF Keeps
<1>5. next \notin Listed
  BY <1>3, <1>4 DEF TCP
<1>6. SysTimeoutAbs((sys_now + Interval[next]) % TimeMod, next) /\ due_in' = [due_in EXCEPT ![next] = Interval[next]]
  BY <1>2 DEF SysTimeout
<1>7. /\ list' \in Seq(Entries) /\ Len(list') <= PoolSize /\ Once(list')
      /\ Listed' = Listed \cup {next}
  BY <1>1, <1>3, <1>5, <1>6, NowTypes, AddTypes
<1>8. TimersKept'
  <2>1. 0 \notin Listed /\ running' = 0
    BY <1>1, <1>2, <1>3, KeptIs DEF Keeps
  <2>2. running' \notin Listed'
    BY <2>1, <1>3, <1>7
  <2>3. 2 .. next' - 1 = (2 .. next - 1) \cup {next}
    BY <1>2, <1>3
  <2>4. (Listed' \union {running'}) \ {0, TCP} = (Listed \ {0, TCP}) \cup {next}
    BY <1>3, <1>7, <2>1 DEF TCP
  <2>5. TCP \notin Listed' \union {running'}
    BY <1>3, <1>4, <1>7, <2>1 DEF TCP
  <2>6. active' <=> TCP \in Listed' \union {running'}
    BY <1>2, <1>3, <2>5
  <2>7. 2 .. next' - 1 = (Listed' \union {running'}) \ {0, TCP}
    BY <1>4, <2>3, <2>4
  <2> QED
    BY <1>7, <2>2, <2>6, <2>7, KeptIs DEF Keeps
<1>9. PcInv'
  BY <1>1, <1>2 DEF PcInv
<1>10. TypeOK'
  <2>1. due_in' \in [Handlers -> Int] /\ next' \in 2 .. Len(Interval) + 1
    BY <1>1, <1>2, <1>3, <1>6 DEF TypeOK
  <2> QED
    BY <1>1, <1>2, <1>7, <2>1 DEF TypeOK, Times, Entries, Handlers
<1> QED
  BY <1>8, <1>9, <1>10 DEF IInv

LEMMA InitDoneStep ==
  ASSUME IInv, InitDone
  PROVE  IInv'
<1> USE Constants
<1>1. TypeOK /\ TimersKept /\ PcInv
  BY DEF IInv
<1>2. /\ pc = "init" /\ next > Len(Interval) /\ pc' = "main" /\ next' = next
      /\ time' = time /\ lag' = lag /\ active' = active /\ pcbs' = pcbs /\ now' = now /\ list' = list
      /\ running' = running /\ due_time' = due_time /\ calls' = calls /\ due_in' = due_in
  BY DEF InitDone, clock
<1>3. TimersKept'
  BY <1>1, <1>2, KeptSame
<1>4. PcInv'
  BY <1>1, <1>2 DEF PcInv, TypeOK
<1>5. TypeOK'
  BY <1>1, <1>2 DEF TypeOK, Times, Entries, Handlers
<1> QED
  BY <1>3, <1>4, <1>5 DEF IInv

\* tcp_timer_needed starts the TCP timer only when it has no timeout.
LEMMA TcpRegStep ==
  ASSUME IInv, TcpReg
  PROVE  IInv'
<1> USE Constants
<1>1. TypeOK /\ TimersKept /\ PcInv
  BY DEF IInv
<1>2. /\ pc = "main" /\ pc' = pc /\ next' = next /\ time' = time /\ lag' = lag /\ now' = now
      /\ running' = running /\ due_time' = due_time /\ calls' = calls
  BY DEF TcpReg, clock
<1>3. pcbs' \in BOOLEAN
  <2>1. pcbs \in BOOLEAN /\ pcbs' \in {pcbs, TRUE}
    BY <1>1 DEF TypeOK, TcpReg
  <2> QED
    BY <2>1, Zenon
<1>4. running = 0 /\ TCP \in Handlers /\ TCP # 0
  BY <1>1, <1>2 DEF PcInv, TCP, Handlers
<1>5. CASE ~active /\ pcbs'
  <2>1. active' = TRUE /\ SysTimeout(TCP)
    BY <1>5, Zenon DEF TcpReg, TcpTimerNeeded
  <2>2. Keeps(Listed, 0, next, active)
    BY <1>1, <1>4, KeptIs
  <2>3. TCP \notin Listed /\ 0 \notin Listed
    BY <2>2, <1>5 DEF Keeps
  <2>4. SysTimeoutAbs((sys_now + Interval[TCP]) % TimeMod, TCP) /\ due_in' = [due_in EXCEPT ![TCP] = Interval[TCP]]
    BY <2>1 DEF SysTimeout
  <2>5. /\ list' \in Seq(Entries) /\ Len(list') <= PoolSize /\ Once(list')
        /\ Listed' = Listed \cup {TCP}
    BY <1>1, <1>4, <2>3, <2>4, NowTypes, AddTypes
  <2>6. Keeps(Listed', running', next', active')
    <3>1. running' \notin Listed'
      BY <1>2, <1>4, <2>3, <2>5
    <3>2. (Listed' \union {running'}) \ {0, TCP} = (Listed \union {0}) \ {0, TCP}
      BY <1>2, <1>4, <2>5
    <3>3. TCP \in Listed' \union {running'}
      BY <2>5
    <3> QED
      BY <1>2, <2>1, <2>2, <3>1, <3>2, <3>3 DEF Keeps
  <2>7. TimersKept'
    BY <2>5, <2>6, KeptIs
  <2>8. active' \in BOOLEAN
    BY <2>1, Zenon
  <2>9. due_in' \in [Handlers -> Int]
    BY <1>1, <1>4, <2>4 DEF TypeOK
  <2>10. TypeOK'
    BY <1>1, <1>2, <1>3, <2>5, <2>8, <2>9 DEF TypeOK, Times, Entries, Handlers
  <2>11. PcInv'
    BY <1>1, <1>2 DEF PcInv
  <2> QED
    BY <2>7, <2>10, <2>11 DEF IInv
<1>6. CASE ~(~active /\ pcbs')
  <2>1. active' = active /\ list' = list /\ due_in' = due_in
    BY <1>6, Zenon DEF TcpReg, TcpTimerNeeded
  <2>2. TimersKept'
    BY <1>1, <1>2, <2>1, KeptSame
  <2>3. TypeOK'
    BY <1>1, <1>2, <1>3, <2>1 DEF TypeOK, Times, Entries, Handlers
  <2>4. PcInv'
    BY <1>1, <1>2 DEF PcInv
  <2> QED
    BY <2>2, <2>3, <2>4 DEF IInv
<1> QED
  BY <1>5, <1>6

\* Steps that leave the timers alone.
LEMMA AsideStep ==
  ASSUME IInv, TcpRmv \/ CheckTimeouts \/ CheckReturn \/ UNCHANGED vars
  PROVE  IInv'
<1> USE Constants
<1>1. TypeOK /\ TimersKept /\ PcInv
  BY DEF IInv
<1>2. /\ list' = list /\ running' = running /\ next' = next /\ active' = active /\ time' = time
      /\ due_time' = due_time /\ due_in' = due_in
  BY DEF TcpRmv, CheckTimeouts, CheckReturn, vars, clock
<1>3. TimersKept'
  BY <1>1, <1>2, KeptSame
<1>4. /\ pc' \in {"init", "main", "check", "handler"} /\ (pc' = "handler" <=> pc = "handler")
      /\ (pc' = "init" <=> pc = "init")
  BY <1>1 DEF TypeOK, TcpRmv, CheckTimeouts, CheckReturn, vars
<1>5. PcInv'
  BY <1>1, <1>2, <1>4 DEF PcInv
<1>6. pcbs' \in BOOLEAN
  <2>1. pcbs \in BOOLEAN /\ (pcbs' = FALSE \/ pcbs' = pcbs)
    BY <1>1, Zenon DEF TypeOK, TcpRmv, CheckTimeouts, CheckReturn, vars
  <2> QED
    BY <2>1, Zenon
<1>7. now' \in Times /\ lag' \in 0 .. MaxLag /\ calls' \in [Handlers -> Nat]
  <2>1. CASE CheckTimeouts
    BY <2>1, <1>1, NowTypes DEF CheckTimeouts
  <2>2. CASE ~CheckTimeouts
    <3>1. now' = now /\ lag' = lag /\ calls' = calls
      BY <2>2 DEF TcpRmv, CheckReturn, vars, clock
    <3> QED
      BY <3>1, <1>1 DEF TypeOK
  <2> QED
    BY <2>1, <2>2
<1>8. TypeOK'
  BY <1>1, <1>2, <1>4, <1>6, <1>7 DEF TypeOK, Times, Entries, Handlers
<1> QED
  BY <1>3, <1>5, <1>8 DEF IInv

\* The timeout of a handler goes when it is called.
LEMMA ExpireStep ==
  ASSUME IInv, Expire
  PROVE  IInv'
<1> USE Constants
<1>1. TypeOK /\ TimersKept /\ PcInv
  BY DEF IInv
<1>2. /\ pc = "check" /\ list # <<>> /\ list' = Tail(list) /\ running' = Head(list).h
      /\ due_time' = Head(list).time /\ calls' = [calls EXCEPT ![Head(list).h] = @ + 1]
      /\ pc' = "handler" /\ time' = time /\ lag' = lag /\ active' = active /\ pcbs' = pcbs
      /\ next' = next /\ now' = now /\ due_in' = due_in
  BY DEF Expire, Expired, clock
<1>3. running = 0
  BY <1>1, <1>2 DEF PcInv
<1>4. PICK n \in Nat : n = Len(list) /\ n > 0 /\ n <= PoolSize
  BY <1>1, <1>2, EmptySeq DEF TypeOK
<1>5. /\ list \in Seq(Entries) /\ DOMAIN list = 1 .. n /\ Head(list) = list[1] /\ list[1] \in Entries
  BY <1>1, <1>4 DEF TypeOK
<1>6. list' \in Seq(Entries) /\ Len(list') = n - 1 /\ \A k \in 1 .. n - 1 : list'[k] = list[k + 1]
  <2>1. /\ Tail(list) \in Seq(Entries) /\ Len(Tail(list)) = Len(list) - 1
        /\ \A i \in 1 .. Len(Tail(list)) : Tail(list)[i] = list[i + 1]
    BY <1>2, <1>5, HeadTailProperties, Zenon
  <2> QED
    BY <1>2, <1>4, <2>1
<1>7. DOMAIN list' = 1 .. n - 1
  BY <1>4, <1>6
<1>8. Once(list) /\ Keeps(Listed, 0, next, active)
  BY <1>1, <1>3, KeptIs
<1>9. Once(list')
  <2> SUFFICES ASSUME NEW j \in 1 .. n - 1, NEW k \in 1 .. n - 1, list'[j].h = list'[k].h
               PROVE  j = k
    BY <1>7 DEF Once
  <2>1. j + 1 \in 1 .. n /\ k + 1 \in 1 .. n /\ list[j + 1].h = list[k + 1].h
    BY <1>4, <1>6
  <2>2. j + 1 = k + 1
    BY <2>1, <1>5, <1>8 DEF Once
  <2> QED
    BY <2>2
<1>10. Listed = Listed' \cup {running'}
  <2>1. ASSUME NEW k \in 1 .. n PROVE list[k].h \in Listed' \cup {running'}
    <3>1. CASE k = 1
      BY <3>1, <1>2, <1>5
    <3>2. CASE k # 1
      <4>1. k - 1 \in 1 .. n - 1 /\ (k - 1) + 1 = k
        BY <3>2, <1>4
      <4>2. list'[k - 1] = list[k]
        BY <4>1, <1>6
      <4> QED
        BY <4>1, <4>2, <1>7 DEF Listed
    <3> QED
      BY <3>1, <3>2
  <2>2. ASSUME NEW k \in 1 .. n - 1 PROVE list'[k].h \in Listed
    <3>1. k + 1 \in 1 .. n /\ list'[k] = list[k + 1]
      BY <1>4, <1>6
    <3> QED
      BY <3>1, <1>5 DEF Listed
  <2>3. running' \in Listed
    BY <1>2, <1>4, <1>5 DEF Listed
  <2>4. Listed \subseteq Listed' \cup {running'}
    BY <2>1, <1>5 DEF Listed
  <2>5. Listed' \subseteq Listed
    BY <2>2, <1>7 DEF Listed
  <2> QED
    BY <2>3, <2>4, <2>5
<1>11. running' \notin Listed'
  <2> SUFFICES ASSUME NEW k \in 1 .. n - 1, list'[k].h = list[1].h PROVE FALSE
    BY <1>2, <1>5, <1>7 DEF Listed
  <2>1. k + 1 \in 1 .. n /\ 1 \in 1 .. n /\ k + 1 # 1 /\ list[k + 1].h = list[1].h
    BY <1>4, <1>6
  <2> QED
    BY <2>1, <1>5, <1>8 DEF Once
<1>12. TimersKept'
  <2>1. (Listed' \union {running'}) \ {0, TCP} = (Listed \union {0}) \ {0, TCP}
    BY <1>10
  <2>2. TCP \in Listed' \union {running'} <=> TCP \in Listed \union {0}
    BY <1>10 DEF TCP
  <2>3. Keeps(Listed', running', next', active')
    BY <1>2, <1>8, <1>11, <2>1, <2>2 DEF Keeps
  <2> QED
    BY <1>9, <2>3, KeptIs
<1>13. running' \in Handlers /\ due_time' \in Times /\ running' # 0
  BY <1>2, <1>5 DEF Entries, Handlers
<1>14. PcInv'
  BY <1>1, <1>2, <1>13 DEF PcInv
<1>15. TypeOK'
  <2>1. calls' \in [Handlers -> Nat]
    BY <1>1, <1>2, <1>13 DEF TypeOK
  <2>2. Len(list') <= PoolSize
    BY <1>4, <1>6
  <2> QED
    BY <1>1, <1>2, <1>6, <1>13, <2>1, <2>2 DEF TypeOK, Times, Entries, Handlers
<1> QED
  BY <1>12, <1>14, <1>15 DEF IInv

\* The handler that runs puts itself back.
LEMMA PutBack ==
  ASSUME IInv, pc = "handler", pc' = "check", running' = 0, next' = next, active' = active,
         NEW t \in Times, SysTimeoutAbs(t, running)
  PROVE  /\ list' \in Seq(Entries) /\ Len(list') <= PoolSize
         /\ TimersKept' /\ PcInv' /\ running \in Handlers
<1>1. TypeOK /\ TimersKept /\ PcInv
  BY DEF IInv
<1>2. running \in Handlers /\ running # 0
  BY <1>1 DEF TypeOK, PcInv
<1>3. Once(list) /\ Keeps(Listed, running, next, active)
  BY <1>1, KeptIs
<1>4. running \notin Listed
  BY <1>3 DEF Keeps
<1>5. /\ list' \in Seq(Entries) /\ Len(list') <= PoolSize /\ Once(list')
      /\ Listed' = Listed \cup {running}
  BY <1>1, <1>2, <1>4, AddTypes
<1>6. 0 \notin Listed'
  <2>1. Listed \subseteq Handlers
    BY <1>1, ListedHandlers
  <2> QED
    BY <1>2, <1>5, <2>1 DEF Handlers
<1>7. (Listed' \union {0}) \ {0, TCP} = (Listed \union {running}) \ {0, TCP}
  BY <1>5
<1>8. TCP \in Listed' \union {0} <=> TCP \in Listed \union {running}
  BY <1>5 DEF TCP
<1>9. Keeps(Listed', running', next', active')
  BY <1>3, <1>6, <1>7, <1>8 DEF Keeps
<1>10. TimersKept'
  BY <1>5, <1>9, KeptIs
<1>11. PcInv'
  BY <1>1 DEF PcInv
<1> QED
  BY <1>2, <1>5, <1>10, <1>11

LEMMA TcpTimerStep ==
  ASSUME IInv, TcpTimer
  PROVE  IInv'
<1> USE Constants
<1>1. TypeOK /\ TimersKept /\ PcInv
  BY DEF IInv
<1>2. /\ pc = "handler" /\ running = TCP /\ pc' = "check" /\ running' = 0 /\ time' = time /\ lag' = lag
      /\ next' = next /\ now' = now /\ due_time' = due_time /\ calls' = calls
  BY DEF TcpTimer, clock
<1>3. pcbs' \in BOOLEAN
  <2>1. pcbs \in BOOLEAN /\ pcbs' \in {FALSE, pcbs}
    BY <1>1 DEF TypeOK, TcpTimer
  <2> QED
    BY <2>1, Zenon
<1>4. CASE pcbs'
  <2>1. SysTimeout(TCP) /\ active' = active
    BY <1>4, Zenon DEF TcpTimer
  <2>2. SysTimeoutAbs((sys_now + Interval[TCP]) % TimeMod, running) /\ due_in' = [due_in EXCEPT ![TCP] = Interval[TCP]]
    BY <1>2, <2>1 DEF SysTimeout
  <2>3. TCP \in Handlers
    BY DEF TCP, Handlers
  <2>4. /\ list' \in Seq(Entries) /\ Len(list') <= PoolSize /\ TimersKept' /\ PcInv'
    BY <1>1, <1>2, <2>1, <2>2, <2>3, NowTypes, PutBack
  <2>5. due_in' \in [Handlers -> Int]
    BY <1>1, <2>2, <2>3 DEF TypeOK
  <2>6. TypeOK'
    BY <1>1, <1>2, <1>3, <2>1, <2>4, <2>5 DEF TypeOK, Times, Entries, Handlers
  <2> QED
    BY <2>4, <2>6 DEF IInv
<1>5. CASE ~pcbs'
  <2>1. active' = FALSE /\ list' = list /\ due_in' = due_in
    BY <1>5, Zenon DEF TcpTimer
  <2>2. Once(list) /\ Keeps(Listed, TCP, next, active)
    BY <1>1, <1>2, KeptIs
  <2>3. Listed' = Listed /\ 0 \notin Listed
    <3>1. Listed \subseteq Handlers
      BY <1>1, ListedHandlers
    <3> QED
      BY <2>1, <3>1 DEF Listed, Handlers
  <2>4. (Listed' \union {0}) \ {0, TCP} = (Listed \union {TCP}) \ {0, TCP}
    BY <2>3
  <2>5. TCP \notin Listed' \union {0}
    BY <2>2, <2>3 DEF Keeps, TCP
  <2>6. Keeps(Listed', running', next', active')
    BY <1>2, <2>1, <2>2, <2>3, <2>4, <2>5 DEF Keeps
  <2>7. TimersKept'
    BY <2>1, <2>2, <2>6, KeptIs
  <2>8. PcInv'
    BY <1>1, <1>2 DEF PcInv
  <2>9. active' \in BOOLEAN
    BY <2>1, Zenon
  <2>10. TypeOK'
    BY <1>1, <1>2, <1>3, <2>1, <2>9 DEF TypeOK, Times, Entries, Handlers
  <2> QED
    BY <2>7, <2>8, <2>10 DEF IInv
<1> QED
  BY <1>3, <1>4, <1>5

LEMMA CyclicTimerStep ==
  ASSUME IInv, CyclicTimer
  PROVE  IInv'
<1> USE Constants
<1>1. TypeOK /\ TimersKept /\ PcInv
  BY DEF IInv
<1>2. /\ pc = "handler" /\ pc' = "check" /\ running' = 0 /\ time' = time /\ lag' = lag
      /\ active' = active /\ pcbs' = pcbs
      /\ next' = next /\ now' = now /\ due_time' = due_time /\ calls' = calls
  BY DEF CyclicTimer, clock
<1>3. running \in Handlers
  BY <1>1, <1>2 DEF TypeOK, PcInv
<1> DEFINE t == (due_time + Interval[running]) % TimeMod
<1>4. \/ SysTimeout(running)
      \/ /\ SysTimeoutAbs(t, running)
         /\ due_in' = [due_in EXCEPT ![running] = @ + Interval[running]]
  BY DEF CyclicTimer
<1>5. t \in Times /\ (sys_now + Interval[running]) % TimeMod \in Times
  BY <1>1, <1>3, NowTypes
<1> HIDE DEF t
<1>6. \E u \in Times : SysTimeoutAbs(u, running)
  BY <1>4, <1>5 DEF SysTimeout
<1>7. /\ list' \in Seq(Entries) /\ Len(list') <= PoolSize /\ TimersKept' /\ PcInv'
  BY <1>2, <1>6, PutBack
<1>8. due_in' \in [Handlers -> Int]
  BY <1>1, <1>3, <1>4 DEF SysTimeout, TypeOK
<1>9. TypeOK'
  BY <1>1, <1>2, <1>7, <1>8 DEF TypeOK, Times, Entries, Handlers
<1> QED
  BY <1>7, <1>9 DEF IInv

LEMMA IInvAlways == Spec => []IInv
<1>1. IInv /\ [Next]_vars => IInv'
  BY TickStep, InitStep, InitDoneStep, TcpRegStep, AsideStep, ExpireStep, TcpTimerStep,
     CyclicTimerStep DEF Next, MainLoop
<1> QED
  BY <1>1, InitIInv, PTL DEF Spec

-----------------------------------------------------------------------------
\* The state of timeouts.c keeps its types; the pool is never overdrawn.
THEOREM TypeCorrect == Spec => []TypeOK
<1>1. IInv => TypeOK
  BY DEF IInv
<1> QED
  BY <1>1, IInvAlways, PTL

\* No cyclic timer and not the TCP timer is ever lost or doubled: a pool with
\* one record for each never runs out.
THEOREM NoTimerLost == Spec => []TimersKept
<1>1. IInv => TimersKept
  BY DEF IInv
<1> QED
  BY <1>1, IInvAlways, PTL

\* Every record of the timeout pool is free, running or on the list once, and no
\* cyclic timer is ever without a record.
THEOREM RecordsAreSafe == Spec => []RecordsSafe
BY TypeCorrect, NoTimerLost, PTL DEF RecordsSafe

-----------------------------------------------------------------------------
(***************************************************************************)
(* Milliseconds on the clock                                               *)
(***************************************************************************)
\* Two numbers of milliseconds that are the same on the clock.
Same(a, b) == \E q \in Int : a = b + q * TimeMod

\* Reducing modulo the width of the clock does not change the time shown.
LEMMA SameMod ==
  ASSUME NEW x \in Int
  PROVE  Same(x % TimeMod, x)
<1>1. PICK m \in Nat : m = TimeMod /\ m > 0
  BY Constants
<1>2. x = m * (x \div m) + (x % m) /\ x \div m \in Int /\ x % m \in Int
  BY <1>1
<1>3. PICK q \in Int : q = x \div m
  BY <1>2
<1>4. x % m = x + (-q) * m /\ -q \in Int
  BY <1>1, <1>2, <1>3
<1> QED
  BY <1>1, <1>4, Zenon DEF Same

\* Times that are the same stay so when the same is added or taken away.
LEMMA SameAdd ==
  ASSUME NEW a \in Int, NEW b \in Int, NEW c \in Int, NEW d \in Int, Same(a, b), Same(c, d)
  PROVE  Same(a + c, b + d) /\ Same(a - c, b - d)
<1>1. PICK m \in Nat : m = TimeMod /\ m > 0
  BY Constants
<1>2. PICK q \in Int : a = b + q * m
  BY <1>1 DEF Same
<1>3. PICK r \in Int : c = d + r * m
  BY <1>1 DEF Same
<1>4. a + c = b + d + (q + r) * m /\ a - c = b - d + (q - r) * m
  BY <1>1, <1>2, <1>3
<1>5. q + r \in Int /\ q - r \in Int
  OBVIOUS
<1> QED
  BY <1>1, <1>4, <1>5, Zenon DEF Same

LEMMA SameSelf ==
  ASSUME NEW a \in Int
  PROVE  Same(a, a)
<1>1. a = a + 0 * TimeMod
  BY Constants
<1> QED
  BY <1>1 DEF Same

LEMMA SameSym ==
  ASSUME NEW a \in Int, NEW b \in Int, Same(a, b)
  PROVE  Same(b, a)
<1>1. PICK m \in Nat : m = TimeMod /\ m > 0
  BY Constants
<1>2. PICK q \in Int : a = b + q * m
  BY <1>1 DEF Same
<1>3. b = a + (-q) * m /\ -q \in Int
  BY <1>1, <1>2
<1> QED
  BY <1>1, <1>3, Zenon DEF Same

LEMMA SameTrans ==
  ASSUME NEW a \in Int, NEW b \in Int, NEW c \in Int, Same(a, b), Same(b, c)
  PROVE  Same(a, c)
<1>1. PICK m \in Nat : m = TimeMod /\ m > 0
  BY Constants
<1>2. PICK q \in Int : a = b + q * m
  BY <1>1 DEF Same
<1>3. PICK r \in Int : b = c + r * m
  BY <1>1 DEF Same
<1>4. a = c + (q + r) * m /\ q + r \in Int
  BY <1>1, <1>2, <1>3
<1> QED
  BY <1>1, <1>4, Zenon DEF Same

\* Two readings of the clock that are the same are equal.
LEMMA SameTimes ==
  ASSUME NEW a \in Times, NEW b \in Times, Same(a, b)
  PROVE  a = b
<1>1. PICK m \in Nat : m = TimeMod /\ m > 0
  BY Constants
<1>2. PICK q \in Int : a = b + q * m
  BY <1>1 DEF Same
<1>3. a \in 0 .. m - 1 /\ b \in 0 .. m - 1
  BY <1>1 DEF Times
<1>4. CASE q >= 1
  <2>1. q * m >= m
    BY <1>4, <1>1
  <2> QED
    BY <2>1, <1>1, <1>2, <1>3
<1>5. CASE q <= -1
  <2>1. q * m <= -m
    BY <1>5, <1>1
  <2> QED
    BY <2>1, <1>1, <1>2, <1>3
<1>6. CASE q = 0
  BY <1>1, <1>2, <1>3, <1>6
<1> QED
  BY <1>4, <1>5, <1>6

\* TIME_LESS_THAN compares times that are less than half a turn apart.
LEMMA LessThan ==
  ASSUME NEW t \in Times, NEW c \in Times, NEW d \in Int, Same(t - c, d),
         2 * d < TimeMod, 2 * d > - TimeMod
  PROVE  TimeLessThan(t, c) <=> d < 0
<1>1. PICK m \in Nat : m = TimeMod /\ m > 0 /\ m % 2 = 0
  BY Constants, TimeoutAssumption
<1>2. PICK n \in Nat : m = 2 * n /\ m \div 2 = n
  BY <1>1
<1>3. t - c \in Int /\ (t - c) % m \in Times
  BY <1>1, ModRange DEF Times
<1>4. Same((t - c) % m, t - c)
  BY <1>1, <1>3, SameMod
<1>5. Same((t - c) % m, d)
  <2>1. (t - c) % m \in Int
    BY <1>3, <1>1 DEF Times
  <2> QED
    BY <1>3, <1>4, <2>1, SameTrans
<1>6. CASE d >= 0
  <2>1. d \in Times
    BY <1>1, <1>6 DEF Times
  <2>2. (t - c) % m = d
    BY <2>1, <1>3, <1>5, SameTimes
  <2> QED
    BY <2>2, <1>1, <1>2, <1>6 DEF TimeLessThan
<1>7. CASE d < 0
  <2>1. d + m \in Times
    BY <1>1, <1>7 DEF Times
  <2>2. Same(d, d + m)
    <3>1. d = (d + m) + (-1) * m
      BY <1>1
    <3> QED
      BY <3>1, <1>1 DEF Same
  <2>3. (t - c) % m = d + m
    <3>1. Same((t - c) % m, d + m)
      BY <2>2, <1>5, <1>3, <1>1, SameTrans DEF Times
    <3> QED
      BY <3>1, <2>1, <1>3, SameTimes
  <2> QED
    BY <2>3, <1>1, <1>2, <1>7 DEF TimeLessThan
<1> QED
  BY <1>6, <1>7

-----------------------------------------------------------------------------
(***************************************************************************)
(* Times and order                                                         *)
(***************************************************************************)
\* The times in l are those at which the handlers are due, D ms from s on.
Timed(l, D, s) == \A i \in DOMAIN l : Same(l[i].time - s, D[l[i].h])

InOrder(l, D) == \A i, j \in DOMAIN l : i < j => D[l[i].h] <= D[l[j].h]

\* Milliseconds since sys_check_timeouts read the clock, and their limit.
Elapsed == lag * MsPerTick
MaxElapsed == MaxLag * MsPerTick

\* sys_check_timeouts is at work: what it finds may be late by a pass already.
Checking == pc \in {"check", "handler"}
Late == IF Checking THEN MaxElapsed ELSE 0

\* How long a pending timeout may be ahead or overdue.
PendingInv ==
  \A h \in Listed : /\ due_in[h] <= Interval[h]
                    /\ due_in[h] > - (Elapsed + Late)

\* The handler that runs was due when the clock was read.
RunningInv ==
  running # 0 => /\ Same(due_time - sys_now, due_in[running])
                 /\ due_in[running] > - (Elapsed + MaxElapsed)
                 /\ due_in[running] <= - Elapsed
                 /\ calls[running] \in 1 .. 2
                 /\ calls[running] = 2 => due_in[running] >= - Elapsed

\* A handler that was called is due again when the clock was read at the
\* earliest, and one that was called twice only later.
CallsInv ==
  Checking => \A h \in Listed : /\ calls[h] = 1 => due_in[h] >= - Elapsed
                                /\ calls[h] >= 2 => due_in[h] > - Elapsed

\* The invariant of the schedule.
SInv == /\ Timed(list, due_in, sys_now)
        /\ InOrder(list, due_in)
        /\ Checking => Same(now - sys_now, 0 - Elapsed)
        /\ PendingInv
        /\ RunningInv
        /\ CallsInv
        /\ NoBurst

\* What the assumption on the constants says of the milliseconds in play.
LEMMA Bounds ==
  ASSUME TypeOK
  PROVE  /\ Elapsed \in Nat /\ MaxElapsed \in Nat /\ Elapsed <= MaxElapsed
         /\ \A h \in Handlers : /\ Interval[h] \in Nat /\ Interval[h] > 0
                                /\ 2 * (Interval[h] + 2 * MaxElapsed) < TimeMod
<1>1. lag \in Nat /\ MaxLag \in Nat /\ MsPerTick \in Nat /\ lag <= MaxLag
  BY Constants DEF TypeOK
<1>2. Elapsed \in Nat /\ MaxElapsed \in Nat
  BY <1>1 DEF Elapsed, MaxElapsed
<1>3. PICK k \in Nat : MaxLag = lag + k
  <2>1. MaxLag - lag \in Nat /\ MaxLag = lag + (MaxLag - lag)
    BY <1>1
  <2> QED
    BY <2>1
<1>4. MaxElapsed = Elapsed + k * MsPerTick /\ k * MsPerTick \in Nat
  BY <1>1, <1>3 DEF Elapsed, MaxElapsed
<1>5. ASSUME NEW h \in Handlers
      PROVE  /\ Interval[h] \in Nat /\ Interval[h] > 0
             /\ 2 * (Interval[h] + 2 * MaxElapsed) < TimeMod
  <2>1. Interval \in Seq(Nat \ {0})
    BY TimeoutAssumption
  <2>2. Interval[h] \in Nat \ {0}
    BY <2>1 DEF Handlers
  <2>3. 2 * (Interval[h] + 2 * MaxLag * MsPerTick) < TimeMod
    BY TimeoutAssumption
  <2>4. 2 * MaxLag * MsPerTick = 2 * MaxElapsed
    BY <1>1 DEF MaxElapsed
  <2> QED
    BY <2>2, <2>3, <2>4
<1> QED
  BY <1>2, <1>4, <1>5

\* The millisecond clock goes on by a tick, also where it or the tick counter
\* wraps.
LEMMA ClockTicks ==
  ASSUME TypeOK, time' = (time + 1) % TimeMod
  PROVE  sys_now \in Int /\ sys_now' \in Int /\ Same(sys_now', sys_now + MsPerTick)
<1>1. PICK m \in Nat, w \in Nat, n \in Nat : m = TimeMod /\ m > 0 /\ w = MsPerTick /\ n = time
  BY Constants DEF TypeOK, Times
<1>2. PICK z \in Int : z = time' /\ Same(z, n + 1)
  <2>1. (n + 1) % m \in Int
    BY <1>1
  <2> QED
    BY <2>1, <1>1, SameMod
<1>3. PICK q \in Int : z = n + 1 + q * m
  BY <1>1, <1>2 DEF Same
<1>4. z * w = (n * w + w) + (q * w) * m /\ q * w \in Int
  BY <1>1, <1>3
<1>5. z * w \in Int /\ n * w \in Int /\ n * w + w \in Int
  OBVIOUS
<1>6. Same(z * w, n * w + w)
  BY <1>1, <1>4, Zenon DEF Same
<1>7. sys_now = (n * w) % m /\ sys_now' = (z * w) % m
  BY <1>1, <1>2 DEF sys_now
<1>8. sys_now \in Int /\ sys_now' \in Int
  BY <1>7, <1>5, <1>1
<1>9. Same(sys_now', z * w) /\ Same(sys_now, n * w)
  BY <1>1, <1>5, <1>7, SameMod
<1>10. Same(n * w + w, sys_now + w)
  <2>1. Same(n * w, sys_now) /\ Same(w, w)
    BY <1>5, <1>8, <1>9, SameSym, SameSelf
  <2> QED
    BY <2>1, <1>5, <1>8, SameAdd
<1>11. Same(sys_now', n * w + w)
  BY <1>5, <1>6, <1>8, <1>9, SameTrans
<1>12. sys_now + w \in Int
  BY <1>8
<1> QED
  BY <1>1, <1>5, <1>8, <1>10, <1>11, <1>12, SameTrans

\* sys_timeout_abs puts a timeout where it belongs: behind those that are due
\* before it or with it, in front of the others.
LEMMA InsertOrdered ==
  ASSUME TypeOK, Once(list), NEW h \in Handlers, h \notin Listed,
         NEW t \in Times, SysTimeoutAbs(t, h),
         NEW d \in Int, Same(t - sys_now, d),
         Timed(list, due_in, sys_now), InOrder(list, due_in),
         \A g \in Listed : /\ 2 * (d - due_in[g]) < TimeMod
                           /\ 2 * (d - due_in[g]) > - TimeMod,
         due_in' = [due_in EXCEPT ![h] = d]
  PROVE  /\ Timed(list', due_in', sys_now)
         /\ InOrder(list', due_in')
<1>1. list \in Seq(Entries) /\ Len(list) < PoolSize
  BY PoolSuffices, ListedIs DEF TypeOK
<1> DEFINE e == [time |-> t, h |-> h]
<1>2. PICK n \in Nat : n = Len(list) /\ DOMAIN list = 1 .. n
  BY <1>1
<1>3. PICK p \in 1 .. n + 1 : p = InsertPosition(t)
  BY <1>1, <1>2, InsertPositionRange
<1>4. list' = InsertAt(list, p, e)
  BY <1>1, <1>3, Constants DEF SysTimeoutAbs
<1>5. e \in Entries /\ e.h = h /\ e.time = t
  BY DEF Entries
<1> HIDE DEF e
<1>6. Inserted(Entries, list, p, e, list')
  <2>1. p \in 1 .. Len(list) + 1
    BY <1>2, <1>3
  <2> QED
    BY <1>1, <1>4, <1>5, <2>1, InsertAtElements
<1>7. /\ DOMAIN list' = 1 .. n + 1
      /\ \A k \in 1 .. n + 1 : /\ k < p => k \in 1 .. n /\ list'[k] = list[k]
                               /\ k = p => list'[k] = e
                               /\ k > p => k - 1 \in 1 .. n /\ list'[k] = list[k - 1]
  BY <1>2, <1>3, <1>6 DEF Inserted
<1>8. \A k \in 1 .. n : /\ list[k].h \in Handlers /\ list[k].time \in Times
                        /\ list[k].h \in Listed /\ list[k].h # h
  <2> SUFFICES ASSUME NEW k \in 1 .. n
               PROVE  /\ list[k].h \in Handlers /\ list[k].time \in Times
                      /\ list[k].h \in Listed /\ list[k].h # h
    OBVIOUS
  <2>1. list[k] \in Entries
    BY <1>1, <1>2
  <2>2. list[k].h \in Listed
    BY <1>2 DEF Listed
  <2> QED
    BY <2>1, <2>2 DEF Entries
<1>9. due_in \in [Handlers -> Int] /\ due_in' \in [Handlers -> Int]
      /\ due_in'[h] = d /\ \A g \in Handlers : g # h => due_in'[g] = due_in[g]
  BY DEF TypeOK
<1>10. sys_now \in Times /\ sys_now \in Int /\ t \in Int
  BY NowTypes, Constants DEF Times
<1>11. ASSUME NEW k \in 1 .. n
       PROVE  TimeLessThan(t, list[k].time) <=> d < due_in[list[k].h]
  <2>1. PICK c \in Int : c = list[k].time /\ c \in Times
    BY <1>8, Constants DEF Times
  <2>2. PICK u \in Int : u = due_in[list[k].h]
    BY <1>8, <1>9
  <2>3. Same(c - sys_now, u)
    BY <1>2, <2>1, <2>2 DEF Timed
  <2>4. Same((t - sys_now) - (c - sys_now), d - u)
    <3>1. t - sys_now \in Int /\ c - sys_now \in Int
      BY <1>10
    <3> QED
      BY <3>1, <2>3, SameAdd
  <2>5. (t - sys_now) - (c - sys_now) = t - c
    BY <1>10
  <2>6. Same(t - c, d - u)
    BY <2>4, <2>5
  <2>7. 2 * (d - u) < TimeMod /\ 2 * (d - u) > - TimeMod
    BY <1>8, <2>2
  <2>8. TimeLessThan(t, c) <=> d - u < 0
    BY <2>1, <2>6, <2>7, LessThan
  <2> QED
    BY <2>1, <2>2, <2>8
<1>12. /\ \A k \in 1 .. n : k < p => due_in[list[k].h] <= d
       /\ p <= n => d < due_in[list[p].h]
  <2> DEFINE I == {i \in 1 .. n : TimeLessThan(t, list[i].time)}
  <2>1. p = LET q == IF I # {} THEN Min(I) ELSE 0
            IN  IF q = 0 THEN n + 1 ELSE q
    BY <1>2, <1>3 DEF InsertPosition, SelectInSeq
  <2>2. CASE I = {}
    <3>1. p = n + 1
      BY <2>1, <2>2
    <3>2. \A k \in 1 .. n : ~TimeLessThan(t, list[k].time)
      BY <2>2
    <3>3. \A k \in 1 .. n : due_in[list[k].h] \in Int
      BY <1>8, <1>9
    <3> QED
      BY <3>1, <3>2, <3>3, <1>11
  <2>3. CASE I # {}
    <3>1. I \in SUBSET Nat
      OBVIOUS
    <3>2. Min(I) \in I /\ \A k \in I : Min(I) <= k
      BY <2>3, <3>1, LeastFirst
    <3> HIDE DEF I
    <3>3. p = Min(I)
      <4>1. Min(I) \in 1 .. n
        BY <3>2 DEF I
      <4> QED
        BY <2>1, <2>3, <4>1
    <3>4. \A k \in 1 .. n : k < p => k \notin I
      BY <3>2, <3>3, <1>3
    <3>5. \A k \in 1 .. n : k < p => ~TimeLessThan(t, list[k].time)
      BY <3>4 DEF I
    <3>6. p \in 1 .. n /\ TimeLessThan(t, list[p].time)
      BY <3>2, <3>3 DEF I
    <3>7. \A k \in 1 .. n : due_in[list[k].h] \in Int
      BY <1>8, <1>9
    <3> QED
      BY <3>5, <3>6, <3>7, <1>11
  <2> QED
    BY <2>2, <2>3
<1>13. Timed(list', due_in', sys_now)
  <2> SUFFICES ASSUME NEW k \in 1 .. n + 1
               PROVE  Same(list'[k].time - sys_now, due_in'[list'[k].h])
    BY <1>7 DEF Timed
  <2>1. CASE k = p
    BY <2>1, <1>5, <1>7, <1>9
  <2>2. ASSUME NEW j \in 1 .. n, list'[k] = list[j]
        PROVE  Same(list'[k].time - sys_now, due_in'[list'[k].h])
    BY <2>2, <1>2, <1>8, <1>9 DEF Timed
  <2> QED
    BY <2>1, <2>2, <1>3, <1>7
<1>14. InOrder(list', due_in')
  <2> SUFFICES ASSUME NEW i \in 1 .. n + 1, NEW j \in 1 .. n + 1, i < j
               PROVE  due_in'[list'[i].h] <= due_in'[list'[j].h]
    BY <1>7 DEF InOrder
  <2>1. \A x, y \in 1 .. n : x <= y => due_in[list[x].h] <= due_in[list[y].h]
    <3>1. \A x \in 1 .. n : due_in[list[x].h] \in Int
      BY <1>8, <1>9
    <3>2. \A x, y \in 1 .. n : x < y => due_in[list[x].h] <= due_in[list[y].h]
      BY <1>2 DEF InOrder
    <3> QED
      BY <3>1, <3>2
  <2>2. \A x \in 1 .. n : due_in'[list[x].h] = due_in[list[x].h] /\ due_in[list[x].h] \in Int
    BY <1>8, <1>9
  <2>3. due_in'[e.h] = d
    BY <1>5, <1>9
  <2>4. CASE i < p /\ j < p
    BY <2>1, <2>2, <2>4, <1>7
  <2>5. CASE i < p /\ j = p
    BY <2>2, <2>3, <2>5, <1>7, <1>12
  <2>6. CASE i < p /\ j > p
    <3>1. i \in 1 .. n /\ j - 1 \in 1 .. n /\ i <= j - 1
      BY <2>6, <1>7
    <3> QED
      BY <3>1, <2>1, <2>2, <2>6, <1>7
  <2>7. CASE i = p /\ j > p
    <3>1. j - 1 \in 1 .. n /\ p <= j - 1 /\ p \in 1 .. n
      BY <2>7, <1>3, <1>7
    <3>2. due_in[list[p].h] <= due_in[list[j - 1].h] /\ d < due_in[list[p].h]
      BY <3>1, <2>1, <1>12
    <3>3. list'[i] = e /\ list'[j] = list[j - 1]
      BY <2>7, <1>7
    <3>4. due_in'[list[j - 1].h] = due_in[list[j - 1].h] /\ due_in[list[j - 1].h] \in Int
          /\ due_in[list[p].h] \in Int
      BY <3>1, <2>2
    <3> QED
      BY <3>2, <3>3, <3>4, <2>3
  <2>8. CASE i > p /\ j > p
    <3>1. i - 1 \in 1 .. n /\ j - 1 \in 1 .. n /\ i - 1 <= j - 1
      BY <2>8, <1>7
    <3> QED
      BY <3>1, <2>1, <2>2, <2>8, <1>7
  <2> QED
    BY <2>4, <2>5, <2>6, <2>7, <2>8, <1>3
<1> QED
  BY <1>13, <1>14

\* Initially nothing is scheduled.
LEMMA SInvInit == Init => SInv
<1> SUFFICES ASSUME Init PROVE SInv
  OBVIOUS
<1>1. /\ list = <<>> /\ running = 0 /\ pc = "init" /\ calls = [h \in Handlers |-> 0]
  BY DEF Init
<1>2. Listed = {} /\ ~Checking
  BY <1>1 DEF Listed, Checking
<1>3. Timed(list, due_in, sys_now) /\ InOrder(list, due_in)
  BY <1>1 DEF Timed, InOrder
<1> QED
  BY <1>1, <1>2, <1>3 DEF SInv, PendingInv, RunningInv, CallsInv, NoBurst

\* The clock and the place in the main loop stay, and so does what depends on
\* them.
LEMMA ClockStays ==
  ASSUME time' = time, lag' = lag
  PROVE  sys_now' = sys_now /\ Elapsed' = Elapsed
  BY DEF sys_now, Elapsed

\* Nothing the schedule depends on changes.
LEMMA SInvSame ==
  ASSUME SInv, list' = list, due_in' = due_in, time' = time, lag' = lag, now' = now,
         Checking' = Checking, running' = running, due_time' = due_time, calls' = calls
  PROVE  SInv'
<1>1. sys_now' = sys_now /\ Elapsed' = Elapsed /\ MaxElapsed' = MaxElapsed
  BY ClockStays DEF MaxElapsed
<1>2. Listed' = Listed /\ Late' = Late
  BY <1>1 DEF Listed, Late
<1>3. Timed(list', due_in', sys_now') /\ InOrder(list', due_in')
  BY <1>1 DEF SInv
<1>4. PendingInv'
  BY <1>1, <1>2 DEF SInv, PendingInv
<1>5. RunningInv'
  BY <1>1 DEF SInv, RunningInv
<1>6. CallsInv'
  BY <1>1, <1>2 DEF SInv, CallsInv
<1>7. NoBurst'
  BY DEF SInv, NoBurst
<1>8. Checking' => Same(now' - sys_now', 0 - Elapsed')
  BY <1>1 DEF SInv
<1> QED
  BY <1>3, <1>4, <1>5, <1>6, <1>7, <1>8 DEF SInv

\* A tick brings everything pending nearer by the same time.
LEMMA TickSchedule ==
  ASSUME IInv, SInv, Tick
  PROVE  SInv'
<1>1. TypeOK /\ TimersKept /\ PcInv
  BY DEF IInv
<1>2. /\ list' = list /\ pc' = pc /\ now' = now /\ running' = running /\ due_time' = due_time
      /\ calls' = calls /\ time' = (time + 1) % TimeMod /\ lag' = lag + 1
  BY DEF Tick
<1>3. PICK s \in Int, z \in Int, w \in Nat :
        s = sys_now /\ z = sys_now' /\ w = MsPerTick /\ Same(z, s + w)
  BY <1>1, <1>2, ClockTicks, Constants
<1>4. PICK x \in Nat : x = Elapsed /\ Elapsed' = x + w
  <2>1. lag \in Nat /\ MsPerTick \in Nat
    BY <1>1, Constants DEF TypeOK
  <2>2. (lag + 1) * MsPerTick = lag * MsPerTick + MsPerTick /\ lag * MsPerTick \in Nat
    BY <2>1
  <2> QED
    BY <1>2, <1>3, <2>2 DEF Elapsed
<1>5. /\ Listed' = Listed /\ Listed \subseteq Handlers /\ Checking' = Checking
      /\ MaxElapsed' = MaxElapsed /\ Late' = Late
  BY <1>1, <1>2, ListedHandlers DEF Listed, Checking, MaxElapsed, Late
<1>6. \A h \in Handlers : h = running \/ h \in Listed => due_in'[h] = due_in[h] - w
  BY <1>3 DEF Tick
<1>7. due_in \in [Handlers -> Int] /\ running \in {0} \cup Handlers
  BY <1>1 DEF TypeOK
<1>8. ASSUME NEW a \in Int, NEW b \in Int, Same(a - s, b)
      PROVE  Same(a - z, b - w)
  <2>1. Same(a - s - w, b - w)
    BY <1>8, SameAdd, SameSelf
  <2>2. Same(a, a)
    BY SameSelf
  <2>3. Same(a - z, a - (s + w))
    BY <2>2, <1>3, SameAdd
  <2>4. a - (s + w) = a - s - w
    OBVIOUS
  <2> QED
    BY <2>1, <2>3, <2>4, SameTrans
<1>9. Timed(list', due_in', sys_now')
  <2> SUFFICES ASSUME NEW i \in DOMAIN list
               PROVE  Same(list[i].time - z, due_in'[list[i].h])
    BY <1>2, <1>3 DEF Timed
  <2>1. list[i] \in Entries /\ list[i].h \in Listed
    BY <1>1 DEF TypeOK, Listed
  <2>2. list[i].time \in Int /\ list[i].h \in Handlers
    BY <2>1, Constants DEF Entries, Times
  <2>3. Same(list[i].time - s, due_in[list[i].h])
    BY <1>3 DEF SInv, Timed
  <2>4. due_in[list[i].h] \in Int
    BY <2>2, <1>7
  <2>5. Same(list[i].time - z, due_in[list[i].h] - w)
    BY <2>2, <2>3, <2>4, <1>8
  <2> QED
    BY <2>1, <2>2, <2>5, <1>6
<1>10. InOrder(list', due_in')
  <2> SUFFICES ASSUME NEW i \in DOMAIN list, NEW j \in DOMAIN list, i < j
               PROVE  due_in'[list[i].h] <= due_in'[list[j].h]
    BY <1>2 DEF InOrder
  <2>1. list[i].h \in Listed /\ list[j].h \in Listed
    BY DEF Listed
  <2>2. due_in[list[i].h] <= due_in[list[j].h]
    BY DEF SInv, InOrder
  <2>3. due_in[list[i].h] \in Int /\ due_in[list[j].h] \in Int
    BY <2>1, <1>5, <1>7
  <2> QED
    BY <2>1, <2>2, <2>3, <1>5, <1>6
<1>11. Checking' => Same(now' - sys_now', 0 - Elapsed')
  <2> SUFFICES ASSUME Checking PROVE Same(now - z, 0 - Elapsed')
    BY <1>2, <1>3, <1>5
  <2>1. Same(now - s, 0 - x) /\ now \in Int
    BY <1>1, <1>3, <1>4, Constants DEF SInv, TypeOK, Times
  <2>2. Same(now - z, (0 - x) - w)
    BY <2>1, <1>8
  <2>3. (0 - x) - w = 0 - (x + w)
    OBVIOUS
  <2> QED
    BY <2>2, <2>3, <1>4
<1>12. Late \in Nat /\ MaxElapsed \in Nat
  BY <1>1, Bounds DEF Late
<1>13. PendingInv'
  <2> SUFFICES ASSUME NEW h \in Listed
               PROVE  due_in'[h] <= Interval[h] /\ due_in'[h] > - (Elapsed' + Late)
    BY <1>5 DEF PendingInv
  <2>1. due_in[h] <= Interval[h] /\ due_in[h] > - (x + Late)
    BY <1>4 DEF SInv, PendingInv
  <2>2. h \in Handlers /\ due_in[h] \in Int /\ due_in'[h] = due_in[h] - w /\ Interval[h] \in Nat
    BY <1>5, <1>6, <1>7, Constants
  <2> QED
    BY <2>1, <2>2, <1>4, <1>12
<1>14. RunningInv'
  <2> SUFFICES ASSUME running # 0
               PROVE  /\ Same(due_time - z, due_in'[running])
                      /\ due_in'[running] > - (Elapsed' + MaxElapsed)
                      /\ due_in'[running] <= - Elapsed'
                      /\ calls[running] \in 1 .. 2
                      /\ calls[running] = 2 => due_in'[running] >= - Elapsed'
    BY <1>2, <1>3, <1>5 DEF RunningInv
  <2>1. /\ Same(due_time - s, due_in[running])
        /\ due_in[running] > - (x + MaxElapsed)
        /\ due_in[running] <= - x
        /\ calls[running] \in 1 .. 2
        /\ calls[running] = 2 => due_in[running] >= - x
    BY <1>3, <1>4 DEF SInv, RunningInv
  <2>2. running \in Handlers /\ due_in[running] \in Int /\ due_in'[running] = due_in[running] - w
    BY <1>6, <1>7
  <2>3. due_time \in Int
    BY <1>1, Constants DEF TypeOK, Times
  <2>4. Same(due_time - z, due_in[running] - w)
    BY <2>1, <2>2, <2>3, <1>8
  <2> QED
    BY <2>1, <2>2, <2>4, <1>4, <1>12
<1>15. CallsInv'
  <2> SUFFICES ASSUME Checking, NEW h \in Listed
               PROVE  /\ calls[h] = 1 => due_in'[h] >= - Elapsed'
                      /\ calls[h] >= 2 => due_in'[h] > - Elapsed'
    BY <1>2, <1>5 DEF CallsInv
  <2>1. /\ calls[h] = 1 => due_in[h] >= - x
        /\ calls[h] >= 2 => due_in[h] > - x
    BY <1>4 DEF SInv, CallsInv
  <2>2. h \in Handlers /\ due_in[h] \in Int /\ due_in'[h] = due_in[h] - w
    BY <1>5, <1>6, <1>7
  <2> QED
    BY <2>1, <2>2, <1>4
<1>16. NoBurst'
  BY <1>2 DEF SInv, NoBurst
<1> QED
  BY <1>9, <1>10, <1>11, <1>13, <1>14, <1>15, <1>16 DEF SInv

\* What the handlers' due times may be, whatever the main loop is doing.
LEMMA PendingBounds ==
  ASSUME TypeOK, PendingInv, NEW g \in Listed
  PROVE  /\ due_in[g] \in Int /\ g \in Handlers
         /\ due_in[g] <= Interval[g] /\ due_in[g] > - 2 * MaxElapsed - 1
         /\ Interval[g] \in Nat /\ 2 * (Interval[g] + 2 * MaxElapsed) < TimeMod
<1>1. g \in Handlers /\ due_in[g] \in Int
  BY ListedHandlers DEF TypeOK
<1>2. PICK x \in Nat, m \in Nat : x = Elapsed /\ m = MaxElapsed /\ x <= m
  BY Bounds
<1>3. Late \in {0, m}
  BY <1>2 DEF Late
<1>4. due_in[g] <= Interval[g] /\ due_in[g] > - (x + Late)
  BY <1>2 DEF PendingInv
<1> QED
  BY <1>1, <1>2, <1>3, <1>4, Bounds

\* A timeout for h that is due in d ms is added, d being neither further ahead
\* than h's interval nor longer overdue than two passes.
LEMMA AddedOnTime ==
  ASSUME IInv, SInv, NEW h \in Handlers, h \notin Listed,
         NEW t \in Times, SysTimeoutAbs(t, h),
         NEW d \in Int, Same(t - sys_now, d), d <= Interval[h], d > - 2 * MaxElapsed - 1,
         due_in' = [due_in EXCEPT ![h] = d]
  PROVE  /\ Timed(list', due_in', sys_now)
         /\ InOrder(list', due_in')
         /\ Listed' = Listed \cup {h} /\ Listed \subseteq Handlers
         /\ due_in'[h] = d
         /\ \A g \in Listed : due_in'[g] = due_in[g]
<1>1. TypeOK /\ TimersKept /\ PendingInv /\ Once(list) /\ Timed(list, due_in, sys_now)
      /\ InOrder(list, due_in)
  BY KeptIs DEF IInv, SInv
<1>2. MaxElapsed \in Nat /\ Interval[h] \in Nat /\ 2 * (Interval[h] + 2 * MaxElapsed) < TimeMod
  BY <1>1, Bounds
<1>3. TimeMod \in Nat
  BY Constants
<1>4. ASSUME NEW g \in Listed
      PROVE  2 * (d - due_in[g]) < TimeMod /\ 2 * (d - due_in[g]) > - TimeMod
  <2>1. /\ due_in[g] \in Int /\ Interval[g] \in Nat
        /\ due_in[g] <= Interval[g] /\ due_in[g] > - 2 * MaxElapsed - 1
        /\ 2 * (Interval[g] + 2 * MaxElapsed) < TimeMod
    BY <1>1, PendingBounds
  <2> QED
    BY <2>1, <1>2, <1>3
<1>5. Timed(list', due_in', sys_now) /\ InOrder(list', due_in')
  BY <1>1, <1>4, InsertOrdered
<1>6. Listed' = Listed \cup {h}
  BY <1>1, AddTypes
<1>7. Listed \subseteq Handlers
  BY <1>1, ListedHandlers
<1>8. due_in'[h] = d /\ \A g \in Listed : due_in'[g] = due_in[g]
  BY <1>1, <1>7 DEF TypeOK
<1> QED
  BY <1>5, <1>6, <1>7, <1>8

\* The same for a timeout that starts now.
LEMMA SysTimeoutOnTime ==
  ASSUME IInv, SInv, NEW h \in Handlers, h \notin Listed, SysTimeout(h)
  PROVE  /\ Timed(list', due_in', sys_now)
         /\ InOrder(list', due_in')
         /\ Listed' = Listed \cup {h} /\ Listed \subseteq Handlers
         /\ due_in'[h] = Interval[h]
         /\ \A g \in Listed : due_in'[g] = due_in[g]
<1>1. TypeOK
  BY DEF IInv
<1>2. PICK t \in Times : t = (sys_now + Interval[h]) % TimeMod
  BY <1>1, NowTypes
<1>3. PICK v \in Nat : v = Interval[h] /\ v > 0
  BY <1>1, Bounds
<1>4. MaxElapsed \in Nat
  BY <1>1, Bounds
<1>5. sys_now \in Int /\ t \in Int
  BY <1>1, NowTypes, Constants DEF Times
<1>6. Same(t - sys_now, v)
  <2>1. Same(t, sys_now + v) /\ Same(sys_now, sys_now)
    BY <1>2, <1>3, <1>5, SameMod, SameSelf
  <2>2. Same(t - sys_now, (sys_now + v) - sys_now)
    BY <2>1, <1>5, SameAdd
  <2>3. (sys_now + v) - sys_now = v
    BY <1>5
  <2> QED
    BY <2>2, <2>3
<1>7. SysTimeoutAbs(t, h) /\ due_in' = [due_in EXCEPT ![h] = v]
  BY <1>2, <1>3 DEF SysTimeout
<1>8. v <= Interval[h] /\ v > - 2 * MaxElapsed - 1
  BY <1>3, <1>4
<1>9. /\ Timed(list', due_in', sys_now)
      /\ InOrder(list', due_in')
      /\ Listed' = Listed \cup {h} /\ Listed \subseteq Handlers
      /\ due_in'[h] = v
      /\ \A g \in Listed : due_in'[g] = due_in[g]
  <2>1. v \in Int
    OBVIOUS
  <2> QED
    BY <2>1, <1>6, <1>7, <1>8, AddedOnTime, Zenon
<1> QED
  BY <1>3, <1>9

\* A timeout for h starts while no handler runs.
LEMMA StartSchedule ==
  ASSUME IInv, SInv, NEW h \in Handlers, h \notin Listed, SysTimeout(h), ~Checking, running = 0,
         time' = time, lag' = lag, pc' = pc, running' = running, calls' = calls
  PROVE  SInv'
<1>1. /\ Timed(list', due_in', sys_now) /\ InOrder(list', due_in')
      /\ Listed' = Listed \cup {h} /\ Listed \subseteq Handlers
      /\ due_in'[h] = Interval[h]
      /\ \A g \in Listed : due_in'[g] = due_in[g]
  BY SysTimeoutOnTime
<1>2. sys_now' = sys_now /\ Elapsed' = Elapsed /\ ~Checking' /\ Late' = Late
  BY ClockStays DEF Checking, Late
<1>3. TypeOK /\ Elapsed \in Nat /\ Late = 0 /\ Interval[h] \in Nat /\ Interval[h] > 0
  BY Bounds DEF IInv, Late
<1>4. PendingInv'
  <2> SUFFICES ASSUME NEW g \in Listed \cup {h}
               PROVE  due_in'[g] <= Interval[g] /\ due_in'[g] > - (Elapsed + Late)
    BY <1>1, <1>2 DEF PendingInv
  <2>1. CASE g = h
    BY <2>1, <1>1, <1>3
  <2>2. CASE g \in Listed
    BY <2>2, <1>1 DEF SInv, PendingInv
  <2> QED
    BY <2>1, <2>2
<1>5. RunningInv' /\ CallsInv' /\ NoBurst'
  BY <1>2 DEF SInv, RunningInv, CallsInv, NoBurst
<1> QED
  BY <1>1, <1>2, <1>4, <1>5 DEF SInv

\* sys_timeouts_init starts its cyclic timers.
LEMMA InitSchedule ==
  ASSUME IInv, SInv, SysTimeoutsInit
  PROVE  SInv'
<1>1. TypeOK /\ TimersKept /\ PcInv
  BY DEF IInv
<1>2. /\ pc = "init" /\ next <= Len(Interval) /\ SysTimeout(next)
      /\ time' = time /\ lag' = lag /\ pc' = pc /\ running' = running /\ calls' = calls
  BY DEF SysTimeoutsInit, clock
<1>3. next \in Handlers /\ next \in Nat /\ next >= 2 /\ running = 0 /\ ~Checking
  BY <1>1, <1>2, Constants DEF TypeOK, Handlers, PcInv, Checking
<1>4. next \notin Listed
  <2>1. 2 .. next - 1 = (Listed \union {running}) \ {0, TCP}
    BY <1>1, KeptIs DEF Keeps
  <2>2. next \notin 2 .. next - 1 /\ next # 0 /\ next # TCP
    BY <1>3 DEF TCP
  <2> QED
    BY <2>1, <2>2
<1> QED
  BY <1>2, <1>3, <1>4, StartSchedule

\* tcp_timer_needed starts the TCP timer.
LEMMA RegSchedule ==
  ASSUME IInv, SInv, TcpReg
  PROVE  SInv'
<1>1. TypeOK /\ TimersKept /\ PcInv
  BY DEF IInv
<1>2. /\ pc = "main" /\ time' = time /\ lag' = lag /\ pc' = pc /\ running' = running /\ now' = now
      /\ due_time' = due_time /\ calls' = calls
  BY DEF TcpReg, clock
<1>3. running = 0 /\ ~Checking /\ Checking' = Checking
  BY <1>1, <1>2 DEF PcInv, Checking
<1>4. CASE ~active /\ pcbs'
  <2>1. SysTimeout(TCP)
    BY <1>4 DEF TcpReg, TcpTimerNeeded
  <2>2. TCP \in Handlers
    BY Constants DEF TCP, Handlers
  <2>3. TCP \notin Listed
    BY <1>1, <1>4, KeptIs DEF Keeps
  <2> QED
    BY <2>1, <2>2, <2>3, <1>2, <1>3, StartSchedule
<1>5. CASE ~(~active /\ pcbs')
  <2>1. list' = list /\ due_in' = due_in
    BY <1>5 DEF TcpReg, TcpTimerNeeded
  <2> QED
    BY <2>1, <1>2, <1>3, SInvSame
<1> QED
  BY <1>4, <1>5

\* sys_check_timeouts reads the clock.
LEMMA CheckSchedule ==
  ASSUME IInv, SInv, CheckTimeouts
  PROVE  SInv'
<1>1. TypeOK /\ TimersKept /\ PcInv
  BY DEF IInv
<1>2. /\ pc = "main" /\ pc' = "check" /\ now' = sys_now /\ lag' = 0
      /\ calls' = [h \in Handlers |-> 0]
      /\ time' = time /\ list' = list /\ running' = running /\ due_in' = due_in
  BY DEF CheckTimeouts
<1>3. sys_now' = sys_now /\ Listed' = Listed /\ Listed \subseteq Handlers
  BY <1>1, <1>2, ListedHandlers DEF sys_now, Listed
<1>4. Elapsed' = 0 /\ MaxElapsed' = MaxElapsed /\ Late' = MaxElapsed /\ Late = 0
  BY <1>2, Constants DEF Elapsed, MaxElapsed, Late, Checking
<1>5. Elapsed \in Nat /\ MaxElapsed \in Nat /\ Elapsed <= MaxElapsed
  BY <1>1, Bounds
<1>6. PendingInv'
  <2> SUFFICES ASSUME NEW h \in Listed
               PROVE  due_in[h] <= Interval[h] /\ due_in[h] > - (0 + MaxElapsed)
    BY <1>2, <1>3, <1>4 DEF PendingInv
  <2>1. due_in[h] <= Interval[h] /\ due_in[h] > - (Elapsed + 0)
    BY <1>4 DEF SInv, PendingInv
  <2>2. due_in[h] \in Int
    BY <1>1, <1>3 DEF TypeOK
  <2> QED
    BY <2>1, <2>2, <1>5
<1>7. RunningInv'
  BY <1>1, <1>2 DEF RunningInv, PcInv
<1>8. CallsInv' /\ NoBurst'
  BY <1>2, <1>3 DEF CallsInv, NoBurst
<1>9. Same(now' - sys_now', 0 - Elapsed')
  <2>1. sys_now \in Int
    BY <1>1, NowTypes, Constants DEF Times
  <2>2. sys_now - sys_now = 0
    BY <2>1
  <2>3. 0 - Elapsed' = 0
    BY <1>4
  <2>4. Same(0, 0)
    BY SameSelf
  <2> QED
    BY <2>2, <2>3, <2>4, <1>2, <1>3
<1> QED
  BY <1>2, <1>3, <1>6, <1>7, <1>8, <1>9 DEF SInv

\* The test of sys_check_timeouts sees whether the first handler was really due
\* when the clock was read.
LEMMA ExpiredIs ==
  ASSUME IInv, SInv, Checking, list # <<>>
  PROVE  /\ Head(list) = list[1] /\ 1 \in DOMAIN list /\ list[1].h \in Listed
         /\ TimeLessThan(now, Head(list).time) <=> due_in[list[1].h] > - Elapsed
<1>1. TypeOK /\ PendingInv
  BY DEF IInv, SInv
<1>2. list \in Seq(Entries)
  BY <1>1 DEF TypeOK
<1>3. Head(list) = list[1] /\ 1 \in DOMAIN list
  BY <1>2, EmptySeq
<1>4. list[1] \in Entries /\ list[1].h \in Listed
  BY <1>2, <1>3 DEF Listed
<1>5. PICK c \in Times, u \in Int : c = list[1].time /\ u = due_in[list[1].h]
  BY <1>1, <1>4 DEF Entries, TypeOK
<1>6. c \in Int /\ now \in Int /\ now \in Times /\ sys_now \in Int
  BY <1>1, NowTypes, Constants DEF TypeOK, Times
<1>7. Same(c - sys_now, u)
  BY <1>3, <1>5 DEF SInv, Timed
<1>8. PICK x \in Nat, m \in Nat : x = Elapsed /\ m = MaxElapsed /\ x <= m
  BY <1>1, Bounds
<1>9. Same(now - sys_now, 0 - x)
  BY <1>8 DEF SInv
<1>10. Same(now - c, 0 - x - u)
  <2>1. Same((now - sys_now) - (c - sys_now), 0 - x - u)
    <3>1. now - sys_now \in Int /\ c - sys_now \in Int /\ 0 - x \in Int
      BY <1>6
    <3> QED
      BY <3>1, <1>7, <1>9, SameAdd
  <2>2. (now - sys_now) - (c - sys_now) = now - c
    BY <1>6
  <2> QED
    BY <2>1, <2>2
<1>11. 2 * (0 - x - u) < TimeMod /\ 2 * (0 - x - u) > - TimeMod
  <2>1. PICK v \in Nat : v = Interval[list[1].h] /\ u <= v /\ u > - 2 * m - 1 /\ 2 * (v + 2 * m) < TimeMod
    BY <1>1, <1>4, <1>5, <1>8, PendingBounds
  <2> QED
    BY <2>1, <1>8, Constants
<1>12. TimeLessThan(now, c) <=> 0 - x - u < 0
  <2>1. 0 - x - u \in Int
    OBVIOUS
  <2> QED
    BY <2>1, <1>5, <1>6, <1>10, <1>11, LessThan, Zenon
<1> QED
  BY <1>3, <1>4, <1>5, <1>8, <1>12

\* When sys_check_timeouts returns, nothing is left that was due when it read
\* the clock.
LEMMA ReturnSchedule ==
  ASSUME IInv, SInv, CheckReturn
  PROVE  SInv'
<1>1. TypeOK /\ TimersKept /\ PcInv
  BY DEF IInv
<1>2. /\ pc = "check" /\ ~Expired /\ pc' = "main"
      /\ time' = time /\ lag' = lag /\ list' = list /\ now' = now /\ running' = running
      /\ due_time' = due_time /\ due_in' = due_in /\ calls' = calls
  BY DEF CheckReturn, clock
<1>3. sys_now' = sys_now /\ Elapsed' = Elapsed /\ Listed' = Listed /\ Listed \subseteq Handlers
  BY <1>1, <1>2, ClockStays, ListedHandlers DEF Listed
<1>4. Checking /\ ~Checking' /\ Late' = 0 /\ running = 0
  BY <1>1, <1>2 DEF Checking, Late, PcInv
<1>5. ASSUME NEW g \in Listed PROVE due_in[g] > - Elapsed
  <2>1. PICK i \in DOMAIN list : g = list[i].h
    BY DEF Listed
  <2>2. list # <<>>
    BY <2>1
  <2>3. 1 \in DOMAIN list /\ list[1].h \in Listed /\ due_in[list[1].h] > - Elapsed
    BY <2>2, <1>2, <1>4, ExpiredIs DEF Expired
  <2>4. i \in Nat /\ i >= 1
    BY <2>1, <1>1 DEF TypeOK
  <2>5. due_in[list[1].h] \in Int /\ due_in[g] \in Int
    BY <2>3, <1>1, <1>3 DEF TypeOK
  <2>6. CASE i = 1
    BY <2>1, <2>3, <2>6
  <2>7. CASE i > 1
    <3>1. due_in[list[1].h] <= due_in[list[i].h]
      BY <2>1, <2>3, <2>4, <2>7 DEF SInv, InOrder
    <3>2. Elapsed \in Nat
      BY <1>1, Bounds
    <3> QED
      BY <3>1, <3>2, <2>1, <2>3, <2>5
  <2> QED
    BY <2>4, <2>6, <2>7
<1>6. PendingInv'
  <2> SUFFICES ASSUME NEW g \in Listed
               PROVE  due_in[g] <= Interval[g] /\ due_in[g] > - (Elapsed + 0)
    BY <1>2, <1>3, <1>4 DEF PendingInv
  <2>1. due_in[g] <= Interval[g]
    BY DEF SInv, PendingInv
  <2>2. Elapsed + 0 = Elapsed
    BY <1>1, Bounds
  <2> QED
    BY <2>1, <2>2, <1>5
<1>7. RunningInv' /\ CallsInv' /\ NoBurst'
  BY <1>2, <1>4 DEF SInv, RunningInv, CallsInv, NoBurst
<1> QED
  BY <1>2, <1>3, <1>4, <1>6, <1>7 DEF SInv

\* The first timeout of the list leaves it and its handler is called.
LEMMA ExpireSchedule ==
  ASSUME IInv, SInv, Expire
  PROVE  SInv'
<1>1. TypeOK /\ TimersKept /\ PcInv
  BY DEF IInv
<1>2. /\ pc = "check" /\ Expired /\ list' = Tail(list) /\ running' = Head(list).h
      /\ due_time' = Head(list).time
      /\ calls' = [calls EXCEPT ![Head(list).h] = @ + 1]
      /\ pc' = "handler" /\ time' = time /\ lag' = lag /\ now' = now /\ due_in' = due_in
  BY DEF Expire, clock
<1>3. Checking /\ Checking' /\ list # <<>>
  BY <1>2 DEF Checking, Expired
<1>4. /\ Head(list) = list[1] /\ 1 \in DOMAIN list /\ list[1].h \in Listed
      /\ ~(due_in[list[1].h] > - Elapsed)
  BY <1>2, <1>3, ExpiredIs DEF Expired
<1>5. PICK r \in Handlers : r = list[1].h
  BY <1>1, <1>4, ListedHandlers
<1>6. sys_now' = sys_now /\ Elapsed' = Elapsed /\ Late' = Late /\ MaxElapsed' = MaxElapsed
      /\ Late = MaxElapsed
  BY <1>2, <1>3, ClockStays DEF Late, MaxElapsed
<1>7. PICK n \in Nat : /\ n = Len(list) /\ n > 0 /\ DOMAIN list = 1 .. n
                       /\ DOMAIN Tail(list) = 1 .. n - 1
                       /\ \A i \in 1 .. n - 1 : i + 1 \in 1 .. n /\ Tail(list)[i] = list[i + 1]
  <2>1. list \in Seq(Entries)
    BY <1>1 DEF TypeOK
  <2>2. Len(list) \in Nat /\ Len(list) > 0 /\ DOMAIN list = 1 .. Len(list)
    BY <2>1, <1>3, EmptySeq
  <2>3. /\ Tail(list) \in Seq(Entries) /\ Len(Tail(list)) = Len(list) - 1
        /\ \A i \in 1 .. Len(Tail(list)) : Tail(list)[i] = list[i + 1]
    BY <2>1, <1>3, HeadTailProperties
  <2>4. DOMAIN Tail(list) = 1 .. Len(list) - 1
    BY <2>3
  <2>5. PICK n \in Nat : n = Len(list)
    BY <2>2
  <2>6. n > 0 /\ DOMAIN list = 1 .. n /\ DOMAIN Tail(list) = 1 .. n - 1
    BY <2>2, <2>4, <2>5
  <2>7. \A i \in 1 .. n - 1 : i + 1 \in 1 .. n /\ Tail(list)[i] = list[i + 1]
    BY <2>3, <2>5, <2>6
  <2> QED
    BY <2>5, <2>6, <2>7, Zenon
<1>8. Listed' \subseteq Listed /\ r \notin Listed'
  <2>1. ASSUME NEW i \in 1 .. n - 1
        PROVE  Tail(list)[i].h \in Listed /\ Tail(list)[i].h # r
    <3>1. i + 1 \in DOMAIN list /\ Tail(list)[i].h = list[i + 1].h /\ i + 1 # 1
      BY <1>7
    <3>2. Once(list)
      BY <1>1, KeptIs
    <3> QED
      BY <3>1, <3>2, <1>4, <1>5 DEF Once, Listed
  <2> QED
    BY <2>1, <1>2, <1>7 DEF Listed
<1>9. Timed(list', due_in', sys_now')
  <2> SUFFICES ASSUME NEW i \in 1 .. n - 1
               PROVE  Same(Tail(list)[i].time - sys_now, due_in[Tail(list)[i].h])
    BY <1>2, <1>6, <1>7 DEF Timed
  <2> QED
    BY <1>7 DEF SInv, Timed
<1>10. InOrder(list', due_in')
  <2> SUFFICES ASSUME NEW i \in 1 .. n - 1, NEW j \in 1 .. n - 1, i < j
               PROVE  due_in[Tail(list)[i].h] <= due_in[Tail(list)[j].h]
    BY <1>2, <1>7 DEF InOrder
  <2>1. i + 1 < j + 1 /\ i + 1 \in DOMAIN list /\ j + 1 \in DOMAIN list
    BY <1>7
  <2>2. due_in[list[i + 1].h] <= due_in[list[j + 1].h]
    BY <2>1 DEF SInv, InOrder
  <2> QED
    BY <2>2, <1>7
<1>11. PendingInv'
  BY <1>2, <1>6, <1>8 DEF SInv, PendingInv
<1>12. due_in[r] \in Int /\ calls[r] \in Nat /\ calls'[r] = calls[r] + 1
       /\ \A g \in Handlers : g # r => calls'[g] = calls[g]
  BY <1>1, <1>2, <1>4, <1>5 DEF TypeOK
<1>13. calls[r] <= 1 /\ (calls[r] = 1 => due_in[r] >= - Elapsed)
  <2>1. /\ calls[r] = 1 => due_in[r] >= - Elapsed
        /\ calls[r] >= 2 => due_in[r] > - Elapsed
    BY <1>3, <1>4, <1>5 DEF SInv, CallsInv
  <2> QED
    BY <2>1, <1>4, <1>5, <1>12
<1>14. RunningInv'
  <2>1. Same(list[1].time - sys_now, due_in[r])
    BY <1>4, <1>5 DEF SInv, Timed
  <2>2. due_in[r] > - (Elapsed + MaxElapsed)
    BY <1>4, <1>5, <1>6 DEF SInv, PendingInv
  <2>3. due_in[r] <= - Elapsed /\ Elapsed \in Nat
    BY <1>1, <1>4, <1>5, <1>12, Bounds
  <2>4. running' = r /\ due_time' = list[1].time
    BY <1>2, <1>4, <1>5
  <2>5. calls'[r] \in 1 .. 2 /\ (calls'[r] = 2 => due_in[r] >= - Elapsed)
    BY <1>12, <1>13
  <2> QED
    BY <2>1, <2>2, <2>3, <2>4, <2>5, <1>2, <1>6 DEF RunningInv
<1>15. CallsInv'
  <2> SUFFICES ASSUME NEW g \in Listed'
               PROVE  /\ calls'[g] = 1 => due_in[g] >= - Elapsed
                      /\ calls'[g] >= 2 => due_in[g] > - Elapsed
    BY <1>2, <1>6 DEF CallsInv
  <2>1. g \in Listed /\ g # r /\ g \in Handlers
    BY <1>1, <1>8, ListedHandlers
  <2> QED
    BY <2>1, <1>3, <1>12 DEF SInv, CallsInv
<1>16. NoBurst'
  <2> SUFFICES ASSUME NEW g \in Handlers PROVE calls'[g] <= 2
    BY DEF NoBurst
  <2>1. CASE g = r
    BY <2>1, <1>12, <1>13
  <2>2. CASE g # r
    BY <2>2, <1>12 DEF SInv, NoBurst
  <2> QED
    BY <2>1, <2>2
<1>17. Same(now' - sys_now', 0 - Elapsed')
  BY <1>2, <1>3, <1>6 DEF SInv
<1> QED
  BY <1>9, <1>10, <1>11, <1>14, <1>15, <1>16, <1>17 DEF SInv

\* The handler that ran is put back, due in d ms, later than the time that
\* sys_check_timeouts works with unless it was called only once.
LEMMA PutBackOnTime ==
  ASSUME IInv, SInv, pc = "handler", running \in Handlers,
         NEW d \in Int, d <= Interval[running], d > - (Elapsed + MaxElapsed), d >= - Elapsed,
         calls[running] = 2 => d > - Elapsed,
         Timed(list', due_in', sys_now), InOrder(list', due_in'),
         Listed' = Listed \cup {running}, due_in'[running] = d,
         \A g \in Listed : due_in'[g] = due_in[g],
         pc' = "check", running' = 0, time' = time, lag' = lag, now' = now, calls' = calls
  PROVE  SInv'
<1>1. sys_now' = sys_now /\ Elapsed' = Elapsed /\ Late' = Late /\ Late = MaxElapsed
      /\ Checking /\ Checking'
  BY ClockStays DEF Late, MaxElapsed, Checking
<1>2. PendingInv'
  <2> SUFFICES ASSUME NEW g \in Listed \cup {running}
               PROVE  due_in'[g] <= Interval[g] /\ due_in'[g] > - (Elapsed + MaxElapsed)
    BY <1>1 DEF PendingInv
  <2>1. CASE g = running
    BY <2>1
  <2>2. CASE g \in Listed
    BY <2>2, <1>1 DEF SInv, PendingInv
  <2> QED
    BY <2>1, <2>2
<1>3. CallsInv'
  <2> SUFFICES ASSUME NEW g \in Listed \cup {running}
               PROVE  /\ calls[g] = 1 => due_in'[g] >= - Elapsed
                      /\ calls[g] >= 2 => due_in'[g] > - Elapsed
    BY <1>1 DEF CallsInv
  <2>1. CASE g = running
    <3>1. calls[running] \in 1 .. 2
      BY DEF SInv, RunningInv, Handlers
    <3> QED
      BY <2>1, <3>1
  <2>2. CASE g \in Listed
    BY <2>2, <1>1 DEF SInv, CallsInv
  <2> QED
    BY <2>1, <2>2
<1>4. RunningInv' /\ NoBurst'
  BY DEF RunningInv, SInv, NoBurst
<1>5. Same(now' - sys_now', 0 - Elapsed')
  BY <1>1 DEF SInv
<1>6. Timed(list', due_in', sys_now') /\ InOrder(list', due_in')
  BY <1>1
<1> QED
  BY <1>2, <1>3, <1>4, <1>5, <1>6, Zenon DEF SInv

\* tcpip_tcp_timer puts itself back or stops.
LEMMA TcpTimerSchedule ==
  ASSUME IInv, SInv, TcpTimer
  PROVE  SInv'
<1>1. TypeOK /\ TimersKept /\ PcInv
  BY DEF IInv
<1>2. /\ pc = "handler" /\ running = TCP /\ pc' = "check" /\ running' = 0
      /\ time' = time /\ lag' = lag /\ now' = now /\ calls' = calls
  BY DEF TcpTimer, clock
<1>3. running \in Handlers /\ running # 0
  BY <1>2, Constants DEF TCP, Handlers
<1>4. CASE pcbs'
  <2>1. SysTimeout(running)
    BY <1>2, <1>4 DEF TcpTimer
  <2>2. running \notin Listed
    BY <1>1, KeptIs DEF Keeps
  <2>3. /\ Timed(list', due_in', sys_now)
        /\ InOrder(list', due_in')
        /\ Listed' = Listed \cup {running}
        /\ due_in'[running] = Interval[running]
        /\ \A g \in Listed : due_in'[g] = due_in[g]
    BY <2>1, <2>2, <1>3, SysTimeoutOnTime
  <2>4. Interval[running] \in Nat /\ Interval[running] > 0 /\ Elapsed \in Nat /\ MaxElapsed \in Nat
    BY <1>1, <1>3, Bounds
  <2>5. PICK d \in Int : d = Interval[running] /\ d > 0
    BY <2>4
  <2>6. d <= Interval[running] /\ d > - (Elapsed + MaxElapsed) /\ d >= - Elapsed /\ d > - Elapsed
    BY <2>4, <2>5
  <2> QED
    BY <2>3, <2>5, <2>6, <1>2, <1>3, PutBackOnTime
<1>5. CASE ~pcbs'
  <2>1. list' = list /\ due_in' = due_in
    BY <1>5 DEF TcpTimer
  <2>2. sys_now' = sys_now /\ Elapsed' = Elapsed /\ Late' = Late /\ Listed' = Listed
        /\ Checking /\ Checking'
    BY <2>1, <1>2, ClockStays DEF Late, MaxElapsed, Checking, Listed
  <2>3. PendingInv' /\ CallsInv' /\ RunningInv' /\ NoBurst'
    BY <2>1, <2>2, <1>2 DEF SInv, PendingInv, CallsInv, RunningInv, NoBurst
  <2>4. Same(now' - sys_now', 0 - Elapsed')
    BY <2>2, <1>2 DEF SInv
  <2>5. Timed(list', due_in', sys_now') /\ InOrder(list', due_in')
    BY <2>1, <2>2 DEF SInv
  <2> QED
    BY <2>3, <2>4, <2>5, Zenon DEF SInv
<1> QED
  BY <1>4, <1>5

\* lwip_cyclic_timer takes the next regular time unless that has passed, and
\* sees rightly whether it has.
LEMMA CyclicSchedule ==
  ASSUME IInv, SInv, CyclicTimer
  PROVE  SInv'
<1>1. TypeOK /\ TimersKept /\ PcInv
  BY DEF IInv
<1>2. /\ pc = "handler" /\ pc' = "check" /\ running' = 0
      /\ time' = time /\ lag' = lag /\ now' = now /\ calls' = calls
  BY DEF CyclicTimer, clock
<1>3. running \in Handlers /\ running # 0
  BY <1>1, <1>2 DEF TypeOK, PcInv
<1>4. running \notin Listed
  BY <1>1, KeptIs DEF Keeps
<1>5. PICK v \in Nat, x \in Nat, m \in Nat, w \in Nat :
        /\ v = Interval[running] /\ v > 0 /\ x = Elapsed /\ m = MaxElapsed /\ w = TimeMod
        /\ x <= m /\ 2 * (v + 2 * m) < w
  BY <1>1, <1>3, Bounds, Constants
<1>6. PICK u \in Int : /\ u = due_in[running] /\ Same(due_time - sys_now, u)
                       /\ u > - (x + m) /\ u <= - x
                       /\ calls[running] = 2 => u >= - x
  BY <1>1, <1>3, <1>5 DEF SInv, RunningInv, TypeOK
<1>7. PICK t \in Times : t = (due_time + Interval[running]) % TimeMod
  <2>1. due_time + Interval[running] \in Int
    BY <1>1, <1>5, Constants DEF TypeOK, Times
  <2> QED
    BY <2>1, ModRange, Constants DEF Times
<1>8. sys_now \in Times /\ sys_now \in Int /\ t \in Int /\ due_time \in Int
  BY <1>1, NowTypes, Constants DEF TypeOK, Times
<1>9. Same(t - sys_now, u + v)
  <2>1. Same(t, due_time + v) /\ Same(sys_now, sys_now) /\ Same(v, v)
    BY <1>5, <1>7, <1>8, SameMod, SameSelf
  <2>2. Same(t - sys_now, (due_time + v) - sys_now)
    BY <2>1, <1>8, SameAdd
  <2>3. Same((due_time - sys_now) + v, u + v)
    <3>1. due_time - sys_now \in Int /\ v \in Int
      BY <1>8
    <3> QED
      BY <3>1, <2>1, <1>6, SameAdd, Zenon
  <2>4. (due_time + v) - sys_now = (due_time - sys_now) + v
    BY <1>8
  <2> QED
    BY <2>2, <2>3, <2>4, <1>8, SameTrans
<1>10. PICK d \in Int : d = u + v
  OBVIOUS
<1>11. 2 * d < TimeMod /\ 2 * d > - TimeMod
  BY <1>5, <1>6, <1>10
<1>12. Overloaded(t) <=> d < 0
  BY <1>8, <1>9, <1>10, <1>11, LessThan DEF Overloaded
<1>13. CASE Overloaded(t)
  <2>1. SysTimeout(running)
    BY <1>7, <1>13 DEF CyclicTimer
  <2>2. /\ Timed(list', due_in', sys_now)
        /\ InOrder(list', due_in')
        /\ Listed' = Listed \cup {running}
        /\ due_in'[running] = Interval[running]
        /\ \A g \in Listed : due_in'[g] = due_in[g]
    BY <2>1, <1>3, <1>4, SysTimeoutOnTime
  <2>3. v \in Int /\ v <= Interval[running] /\ v > - (Elapsed + MaxElapsed) /\ v >= - Elapsed
        /\ v > - Elapsed /\ due_in'[running] = v
    BY <2>2, <1>5
  <2> QED
    BY <2>2, <2>3, <1>2, <1>3, PutBackOnTime
<1>14. CASE ~Overloaded(t)
  <2>1. SysTimeoutAbs(t, running) /\ due_in' = [due_in EXCEPT ![running] = d]
    BY <1>5, <1>6, <1>7, <1>10, <1>14 DEF CyclicTimer
  <2>2. d >= 0 /\ d <= v
    BY <1>5, <1>6, <1>10, <1>12, <1>14
  <2>3. d <= Interval[running] /\ d > - 2 * MaxElapsed - 1 /\ d > - (Elapsed + MaxElapsed)
        /\ d >= - Elapsed
    <3>1. d > - 2 * m - 1 /\ d >= - x
      BY <2>2
    <3>2. d > - (x + m)
      BY <2>2, <1>5, <1>6, <1>10
    <3> QED
      BY <3>1, <3>2, <2>2, <1>5
  <2>4. calls[running] = 2 => d > - Elapsed
    BY <1>5, <1>6, <1>10
  <2>5. Same(t - sys_now, d)
    BY <1>9, <1>10
  <2>6. /\ Timed(list', due_in', sys_now)
        /\ InOrder(list', due_in')
        /\ Listed' = Listed \cup {running}
        /\ due_in'[running] = d
        /\ \A g \in Listed : due_in'[g] = due_in[g]
    BY <2>1, <2>3, <2>5, <1>3, <1>4, AddedOnTime
  <2> QED
    BY <2>3, <2>4, <2>6, <1>2, <1>3, PutBackOnTime
<1> QED
  BY <1>13, <1>14

\* Every step of the main loop and of the timer keeps the schedule.
LEMMA SInvStep ==
  ASSUME IInv, SInv, [Next]_vars
  PROVE  SInv'
<1>1. CASE InitDone
  <2>1. list' = list /\ due_in' = due_in /\ time' = time /\ lag' = lag /\ now' = now
        /\ running' = running /\ due_time' = due_time /\ calls' = calls /\ Checking' = Checking
    BY <1>1 DEF InitDone, clock, Checking
  <2> QED
    BY <2>1, SInvSame
<1>2. CASE TcpRmv
  <2>1. list' = list /\ due_in' = due_in /\ time' = time /\ lag' = lag /\ now' = now
        /\ running' = running /\ due_time' = due_time /\ calls' = calls /\ Checking' = Checking
    BY <1>2 DEF TcpRmv, clock, Checking
  <2> QED
    BY <2>1, SInvSame
<1>3. CASE UNCHANGED vars
  <2>1. list' = list /\ due_in' = due_in /\ time' = time /\ lag' = lag /\ now' = now
        /\ running' = running /\ due_time' = due_time /\ calls' = calls /\ Checking' = Checking
    BY <1>3 DEF vars, Checking
  <2> QED
    BY <2>1, SInvSame
<1> QED
  BY <1>1, <1>2, <1>3, TickSchedule, InitSchedule, RegSchedule, CheckSchedule, ReturnSchedule,
     ExpireSchedule, TcpTimerSchedule, CyclicSchedule DEF Next, MainLoop

LEMMA SInvAlways == Spec => [](IInv /\ SInv)
<1>1. Init => SInv
  BY SInvInit
<1>2. IInv /\ SInv /\ [Next]_vars => SInv'
  BY SInvStep
<1> QED
  BY <1>1, <1>2, IInvAlways, PTL DEF Spec

\* sys_check_timeouts finds the timeouts in the order in which they are really
\* due and calls no handler more than twice, for every set of intervals the
\* half-turn comparison of the clock allows.
THEOREM ScheduleIsSafe == Spec => []ScheduleSafe
<1>1. SInv => ScheduleSafe
  BY DEF SInv, ScheduleSafe, SoonestFirst, InOrder
<1> QED
  BY <1>1, SInvAlways, PTL

\* No handler is called early, and none later than two passes of the main loop
\* after its time, also when the clock wraps in between.
THEOREM HandlersOnTime == Spec => CalledWhenDue
<1> DEFINE OnTime == running' # running /\ running' # 0 =>
                       /\ due_in[running'] <= 0
                       /\ due_in[running'] > - 2 * MaxLag * MsPerTick
<1>1. IInv /\ SInv /\ [Next]_vars => [OnTime]_vars
  <2> SUFFICES ASSUME IInv, SInv, [Next]_vars, running' # running, running' # 0
               PROVE  OnTime
    OBVIOUS
  <2>1. Expire
    BY DEF Next, MainLoop, vars, Tick, SysTimeoutsInit, InitDone, TcpReg, TcpRmv, CheckTimeouts,
           CheckReturn, TcpTimer, CyclicTimer
  <2>2. SInv' /\ TypeOK /\ lag' = lag /\ due_in' = due_in
    BY <2>1, ExpireSchedule DEF IInv, Expire, clock
  <2>3. PICK x \in Nat, m \in Nat : x = Elapsed /\ m = MaxElapsed /\ x <= m
    BY <2>2, Bounds
  <2>4. Elapsed' = x /\ MaxElapsed' = m
    BY <2>2, <2>3 DEF Elapsed, MaxElapsed
  <2>5. due_in[running'] > - (x + m) /\ due_in[running'] <= - x
    BY <2>2, <2>4 DEF SInv, RunningInv
  <2>6. - 2 * MaxLag * MsPerTick = - 2 * m
    BY <2>3, Constants DEF MaxElapsed
  <2>7. due_in[running'] \in Int
    <3>1. running' \in Handlers
      <4>1. Head(list) \in Entries
        BY <2>1, <2>2, EmptySeq DEF Expire, Expired, TypeOK
      <4> QED
        BY <4>1, <2>1 DEF Expire, Entries
    <3> QED
      BY <3>1, <2>2 DEF TypeOK
  <2> QED
    BY <2>3, <2>5, <2>6, <2>7
<1> QED
  BY <1>1, SInvAlways, PTL DEF Spec, CalledWhenDue
=============================================================================
