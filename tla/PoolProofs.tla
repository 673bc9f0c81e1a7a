----------------------------- MODULE PoolProofs -----------------------------
(***************************************************************************)
(* The pool never shares, forgets or reuses a closed connection, and its   *)
(* count of a host is the number of connections in use, for every set of   *)
(* hosts, every limit and however the calls nest.                          *)
(*                                                                         *)
(* OneOwner carries over each step by itself; the counts need it, as a     *)
(* connection taken from the idle list must not be held already, and need  *)
(* that a host without an entry counts nothing.  The bounds hold while     *)
(* calls do not nest and the pool is shut down at most once.               *)
(***************************************************************************)
EXTENDS Pool, SequenceTheorems, FiniteSetTheorems, TLAPS

\* The innermost of a stack, and the others.
Last(s) == s[Len(s)]
Front(s) == SubSeq(s, 1, Len(s) - 1)

Conns == [t : Nat, key : Keys]

Types ==
    /\ idle \in Seq(Conns) /\ held \subseteq Conns /\ IsFiniteSet(held) /\ opened \in Nat
    /\ inflight \in [Keys -> Int] /\ known \subseteq Keys
    /\ stack \in Seq([key : Keys, pc : {"wait", "open"}]) /\ shutdowns \in Nat

Distinct(q) == \A i, j \in DOMAIN q : q[i].t = q[j].t => i = j

\* Three sets that partition 1 .. n.
Partition(i, h, c, n) ==
    i \cup h \cup c = 1 .. n /\ i \cap h = {} /\ i \cap c = {} /\ h \cap c = {}

Owned ==
    /\ Distinct(idle) /\ \A g, h \in held : g.t = h.t => g = h
    /\ Partition(Transports(idle), HeldTransports, closed, opened)

Counted == CountIsExact /\ \A k \in Keys : k \notin known => inflight[k] = 0

IInv == Types /\ Owned /\ Counted

-----------------------------------------------------------------------------
\* A transport is parked at the end.
LEMMA AppendSet ==
    ASSUME NEW q \in Seq(Conns), NEW e \in Conns
    PROVE  /\ Append(q, e) \in Seq(Conns) /\ Transports(Append(q, e)) = Transports(q) \cup {e.t}
           /\ \A k \in Keys : Of(Append(q, e), k) = IF k = e.key THEN Of(q, k) \cup {e.t} ELSE Of(q, k)
           /\ Distinct(q) /\ e.t \notin Transports(q) => Distinct(Append(q, e))
<1> DEFINE a == Append(q, e)
           n == Len(q)
<1>1. /\ a \in Seq(Conns) /\ Len(a) = n + 1 /\ a[n + 1] = e
      /\ \A i \in 1 .. n : a[i] = q[i]
  BY AppendProperties
<1>2. n \in Nat /\ DOMAIN q = 1 .. n /\ DOMAIN a = 1 .. n + 1
  BY <1>1
<1> HIDE DEF a, n
<1>3. Transports(a) = Transports(q) \cup {e.t}
  BY <1>1, <1>2 DEF Transports
<1>4. ASSUME Distinct(q), e.t \notin Transports(q) PROVE Distinct(a)
  BY <1>1, <1>2, <1>4 DEF Transports, Distinct
<1>5. \A k \in Keys : Of(a, k) = IF k = e.key THEN Of(q, k) \cup {e.t} ELSE Of(q, k)
  <2>1. {i \in DOMAIN a : a[i].key = e.key} = {i \in DOMAIN q : q[i].key = e.key} \cup {n + 1}
    BY <1>1, <1>2
  <2>2. \A k \in Keys : k # e.key => {i \in DOMAIN a : a[i].key = k} = {i \in DOMAIN q : q[i].key = k}
    BY <1>1, <1>2
  <2>3. \A i \in DOMAIN q : a[i] = q[i]
    BY <1>1, <1>2
  <2> QED
    BY <1>1, <2>1, <2>2, <2>3 DEF Of
<1> QED
  BY <1>1, <1>3, <1>4, <1>5 DEF a

\* The part of a sequence between two places.
LEMMA SubSeqIs ==
    ASSUME NEW q \in Seq(Conns), NEW m \in Nat, NEW n \in Nat, m >= 1, n <= Len(q), m <= n + 1
    PROVE  /\ SubSeq(q, m, n) \in Seq(Conns) /\ DOMAIN SubSeq(q, m, n) = 1 .. n - m + 1
           /\ Len(SubSeq(q, m, n)) = n - m + 1
           /\ \A i \in 1 .. n - m + 1 : SubSeq(q, m, n)[i] = q[m + i - 1]
<1>1. \A i \in m .. n : q[i] \in Conns
  BY ElementOfSeq
<1>2. m \in Int /\ n \in Int
  OBVIOUS
<1>3. /\ SubSeq(q, m, n) \in Seq(Conns)
      /\ Len(SubSeq(q, m, n)) = IF m <= n THEN n - m + 1 ELSE 0
      /\ \A i \in 1 .. n - m + 1 : SubSeq(q, m, n)[i] = q[m + i - 1]
  BY <1>1, <1>2, SubSeqProperties
<1>4. Len(SubSeq(q, m, n)) = n - m + 1
  BY <1>3
<1> QED
  BY <1>3, <1>4

\* The first n are reaped, the others kept.
LEMMA SplitSet ==
    ASSUME NEW q \in Seq(Conns), NEW n \in 0 .. Len(q)
    PROVE  LET old == SubSeq(q, 1, n)
               kept == SubSeq(q, n + 1, Len(q)) IN
           /\ kept \in Seq(Conns) /\ Transports(q) = Transports(old) \cup Transports(kept)
           /\ Distinct(q) => Distinct(kept) /\ Transports(old) \cap Transports(kept) = {}
           /\ \A k \in Keys : Of(kept, k) \subseteq Of(q, k)
<1> DEFINE old == SubSeq(q, 1, n)
           kept == SubSeq(q, n + 1, Len(q))
           l == Len(q)
<1>1. l \in Nat /\ DOMAIN q = 1 .. l /\ n \in Nat /\ n <= l
  OBVIOUS
<1>2. DOMAIN old = 1 .. n /\ \A i \in 1 .. n : old[i] = q[i]
  BY <1>1, SubSeqIs
<1>3. kept \in Seq(Conns) /\ DOMAIN kept = 1 .. l - n /\ \A i \in 1 .. l - n : kept[i] = q[n + i]
  BY <1>1, SubSeqIs
<1> HIDE DEF old, kept, l
<1>4. \A i \in 1 .. l : i \in 1 .. n \/ (i - n \in 1 .. l - n /\ kept[i - n] = q[i])
  BY <1>1, <1>3
<1>5. Transports(q) = Transports(old) \cup Transports(kept)
  <2>1. ASSUME NEW x \in Transports(q) PROVE x \in Transports(old) \cup Transports(kept)
    <3>1. PICK i \in 1 .. l : x = q[i].t
      BY <1>1 DEF Transports
    <3> QED
      BY Zenon, <1>2, <1>3, <1>4, <3>1 DEF Transports
  <2>2. Transports(old) \subseteq Transports(q)
    BY <1>1, <1>2 DEF Transports
  <2>3. Transports(kept) \subseteq Transports(q)
    <3>1. \A i \in 1 .. l - n : n + i \in DOMAIN q /\ kept[i] = q[n + i]
      BY <1>1, <1>3
    <3> QED
      BY <1>3, <3>1 DEF Transports
  <2> QED
    BY <2>1, <2>2, <2>3
<1>6. ASSUME Distinct(q) PROVE Distinct(kept) /\ Transports(old) \cap Transports(kept) = {}
  <2>1. \A i, j \in 1 .. l : q[i].t = q[j].t => i = j
    BY <1>1, <1>6 DEF Distinct
  <2>2. \A i \in 1 .. l - n : n + i \in 1 .. l /\ n + i > n /\ kept[i] = q[n + i]
    BY <1>1, <1>3
  <2>3. \A i, j \in 1 .. l - n : kept[i].t = kept[j].t => i = j
    BY <1>1, <2>1, <2>2
  <2>4. \A i \in 1 .. n, j \in 1 .. l - n : old[i].t # kept[j].t
    BY <1>1, <1>2, <2>1, <2>2
  <2> QED
    BY <1>2, <1>3, <2>3, <2>4 DEF Distinct, Transports
<1>7. \A k \in Keys : Of(kept, k) \subseteq Of(q, k)
  <2>1. \A i \in DOMAIN kept : n + i \in DOMAIN q /\ kept[i] = q[n + i]
    BY <1>1, <1>3
  <2> QED
    BY <2>1 DEF Of
<1> QED
  BY <1>3, <1>5, <1>6, <1>7 DEF old, kept, l

\* One transport leaves the list.
LEMMA RemovedSet ==
    ASSUME NEW q \in Seq(Conns), NEW i \in DOMAIN q
    PROVE  /\ Without(q, i) \in Seq(Conns) /\ q[i] \in Conns
           /\ Transports(q) = Transports(Without(q, i)) \cup {q[i].t}
           /\ Distinct(q) => Distinct(Without(q, i)) /\ q[i].t \notin Transports(Without(q, i))
           /\ \A k \in Keys : Of(Without(q, i), k) \subseteq Of(q, k)
<1> DEFINE r == Without(q, i)
           l == Len(q)
           a == SubSeq(q, 1, i - 1)
           b == SubSeq(q, i + 1, l)
<1>1. l \in Nat /\ DOMAIN q = 1 .. l /\ i \in Nat /\ 1 <= i /\ i <= l /\ q[i] \in Conns
  OBVIOUS
<1>2. a \in Seq(Conns) /\ Len(a) = i - 1 /\ \A j \in 1 .. i - 1 : a[j] = q[j]
  <2>1. i - 1 \in Nat /\ i - 1 <= l
    BY <1>1
  <2> QED
    BY <1>1, <2>1, SubSeqIs
<1>3. b \in Seq(Conns) /\ Len(b) = l - i /\ \A j \in 1 .. l - i : b[j] = q[i + j]
  BY <1>1, SubSeqIs
<1> HIDE DEF a, b, l
<1>4. /\ a \o b \in Seq(Conns) /\ Len(a \o b) = Len(a) + Len(b)
      /\ \A j \in 1 .. Len(a) + Len(b) : (a \o b)[j] = IF j <= Len(a) THEN a[j] ELSE b[j - Len(a)]
  BY Zenon, <1>2, <1>3, ConcatProperties
<1>5. r = a \o b
  BY DEF Without, a, b, l
<1> HIDE DEF r
<1>6. /\ r \in Seq(Conns) /\ DOMAIN r = 1 .. l - 1
      /\ \A j \in 1 .. l - 1 : r[j] = IF j <= i - 1 THEN a[j] ELSE b[j - (i - 1)]
  <2>1. Len(a) + Len(b) = l - 1 /\ l - 1 \in Nat
    BY <1>1, <1>2, <1>3
  <2>2. r \in Seq(Conns) /\ Len(r) = l - 1
    BY <1>4, <1>5, <2>1
  <2>3. \A j \in 1 .. l - 1 : r[j] = IF j <= Len(a) THEN a[j] ELSE b[j - Len(a)]
    BY <1>4, <1>5, <2>1
  <2> QED
    BY <1>2, <2>2, <2>3
<1>7. \A j \in 1 .. l - 1 : r[j] = IF j < i THEN q[j] ELSE q[j + 1]
  <2> SUFFICES ASSUME NEW j \in 1 .. l - 1 PROVE r[j] = IF j < i THEN q[j] ELSE q[j + 1]
    OBVIOUS
  <2>1. CASE j < i
    BY <1>1, <1>2, <1>6, <2>1
  <2>2. CASE j >= i
    <3>1. j - (i - 1) \in 1 .. l - i /\ i + (j - (i - 1)) = j + 1
      BY <1>1, <2>2
    <3>2. r[j] = b[j - (i - 1)] /\ ~(j < i)
      BY <1>1, <1>6, <2>2
    <3>3. b[j - (i - 1)] = q[i + (j - (i - 1))]
      BY <1>3, <3>1
    <3> QED
      BY <3>1, <3>2, <3>3
  <2> QED
    BY <1>1, <2>1, <2>2
<1>8. Transports(q) = Transports(r) \cup {q[i].t}
  <2>1. ASSUME NEW x \in Transports(q) PROVE x \in Transports(r) \cup {q[i].t}
    <3>1. PICK j \in 1 .. l : x = q[j].t
      BY <1>1 DEF Transports
    <3>2. CASE j < i
      <4>1. j \in 1 .. l - 1 /\ r[j] = q[j]
        BY <1>1, <1>7, <3>2
      <4> QED
        BY <1>6, <3>1, <4>1 DEF Transports
    <3>3. CASE j > i
      <4>1. j - 1 \in 1 .. l - 1 /\ r[j - 1] = q[j]
        BY <1>1, <1>7, <3>3
      <4> QED
        BY <1>6, <3>1, <4>1 DEF Transports
    <3> QED
      BY <1>1, <3>1, <3>2, <3>3
  <2>2. Transports(r) \subseteq Transports(q)
    <3>1. \A j \in 1 .. l - 1 : j \in DOMAIN q /\ j + 1 \in DOMAIN q /\ r[j] \in {q[j], q[j + 1]}
      BY <1>1, <1>7
    <3> QED
      BY <1>6, <3>1 DEF Transports
  <2>3. q[i].t \in Transports(q)
    BY DEF Transports
  <2> QED
    BY <2>1, <2>2, <2>3
<1>9. ASSUME Distinct(q) PROVE Distinct(r) /\ q[i].t \notin Transports(r)
  <2>1. \A j, k \in 1 .. l : q[j].t = q[k].t => j = k
    BY <1>1, <1>9 DEF Distinct
  <2>2. \A j \in 1 .. l - 1 : r[j].t # q[i].t
    BY <1>1, <1>7, <2>1
  <2>3. \A j, k \in 1 .. l - 1 : r[j].t = r[k].t => j = k
    BY <1>1, <1>7, <2>1
  <2> QED
    BY <1>6, <2>2, <2>3 DEF Distinct, Transports
<1>10. \A k \in Keys : Of(r, k) \subseteq Of(q, k)
  <2>1. \A j \in DOMAIN r : j \in DOMAIN q /\ j + 1 \in DOMAIN q /\ r[j] \in {q[j], q[j + 1]}
    BY <1>1, <1>6, <1>7
  <2> QED
    BY <2>1 DEF Of
<1> QED
  BY <1>1, <1>6, <1>8, <1>9, <1>10 DEF r

-----------------------------------------------------------------------------
\* A caller gets one more transport of host k and the host's count goes up.
LEMMA TakenIsCounted ==
    ASSUME Types, Owned, Counted, NEW k \in Keys, NEW t \in Nat, t \notin HeldTransports,
           held' = held \cup {[t |-> t, key |-> k]}, add_inflight(k, 1), shutdowns' = shutdowns
    PROVE  /\ held' \subseteq Conns /\ IsFiniteSet(held')
           /\ inflight' \in [Keys -> Int] /\ known' \subseteq Keys
           /\ HeldTransports' = HeldTransports \cup {t}
           /\ \A g, h \in held' : g.t = h.t => g = h
           /\ Counted'
<1> DEFINE c == [t |-> t, key |-> k]
<1>1. c \in Conns /\ c.t = t /\ c.key = k /\ c \notin held
  BY DEF Conns, HeldTransports
<1>2. held' = held \cup {c} /\ inflight' = [inflight EXCEPT ![k] = @ + 1] /\ known' = known \cup {k}
  BY DEF add_inflight
<1> HIDE DEF c
<1>3. held' \subseteq Conns /\ IsFiniteSet(held')
  BY <1>1, <1>2, FS_AddElement DEF Types
<1>4. inflight' \in [Keys -> Int] /\ known' \subseteq Keys
  BY <1>2 DEF Types
<1>5. HeldTransports' = HeldTransports \cup {t} /\ \A g, h \in held' : g.t = h.t => g = h
  BY <1>1, <1>2 DEF HeldTransports, Owned
<1>6. \A j \in Keys : HeldFor(j)' = IF j = k THEN HeldFor(j) \cup {c} ELSE HeldFor(j)
  BY <1>1, <1>2 DEF HeldFor
<1>7. \A j \in Keys : IsFiniteSet(HeldFor(j)) /\ c \notin HeldFor(j)
  BY <1>1, FS_Subset DEF HeldFor, Types
<1>8. \A j \in Keys : /\ Cardinality(HeldFor(j)) \in Nat
                      /\ Cardinality(HeldFor(j)') = IF j = k THEN Cardinality(HeldFor(j)) + 1
                                                   ELSE Cardinality(HeldFor(j))
  BY <1>6, <1>7, FS_AddElement, FS_CardinalityType
<1>9. Counted'
  <2>1. CountIsExact'
    BY <1>2, <1>8 DEF Counted, CountIsExact, Types
  <2>2. \A j \in Keys : j \notin known' => inflight'[j] = 0
    BY <1>2 DEF Counted, Types
  <2> QED
    BY <2>1, <2>2 DEF Counted
<1> QED
  BY <1>3, <1>4, <1>5, <1>9

\* acquire finds an idle transport.
LEMMA ReuseKeeps ==
    ASSUME IInv, NEW k \in Keys, NEW n \in 0 .. Len(idle), Reuse(k, n)
    PROVE  IInv'
<1> DEFINE old == SubSeq(idle, 1, n)
           kept == SubSeq(idle, n + 1, Len(idle))
<1>1. PICK i \in DOMAIN kept : /\ idle' = Without(kept, i)
                              /\ held' = held \cup {[t |-> kept[i].t, key |-> k]}
  BY DEF Reuse, Freshest
<1>2. /\ closed' = closed \cup Transports(old) /\ add_inflight(k, 1)
      /\ opened' = opened /\ stack' = stack /\ shutdowns' = shutdowns
  BY DEF Reuse
<1>3. /\ kept \in Seq(Conns) /\ Transports(idle) = Transports(old) \cup Transports(kept)
      /\ Distinct(kept) /\ Transports(old) \cap Transports(kept) = {}
  BY SplitSet DEF IInv, Types, Owned
<1> HIDE DEF old, kept
<1> DEFINE t == kept[i].t
<1>4. /\ idle' \in Seq(Conns) /\ Distinct(idle') /\ t \notin Transports(idle')
      /\ Transports(kept) = Transports(idle') \cup {t} /\ t \in Nat
  BY Zenon, <1>1, <1>3, RemovedSet DEF Conns
<1> HIDE DEF t
<1>5. t \notin HeldTransports
  BY <1>3, <1>4 DEF IInv, Owned, Partition
<1>6. /\ held' \subseteq Conns /\ IsFiniteSet(held')
      /\ inflight' \in [Keys -> Int] /\ known' \subseteq Keys
      /\ HeldTransports' = HeldTransports \cup {t}
      /\ \A g, h \in held' : g.t = h.t => g = h
      /\ Counted'
  BY Zenon, <1>1, <1>2, <1>4, <1>5, TakenIsCounted DEF IInv, t
<1>7. Partition(Transports(idle'), HeldTransports', closed', opened')
  BY <1>2, <1>3, <1>4, <1>6 DEF IInv, Owned, Partition
<1>8. Types'
  BY <1>2, <1>4, <1>6 DEF IInv, Types
<1>9. Transports(idle)' = Transports(idle')
  BY DEF Transports
<1>10. Owned'
  BY <1>4, <1>6, <1>7, <1>9 DEF Owned, Distinct
<1> QED
  BY <1>6, <1>8, <1>10 DEF IInv

\* acquire finds none and waits.
LEMMA AcquireKeeps ==
    ASSUME IInv, NEW k \in Keys, NEW n \in 0 .. Len(idle), Acquire(k, n)
    PROVE  IInv'
<1> DEFINE old == SubSeq(idle, 1, n)
           kept == SubSeq(idle, n + 1, Len(idle))
<1>1. /\ idle' = kept /\ closed' = closed \cup Transports(old)
      /\ stack' = Append(stack, [key |-> k, pc |-> "wait"])
      /\ inflight' = inflight /\ known' = known /\ held' = held /\ opened' = opened
      /\ shutdowns' = shutdowns
  BY DEF Acquire
<1>2. /\ kept \in Seq(Conns) /\ Transports(idle) = Transports(old) \cup Transports(kept)
      /\ Distinct(kept) /\ Transports(old) \cap Transports(kept) = {}
  BY SplitSet DEF IInv, Types, Owned
<1> HIDE DEF old, kept
<1>3. Types'
  BY <1>1, <1>2 DEF IInv, Types
<1>4. Partition(Transports(kept), HeldTransports, closed \cup Transports(old), opened)
  BY <1>2 DEF IInv, Owned, Partition
<1>5. Owned'
  BY <1>1, <1>2, <1>4 DEF IInv, Owned, HeldTransports
<1>6. Counted'
  BY <1>1 DEF IInv, Counted, CountIsExact, HeldFor
<1> QED
  BY <1>3, <1>5, <1>6 DEF IInv

\* The stack without its top.
LEMMA StackFront ==
    ASSUME NEW S, NEW s \in Seq(S), s # << >>
    PROVE  Front(s) \in Seq(S) /\ Last(s) \in S
<1>1. Len(s) \in Nat \ {0} /\ Last(s) \in S
  BY DEF Last
<1>2. \A i \in 1 .. Len(s) - 1 : s[i] \in S
  BY <1>1
<1>3. SubSeq(s, 1, Len(s) - 1) \in Seq(S)
  BY <1>1, <1>2, SubSeqProperties
<1> QED
  BY <1>1, <1>3 DEF Front

\* A waiting acquire goes on, times out, or fails to connect: nothing but the
\* stack changes.
LEMMA StackKeeps ==
    ASSUME IInv, Proceed \/ WaitTimesOut \/ OpenFails
    PROVE  IInv'
<1> DEFINE F == [key : Keys, pc : {"wait", "open"}]
<1>1. Front(stack) \in Seq(F) /\ Top \in F /\ stack \in Seq(F) /\ Len(stack) \in 1 .. Len(stack)
  <2>1. stack # << >> /\ stack \in Seq(F)
    BY DEF IInv, Types, Proceed, WaitTimesOut, OpenFails
  <2>2. Front(stack) \in Seq(F) /\ Last(stack) \in F
    BY Zenon, <2>1, StackFront
  <2> QED
    BY <2>1, <2>2 DEF Top, Last
<1>2. stack' \in Seq(F)
  <2>1. CASE Proceed
    <3>1. [Top EXCEPT !.pc = "open"] \in F
      BY <1>1
    <3> QED
      BY <1>1, <2>1, <3>1, ExceptSeq DEF Proceed, Top
  <2>2. CASE WaitTimesOut \/ OpenFails
    BY <1>1, <2>2 DEF WaitTimesOut, OpenFails, Returns, Front
  <2> QED
    BY <2>1, <2>2
<1>3. /\ idle' = idle /\ inflight' = inflight /\ known' = known /\ held' = held
      /\ closed' = closed /\ opened' = opened /\ shutdowns' = shutdowns
  BY DEF Proceed, WaitTimesOut, OpenFails
<1> HIDE DEF F
<1>4. Types'
  BY <1>2, <1>3 DEF IInv, Types, F
<1> QED
  BY <1>3, <1>4 DEF IInv, Owned, Counted, CountIsExact, HeldFor, HeldTransports, Distinct, Transports

\* acquire returns a new connection.
LEMMA OpenKeeps ==
    ASSUME IInv, Open
    PROVE  IInv'
<1> DEFINE t == opened + 1
<1>1. /\ stack # << >> /\ stack' = Front(stack) /\ opened' = t /\ opened \in Nat /\ t \in Nat
      /\ held' = held \cup {[t |-> t, key |-> Top.key]} /\ add_inflight(Top.key, 1)
      /\ idle' = idle /\ closed' = closed /\ shutdowns' = shutdowns
  BY DEF IInv, Types, Open, Returns, Front
<1>2. stack' \in Seq([key : Keys, pc : {"wait", "open"}]) /\ Top.key \in Keys
  <2>1. /\ Front(stack) \in Seq([key : Keys, pc : {"wait", "open"}])
        /\ Last(stack) \in [key : Keys, pc : {"wait", "open"}]
    BY Zenon, <1>1, StackFront DEF IInv, Types
  <2> QED
    BY <1>1, <2>1 DEF Top, Last
<1>3. t \notin 1 .. opened /\ 1 .. t = 1 .. opened \cup {t}
  BY <1>1
<1> HIDE DEF t
<1>4. t \notin HeldTransports
  BY <1>3 DEF IInv, Owned, Partition
<1>5. /\ held' \subseteq Conns /\ IsFiniteSet(held')
      /\ inflight' \in [Keys -> Int] /\ known' \subseteq Keys
      /\ HeldTransports' = HeldTransports \cup {t}
      /\ \A g, h \in held' : g.t = h.t => g = h
      /\ Counted'
  BY Zenon, <1>1, <1>2, <1>4, TakenIsCounted DEF IInv
<1>6. Types'
  BY <1>1, <1>2, <1>5 DEF IInv, Types
<1>7. Partition(Transports(idle), HeldTransports', closed, t)
  BY <1>3, <1>5 DEF IInv, Owned, Partition
<1>8. Owned'
  BY <1>1, <1>5, <1>7 DEF IInv, Owned
<1> QED
  BY <1>5, <1>6, <1>8 DEF IInv

\* A transport comes back: the caller's share and the host's count go down.
LEMMA ReturnedIsCounted ==
    ASSUME Types, Owned, Counted, NEW h \in held,
           held' = held \ {h}, add_inflight(h.key, -1), shutdowns' = shutdowns
    PROVE  /\ held' \subseteq Conns /\ IsFiniteSet(held') /\ h \in Conns
           /\ inflight' \in [Keys -> Int] /\ known' \subseteq Keys
           /\ HeldTransports = HeldTransports' \cup {h.t} /\ h.t \notin HeldTransports'
           /\ \A f, g \in held' : f.t = g.t => f = g
           /\ Counted'
<1> DEFINE k == h.key
<1>1. h \in Conns /\ k \in Keys
  BY DEF Types, Conns
<1>2. held' \subseteq Conns /\ IsFiniteSet(held')
  BY FS_RemoveElement DEF Types
<1>3. /\ HeldTransports = HeldTransports' \cup {h.t} /\ h.t \notin HeldTransports'
      /\ \A f, g \in held' : f.t = g.t => f = g
  BY DEF HeldTransports, Owned
<1>4. /\ known' = known
      /\ inflight' = IF k \in known THEN [inflight EXCEPT ![k] = @ + (-1)] ELSE inflight
  <2>1. ~(-1 > 0)
    OBVIOUS
  <2>2. CASE k \in known
    BY <2>2 DEF add_inflight
  <2>3. CASE k \notin known
    BY <2>1, <2>3 DEF add_inflight
  <2> QED
    BY <2>2, <2>3
<1> HIDE DEF k
<1>5. inflight' \in [Keys -> Int] /\ known' \subseteq Keys
  BY <1>1, <1>4 DEF Types
<1>6. \A j \in Keys : HeldFor(j)' = IF j = k THEN HeldFor(j) \ {h} ELSE HeldFor(j)
  <2>1. \A j \in Keys : HeldFor(j)' = HeldFor(j) \ {h}
    BY DEF HeldFor
  <2>2. \A j \in Keys : j # k => h \notin HeldFor(j)
    BY DEF HeldFor, k
  <2> QED
    BY <2>1, <2>2
<1>7. h \in HeldFor(k) /\ \A j \in Keys : IsFiniteSet(HeldFor(j))
  BY FS_Subset DEF HeldFor, Types, k
<1>8. \A j \in Keys : /\ Cardinality(HeldFor(j)) \in Nat
                      /\ Cardinality(HeldFor(j)') = IF j = k THEN Cardinality(HeldFor(j)) - 1
                                                   ELSE Cardinality(HeldFor(j))
  BY <1>6, <1>7, FS_RemoveElement, FS_CardinalityType
<1>9. Cardinality(HeldFor(k)) # 0
  BY <1>1, <1>7, FS_EmptySet
<1>10. Counted'
  <2>1. CountIsExact'
    <3> SUFFICES ASSUME NEW j \in Keys
                 PROVE  /\ inflight'[j] <= Cardinality(HeldFor(j)')
                        /\ shutdowns' = 0 => inflight'[j] = Cardinality(HeldFor(j)')
      BY DEF CountIsExact
    <3>1. /\ inflight[j] \in Int /\ inflight[j] <= Cardinality(HeldFor(j))
          /\ shutdowns = 0 => inflight[j] = Cardinality(HeldFor(j))
          /\ j \notin known => inflight[j] = 0
      BY DEF Types, Counted, CountIsExact
    <3>2. CASE j = k /\ k \in known
      BY <1>1, <1>4, <1>8, <3>1, <3>2 DEF Types
    <3>3. CASE j = k /\ k \notin known
      BY <1>1, <1>4, <1>8, <1>9, <3>1, <3>3
    <3>4. CASE j # k
      BY <1>4, <1>8, <3>1, <3>4 DEF Types
    <3> QED
      BY <3>2, <3>3, <3>4
  <2>2. \A j \in Keys : j \notin known' => inflight'[j] = 0
    BY <1>4 DEF Counted, Types
  <2> QED
    BY <2>1, <2>2 DEF Counted
<1> QED
  BY <1>1, <1>2, <1>3, <1>5, <1>10

\* release, of a healthy transport or not.
LEMMA ReleaseKeeps ==
    ASSUME IInv, NEW h \in held, NEW healthy \in BOOLEAN, Release(h, healthy)
    PROVE  IInv'
<1>1. /\ held' = held \ {h} /\ add_inflight(h.key, -1)
      /\ opened' = opened /\ stack' = stack /\ shutdowns' = shutdowns
      /\ Park(h) \/ Unhealthy(h)
  BY DEF Release
<1>2. /\ held' \subseteq Conns /\ IsFiniteSet(held') /\ h \in Conns
      /\ inflight' \in [Keys -> Int] /\ known' \subseteq Keys
      /\ HeldTransports = HeldTransports' \cup {h.t} /\ h.t \notin HeldTransports'
      /\ \A f, g \in held' : f.t = g.t => f = g
      /\ Counted'
  BY Zenon, <1>1, ReturnedIsCounted DEF IInv
<1> DEFINE s == Append(idle, h)
<1>3. h.t \notin Transports(idle)
  BY <1>2 DEF IInv, Owned, Partition
<1>4. s \in Seq(Conns) /\ Transports(s) = Transports(idle) \cup {h.t} /\ Distinct(s)
  BY <1>2, <1>3, AppendSet DEF IInv, Types, Owned
<1> HIDE DEF s
<1>5. /\ idle' \in Seq(Conns) /\ Distinct(idle')
      /\ Partition(Transports(idle'), HeldTransports', closed', opened)
  <2>1. CASE Unhealthy(h)
    <3>1. idle' = idle /\ closed' = closed \cup {h.t}
      BY <2>1 DEF Unhealthy
    <3>2. Partition(Transports(idle), HeldTransports', closed \cup {h.t}, opened)
      BY <1>2, <1>3 DEF IInv, Owned, Partition
    <3> QED
      BY <3>1, <3>2 DEF IInv, Types, Owned
  <2>2. CASE idle' = s /\ closed' = closed
    <3>1. Partition(Transports(s), HeldTransports', closed, opened)
      BY <1>2, <1>4 DEF IInv, Owned, Partition
    <3> QED
      BY Zenon, <1>4, <2>2, <3>1
  <2>3. ASSUME NEW i \in DOMAIN s, idle' = Without(s, i), closed' = closed \cup {s[i].t}
        PROVE  /\ idle' \in Seq(Conns) /\ Distinct(idle')
               /\ Partition(Transports(idle'), HeldTransports', closed', opened)
    <3>1. /\ idle' \in Seq(Conns) /\ Distinct(idle') /\ s[i].t \notin Transports(idle')
          /\ Transports(s) = Transports(idle') \cup {s[i].t}
      BY <1>4, <2>3, RemovedSet
    <3>2. Partition(Transports(s), HeldTransports', closed, opened)
      BY <1>2, <1>4 DEF IInv, Owned, Partition
    <3>3. Partition(Transports(idle'), HeldTransports', closed \cup {s[i].t}, opened)
      BY <3>1, <3>2 DEF Partition
    <3> QED
      BY <2>3, <3>1, <3>3
  <2> QED
    BY <1>1, <2>1, <2>2, <2>3 DEF Park, Oldest, s
<1>6. Types'
  BY <1>1, <1>2, <1>5 DEF IInv, Types
<1>7. Transports(idle)' = Transports(idle')
  BY DEF Transports
<1>8. Owned'
  BY <1>1, <1>2, <1>5, <1>7 DEF Owned, Distinct
<1> QED
  BY <1>2, <1>6, <1>8 DEF IInv

\* The idle transports are closed, by drop_idle or by shutdown, which forgets
\* the counts too.
LEMMA DropKeeps ==
    ASSUME IInv, DropIdle \/ Shutdown
    PROVE  IInv'
<1>1. /\ idle' = << >> /\ closed' = closed \cup Transports(idle)
      /\ held' = held /\ opened' = opened /\ stack' = stack
  BY DEF DropIdle, Shutdown, drop_idle
<1>2. << >> \in Seq(Conns) /\ Transports(<< >>) = {} /\ Distinct(<< >>)
  BY EmptySeq DEF Transports, Distinct
<1>3. Owned'
  <2>1. Partition({}, HeldTransports, closed \cup Transports(idle), opened)
    BY DEF IInv, Owned, Partition
  <2> QED
    BY Zenon, <1>1, <1>2, <2>1 DEF IInv, Owned, HeldTransports
<1>4. Types' /\ Counted'
  <2>1. CASE DropIdle
    <3>1. inflight' = inflight /\ known' = known /\ shutdowns' = shutdowns
      BY <2>1 DEF DropIdle
    <3> QED
      BY <1>1, <1>2, <3>1 DEF IInv, Types, Counted, CountIsExact, HeldFor
  <2>2. CASE Shutdown
    <3>1. inflight' = [k \in Keys |-> 0] /\ known' = {} /\ shutdowns' = shutdowns + 1
      BY <2>2 DEF Shutdown
    <3>2. Types'
      BY <1>1, <1>2, <3>1 DEF IInv, Types
    <3>3. \A k \in Keys : Cardinality(HeldFor(k)) \in Nat /\ HeldFor(k)' = HeldFor(k)
      <4>1. \A k \in Keys : IsFiniteSet(HeldFor(k))
        BY FS_Subset DEF HeldFor, IInv, Types
      <4> QED
        BY <1>1, <4>1, FS_CardinalityType DEF HeldFor
    <3>4. shutdowns' # 0
      BY <3>1 DEF IInv, Types
    <3> QED
      BY <3>1, <3>2, <3>3, <3>4 DEF Counted, CountIsExact
  <2> QED
    BY <2>1, <2>2
<1> QED
  BY <1>3, <1>4 DEF IInv

\* The invariant is inductive.
LEMMA Inductive == (Init => IInv) /\ (IInv /\ [Next]_vars => IInv')
<1>1. ASSUME Init PROVE IInv
  <2>1. << >> \in Seq(Conns) /\ << >> \in Seq([key : Keys, pc : {"wait", "open"}])
        /\ Transports(<< >>) = {} /\ Distinct(<< >>)
    BY EmptySeq DEF Transports, Distinct
  <2>2. Types
    BY <1>1, <2>1, FS_EmptySet DEF Init, Types
  <2>3. HeldTransports = {} /\ \A k \in Keys : HeldFor(k) = {}
    BY <1>1 DEF Init, HeldTransports, HeldFor
  <2>4. Owned
    <3>1. Partition({}, {}, {}, 0) /\ \A g, h \in {} : g.t = h.t => g = h
      BY DEF Partition
    <3> QED
      BY Zenon, <1>1, <2>1, <2>3, <3>1 DEF Init, Owned
  <2>5. Counted
    <3>1. \A k \in Keys : inflight[k] = 0 /\ Cardinality(HeldFor(k)) = 0
      BY Zenon, <1>1, <2>3, FS_EmptySet DEF Init
    <3> QED
      BY <3>1 DEF Counted, CountIsExact
  <2> QED
    BY <2>2, <2>4, <2>5 DEF IInv
<1>2. ASSUME IInv, [Next]_vars PROVE IInv'
  <2>1. CASE UNCHANGED vars
    BY <1>2, <2>1 DEF IInv, Types, Owned, Counted, CountIsExact, HeldFor, HeldTransports,
                      Distinct, Transports, vars
  <2>2. CASE Next
    <3>1. ASSUME NEW k \in Keys, NEW n \in 0 .. Len(idle), Reuse(k, n) \/ Acquire(k, n) PROVE IInv'
      BY <1>2, <3>1, ReuseKeeps, AcquireKeeps
    <3>2. ASSUME NEW h \in held, NEW healthy \in BOOLEAN, Release(h, healthy) PROVE IInv'
      BY <1>2, <3>2, ReleaseKeeps
    <3>3. CASE Proceed \/ WaitTimesOut \/ OpenFails
      BY <1>2, <3>3, StackKeeps
    <3>4. CASE Open \/ DropIdle \/ Shutdown
      BY <1>2, <3>4, OpenKeeps, DropKeeps
    <3> QED
      BY <2>2, <3>1, <3>2, <3>3, <3>4 DEF Next
  <2> QED
    BY <1>2, <2>1, <2>2
<1> QED
  BY <1>1, <1>2

\* Every connection has one owner (Pool::acquire, release, push_idle, reap_idle,
\* drop_idle), for every set of hosts, all limits and any nesting of the calls.
THEOREM ConnectionsHaveOneOwner == Spec => []OneOwner
<1>1. IInv => OneOwner
  BY DEF IInv, Owned, Partition, Distinct, OneOwner
<1> QED
  BY <1>1, Inductive, PTL DEF Spec

\* A host's count is the number of its connections in use, and never more even
\* after a shutdown (Pool::add_inflight, shutdown).
THEOREM CountsAreExact == Spec => []CountIsExact
<1>1. IInv => CountIsExact
  BY DEF IInv, Counted
<1> QED
  BY <1>1, Inductive, PTL DEF Spec

-----------------------------------------------------------------------------
\* The bounds.  Between calls, the transports of a host that are counted and
\* those that are idle fit into its capacity together, and so do those that are
\* held and idle when the host has no entry, which is so before its first
\* connection and after a shutdown: such a host counts nothing when they come
\* back.  Of an acquire in progress, the host has no idle transport, and a slot
\* once the opener is called.
IdleOf(k) == Cardinality(Of(idle, k))

Fits ==
    /\ \A k \in Keys : inflight[k] + IdleOf(k) <= MaxInFlight
    /\ \A k \in Keys \ known : Cardinality(HeldFor(k)) + IdleOf(k) <= MaxInFlight
    /\ stack # << >> => /\ Len(stack) = 1 /\ Of(idle, Top.key) = {}
                        /\ Top.pc = "open" => inflight[Top.key] < MaxInFlight

Bounds == IdleIsBounded /\ (Sequential => Fits)

\* The sets that are counted are finite.
LEMMA FiniteCounts ==
    ASSUME IInv, NEW k \in Keys
    PROVE  /\ IsFiniteSet(Of(idle, k)) /\ IdleOf(k) \in Nat
           /\ IsFiniteSet(HeldFor(k)) /\ Cardinality(HeldFor(k)) \in Nat
<1>1. Of(idle, k) \subseteq 1 .. opened
  BY DEF Of, IInv, Owned, Partition, Transports
<1>2. IsFiniteSet(1 .. opened)
  BY FS_Interval DEF IInv, Types
<1>3. IsFiniteSet(Of(idle, k)) /\ IsFiniteSet(HeldFor(k))
  BY <1>1, <1>2, FS_Subset DEF HeldFor, IInv, Types
<1> QED
  BY <1>3, FS_CardinalityType DEF IdleOf

\* Fewer idle transports are no more than more.
LEMMA FewerIdle ==
    ASSUME IInv, NEW k \in Keys, Of(idle', k) \subseteq Of(idle, k)
    PROVE  IdleOf(k)' <= IdleOf(k) /\ IdleOf(k) \in Nat /\ IdleOf(k)' \in Nat
<1>1. IsFiniteSet(Of(idle, k)) /\ IdleOf(k) \in Nat
  BY FiniteCounts
<1>2. IsFiniteSet(Of(idle', k)) /\ Cardinality(Of(idle', k)) <= Cardinality(Of(idle, k))
  BY <1>1, FS_Subset
<1>3. Cardinality(Of(idle', k)) \in Nat
  BY <1>2, FS_CardinalityType
<1> QED
  BY <1>1, <1>2, <1>3 DEF IdleOf, Of

\* What acquire does with the idle list before it looks for a transport.
LEMMA ReuseBounds ==
    ASSUME PoolAssumption, IInv, Bounds, NEW k \in Keys, NEW n \in 0 .. Len(idle), Reuse(k, n)
    PROVE  Bounds'
<1> DEFINE kept == SubSeq(idle, n + 1, Len(idle))
<1>1. PICK i \in DOMAIN kept : /\ idle' = Without(kept, i) /\ kept[i].key = k
                              /\ held' = held \cup {[t |-> kept[i].t, key |-> k]}
  BY DEF Reuse, Freshest
<1>2. /\ kept \in Seq(Conns) /\ Distinct(kept) /\ \A j \in Keys : Of(kept, j) \subseteq Of(idle, j)
  BY SplitSet DEF IInv, Types, Owned
<1>3. kept[i].t \in Of(kept, k)
  BY <1>1 DEF Of
<1>4. /\ inflight' = [inflight EXCEPT ![k] = @ + 1] /\ known' = known \cup {k}
      /\ stack' = stack /\ shutdowns' = shutdowns /\ nested' = (nested \/ stack # << >>)
  BY DEF Reuse, Enters, add_inflight
<1> HIDE DEF kept
<1>5. \A j \in Keys : Of(idle', j) \subseteq Of(kept, j) /\ kept[i].t \notin Of(idle', j)
  <2>1. kept[i].t \notin Transports(idle') /\ \A j \in Keys : Of(idle', j) \subseteq Of(kept, j)
    BY <1>1, <1>2, RemovedSet
  <2> QED
    BY <2>1 DEF Of, Transports
<1>6. \A j \in Keys : IdleOf(j)' <= IdleOf(j) /\ IdleOf(j) \in Nat /\ IdleOf(j)' \in Nat
  BY <1>2, <1>5, FewerIdle
<1>7. IdleOf(k)' <= IdleOf(k) - 1
  <2>1. Of(idle', k) \subseteq Of(idle, k) \ {kept[i].t} /\ kept[i].t \in Of(idle, k)
    BY <1>2, <1>3, <1>5
  <2>2. /\ IsFiniteSet(Of(idle, k) \ {kept[i].t})
        /\ Cardinality(Of(idle, k) \ {kept[i].t}) = IdleOf(k) - 1
    BY <2>1, FiniteCounts, FS_RemoveElement DEF IdleOf
  <2>3. Cardinality(Of(idle', k)) <= Cardinality(Of(idle, k) \ {kept[i].t})
    BY <2>1, <2>2, FS_Subset
  <2> QED
    BY <2>2, <2>3 DEF IdleOf, Of
<1>8. IdleIsBounded'
  <2>1. \A j \in Keys : IdleOf(j) <= MaxIdle
    BY DEF Bounds, IdleIsBounded, IdleOf
  <2>2. \A j \in Keys : IdleOf(j)' <= MaxIdle
    BY <1>6, <2>1 DEF PoolAssumption
  <2> QED
    BY <2>2 DEF IdleIsBounded, IdleOf
<1>9. ASSUME Sequential' PROVE Fits'
  <2>1. Fits /\ stack = << >>
    BY Zenon, <1>4, <1>9 DEF Sequential, Bounds, IInv, Types
  <2>2. ASSUME NEW j \in Keys PROVE inflight'[j] + IdleOf(j)' <= MaxInFlight
    <3>1. inflight[j] \in Int /\ MaxInFlight \in Int /\ inflight[j] + IdleOf(j) <= MaxInFlight
      BY <2>1 DEF IInv, Types, Fits, PoolAssumption
    <3>2. inflight'[j] = IF j = k THEN inflight[j] + 1 ELSE inflight[j]
      BY <1>4 DEF IInv, Types
    <3> QED
      BY <1>6, <1>7, <3>1, <3>2
  <2>3. ASSUME NEW j \in Keys \ known'
        PROVE  Cardinality(HeldFor(j))' + IdleOf(j)' <= MaxInFlight
    <3>1. j # k /\ j \in Keys \ known
      BY <1>4, <2>3
    <3>2. HeldFor(j)' = HeldFor(j)
      BY <1>1, <3>1 DEF HeldFor
    <3> QED
      BY <1>6, <2>1, <3>1, <3>2, FiniteCounts DEF Fits, PoolAssumption
  <2> QED
    BY <1>4, <2>1, <2>2, <2>3 DEF Fits
<1> QED
  BY <1>8, <1>9 DEF Bounds

\* acquire finds no idle transport: it is the only one in progress, or nested.
LEMMA AcquireBounds ==
    ASSUME PoolAssumption, IInv, Bounds,
           NEW k \in Keys, NEW n \in 0 .. Len(idle), Acquire(k, n)
    PROVE  Bounds'
<1> DEFINE f == [key |-> k, pc |-> "wait"]
<1>1. /\ idle' = SubSeq(idle, n + 1, Len(idle)) /\ Of(idle', k) = {} /\ stack' = Append(stack, f)
      /\ inflight' = inflight /\ known' = known /\ held' = held /\ shutdowns' = shutdowns
      /\ nested' = (nested \/ stack # << >>)
  BY DEF Acquire, Enters
<1>2. \A j \in Keys : Of(idle', j) \subseteq Of(idle, j)
  BY <1>1, SplitSet DEF IInv, Types
<1>3. \A j \in Keys : IdleOf(j)' <= IdleOf(j) /\ IdleOf(j) \in Nat /\ IdleOf(j)' \in Nat
  BY <1>2, FewerIdle
<1>4. IdleIsBounded'
  <2>1. \A j \in Keys : IdleOf(j) <= MaxIdle
    BY DEF Bounds, IdleIsBounded, IdleOf
  <2>2. \A j \in Keys : IdleOf(j)' <= MaxIdle
    BY <1>3, <2>1 DEF PoolAssumption
  <2> QED
    BY <2>2 DEF IdleIsBounded, IdleOf
<1>5. ASSUME Sequential' PROVE Fits'
  <2>1. Fits /\ stack = << >>
    BY Zenon, <1>1, <1>5 DEF Sequential, Bounds, IInv, Types
  <2>2. Len(stack') = 1 /\ Last(stack') = f
    BY <1>1, <2>1 DEF Last
  <2>3. \A j \in Keys : inflight'[j] + IdleOf(j)' <= MaxInFlight
    BY <1>1, <1>3, <2>1 DEF Fits, IInv, Types, PoolAssumption
  <2>4. \A j \in Keys \ known' : Cardinality(HeldFor(j))' + IdleOf(j)' <= MaxInFlight
    <3>1. \A j \in Keys : HeldFor(j)' = HeldFor(j) /\ Cardinality(HeldFor(j)) \in Nat
      BY Zenon, <1>1, FiniteCounts DEF HeldFor
    <3> QED
      BY <1>1, <1>3, <2>1, <3>1 DEF Fits, PoolAssumption
  <2>5. Of(idle, Top.key)' = {} /\ Top'.pc # "open"
    <3>1. Top' = f /\ f.key = k /\ f.pc = "wait"
      BY <2>2 DEF Top, Last
    <3> QED
      BY Zenon, <1>1, <3>1 DEF Of
  <2> QED
    BY <2>2, <2>3, <2>4, <2>5 DEF Fits
<1> QED
  BY <1>4, <1>5 DEF Bounds

\* A stack of one: what is left when it returns.
LEMMA OneOnStack ==
    ASSUME NEW S, NEW s \in Seq(S), Len(s) = 1
    PROVE  Front(s) = << >>
<1>1. \A i \in 1 .. 0 : s[i] \in S
  OBVIOUS
<1>2. SubSeq(s, 1, 0) \in Seq(S) /\ Len(SubSeq(s, 1, 0)) = 0
  BY <1>1, SubSeqProperties
<1> QED
  BY <1>2 DEF Front

\* The only acquire goes on, with a slot, or is over.
LEMMA StackBounds ==
    ASSUME PoolAssumption, IInv, Bounds, Proceed \/ WaitTimesOut \/ OpenFails
    PROVE  Bounds'
<1> DEFINE F == [key : Keys, pc : {"wait", "open"}]
<1>1. /\ idle' = idle /\ inflight' = inflight /\ known' = known /\ held' = held
      /\ shutdowns' = shutdowns /\ nested' = nested /\ stack # << >>
  BY DEF Proceed, WaitTimesOut, OpenFails
<1>2. \A k \in Keys : Of(idle, k)' = Of(idle, k) /\ IdleOf(k)' = IdleOf(k) /\ HeldFor(k)' = HeldFor(k)
  BY <1>1 DEF Of, IdleOf, HeldFor
<1>3. IdleIsBounded'
  BY <1>2 DEF Bounds, IdleIsBounded, IdleOf
<1>4. ASSUME Sequential' PROVE Fits'
  <2>1. Fits
    BY <1>1, <1>4 DEF Sequential, Bounds
  <2>2. /\ Len(stack) = 1 /\ stack \in Seq(F) /\ Top \in F /\ Of(idle, Top.key) = {}
    BY Zenon, <1>1, <2>1, StackFront DEF Fits, IInv, Types, Top, Last
  <2>3. stack' # << >> => /\ Len(stack') = 1 /\ Of(idle, Top.key)' = {}
                          /\ inflight'[Top'.key] < MaxInFlight
    <3>1. CASE WaitTimesOut \/ OpenFails
      BY <2>2, <3>1, OneOnStack DEF WaitTimesOut, OpenFails, Returns
    <3>2. CASE Proceed
      <4> DEFINE f == [Top EXCEPT !.pc = "open"]
      <4>1. stack' = [stack EXCEPT ![1] = f] /\ HasSlot(Top.key)
        BY <2>2, <3>2 DEF Proceed, Top
      <4>2. f \in F /\ f.key = Top.key
        BY <2>2
      <4>3. Len(stack') = 1 /\ Top' = f
        BY <2>2, <4>1, <4>2, ExceptSeq DEF Top
      <4> QED
        BY Zenon, <1>1, <2>2, <4>1, <4>2, <4>3 DEF HasSlot, Of
    <3> QED
      BY <3>1, <3>2
  <2> QED
    BY <1>1, <1>2, <2>1, <2>3 DEF Fits
<1> QED
  BY <1>3, <1>4 DEF Bounds

\* The new connection takes the slot that was seen.
LEMMA OpenBounds ==
    ASSUME PoolAssumption, IInv, Bounds, Open
    PROVE  Bounds'
<1> DEFINE F == [key : Keys, pc : {"wait", "open"}]
<1>1. Top \in F /\ Top.key \in Keys
  <2>1. stack # << >> /\ stack \in Seq(F)
    BY DEF Open, IInv, Types
  <2>2. Last(stack) \in F
    BY Zenon, <2>1, StackFront
  <2> QED
    BY <2>2 DEF Top, Last
<1>2. /\ stack # << >> /\ Top.pc = "open" /\ stack' = Front(stack) /\ idle' = idle
      /\ held' = held \cup {[t |-> opened + 1, key |-> Top.key]}
      /\ inflight' = [inflight EXCEPT ![Top.key] = @ + 1] /\ known' = known \cup {Top.key}
      /\ shutdowns' = shutdowns /\ nested' = nested
  BY DEF Open, Returns, add_inflight, Front
<1>3. \A k \in Keys : Of(idle, k)' = Of(idle, k) /\ IdleOf(k)' = IdleOf(k) /\ IdleOf(k) \in Nat
  BY <1>2, FiniteCounts DEF Of, IdleOf
<1>4. IdleIsBounded'
  BY <1>3 DEF Bounds, IdleIsBounded, IdleOf
<1>5. ASSUME Sequential' PROVE Fits'
  <2>1. Fits
    BY <1>2, <1>5 DEF Sequential, Bounds
  <2>2. Len(stack) = 1 /\ Of(idle, Top.key) = {} /\ inflight[Top.key] < MaxInFlight
    BY <1>2, <2>1 DEF Fits
  <2>3. stack' = << >>
    BY <1>2, <2>2, OneOnStack DEF IInv, Types
  <2>4. IdleOf(Top.key) = 0
    BY <2>2, FS_EmptySet DEF IdleOf
  <2>5. ASSUME NEW k \in Keys PROVE inflight'[k] + IdleOf(k)' <= MaxInFlight
    <3>1. inflight[k] \in Int /\ MaxInFlight \in Int /\ inflight[k] + IdleOf(k) <= MaxInFlight
      BY <2>1 DEF IInv, Types, Fits, PoolAssumption
    <3>2. inflight'[k] = IF k = Top.key THEN inflight[k] + 1 ELSE inflight[k]
      BY <1>1, <1>2 DEF IInv, Types
    <3> QED
      BY <1>3, <2>2, <2>4, <3>1, <3>2
  <2>6. ASSUME NEW k \in Keys \ known' PROVE Cardinality(HeldFor(k))' + IdleOf(k)' <= MaxInFlight
    <3>1. k # Top.key /\ k \in Keys \ known
      BY <1>2, <2>6
    <3>2. HeldFor(k)' = HeldFor(k)
      BY <1>2, <3>1 DEF HeldFor
    <3> QED
      BY <1>3, <2>1, <3>1, <3>2 DEF Fits
  <2> QED
    BY <2>3, <2>5, <2>6 DEF Fits
<1> QED
  BY <1>4, <1>5 DEF Bounds

\* The idle list once h is parked, or closed: one more transport of its host at
\* most, never more than the limit, and no more of the others.
LEMMA ParkedIdle ==
    ASSUME PoolAssumption, IInv, IdleIsBounded, NEW h \in held, Park(h) \/ Unhealthy(h)
    PROVE  \A k \in Keys : /\ IdleOf(k)' \in Nat /\ IdleOf(k)' <= MaxIdle
                           /\ IdleOf(k)' <= IF k = h.key THEN IdleOf(k) + 1 ELSE IdleOf(k)
<1> DEFINE s == Append(idle, h)
<1>1. h \in Conns /\ h.key \in Keys /\ MaxIdle \in Nat /\ idle \in Seq(Conns) /\ Distinct(idle)
  BY DEF IInv, Types, Conns, PoolAssumption, Owned
<1>2. h.t \in HeldTransports
  BY DEF HeldTransports
<1>3. h.t \notin Transports(idle)
  BY <1>2 DEF IInv, Owned, Partition
<1>4. /\ s \in Seq(Conns) /\ Distinct(s)
      /\ \A k \in Keys : Of(s, k) = IF k = h.key THEN Of(idle, k) \cup {h.t} ELSE Of(idle, k)
  BY <1>1, <1>3, AppendSet
<1>5. \/ idle' = idle
      \/ idle' = s /\ ~Crowded(s, h.key)
      \/ \E i \in Oldest(s, h.key) : idle' = Without(s, i)
  BY DEF Park, Unhealthy
<1> HIDE DEF s
<1>6. \A k \in Keys : IsFiniteSet(Of(idle, k)) /\ IdleOf(k) \in Nat /\ IdleOf(k) <= MaxIdle
  BY FiniteCounts DEF IdleIsBounded, IdleOf
<1>7. ASSUME NEW k \in Keys
      PROVE  /\ IsFiniteSet(Of(s, k)) /\ Cardinality(Of(s, k)) \in Nat
             /\ Cardinality(Of(s, k)) <= IF k = h.key THEN IdleOf(k) + 1 ELSE IdleOf(k)
  <2>1. /\ IsFiniteSet(Of(idle, k) \cup {h.t})
        /\ Cardinality(Of(idle, k) \cup {h.t}) \in {IdleOf(k), IdleOf(k) + 1}
    BY Zenon, <1>6, FS_AddElement DEF IdleOf
  <2>2. CASE k = h.key
    <3>1. Of(s, k) = Of(idle, k) \cup {h.t}
      BY <1>4, <2>2
    <3> QED
      BY <1>6, <2>1, <2>2, <3>1
  <2>3. CASE k # h.key
    <3>1. Of(s, k) = Of(idle, k)
      BY <1>4, <2>3
    <3> QED
      BY <1>6, <2>3, <3>1 DEF IdleOf
  <2> QED
    BY <2>2, <2>3
<1> SUFFICES ASSUME NEW k \in Keys
             PROVE  /\ IdleOf(k)' \in Nat /\ IdleOf(k)' <= MaxIdle
                    /\ IdleOf(k)' <= IF k = h.key THEN IdleOf(k) + 1 ELSE IdleOf(k)
  OBVIOUS
<1>8. IdleOf(k)' = Cardinality(Of(idle', k))
  BY DEF IdleOf, Of
<1>9. CASE idle' = idle
  BY <1>6, <1>8, <1>9 DEF IdleOf
<1>10. CASE idle' = s /\ ~Crowded(s, h.key)
  BY <1>1, <1>6, <1>7, <1>8, <1>10 DEF Crowded
<1>11. ASSUME NEW i \in Oldest(s, h.key), idle' = Without(s, i)
       PROVE  /\ IdleOf(k)' \in Nat /\ IdleOf(k)' <= MaxIdle
              /\ IdleOf(k)' <= IF k = h.key THEN IdleOf(k) + 1 ELSE IdleOf(k)
  <2>1. i \in DOMAIN s /\ s[i].key = h.key
    BY DEF Oldest
  <2>2. s[i].t \notin Transports(idle') /\ Of(idle', k) \subseteq Of(s, k)
    BY <1>4, <1>11, <2>1, RemovedSet
  <2>3. /\ IsFiniteSet(Of(idle', k)) /\ Cardinality(Of(idle', k)) <= Cardinality(Of(s, k))
        /\ Cardinality(Of(idle', k)) \in Nat
    BY <1>7, <2>2, FS_Subset, FS_CardinalityType
  <2>4. CASE k # h.key
    BY <1>1, <1>6, <1>7, <1>8, <2>3, <2>4
  <2>5. CASE k = h.key
    <3>1. s[i].t \in Of(s, k) /\ Of(idle', k) \subseteq Of(s, k) \ {s[i].t}
      BY <2>1, <2>2, <2>5 DEF Of, Transports
    <3>2. /\ IsFiniteSet(Of(s, k) \ {s[i].t})
          /\ Cardinality(Of(s, k) \ {s[i].t}) = Cardinality(Of(s, k)) - 1
      BY <1>7, <3>1, FS_RemoveElement
    <3>3. Cardinality(Of(idle', k)) <= Cardinality(Of(s, k)) - 1
      BY <3>1, <3>2, FS_Subset
    <3> QED
      BY <1>1, <1>6, <1>7, <1>8, <2>3, <2>5, <3>3
  <2> QED
    BY <2>4, <2>5
<1> QED
  BY <1>5, <1>9, <1>10, <1>11

\* A transport comes back: it was counted, or it was held by a host that counts
\* nothing.
LEMMA ReleaseBounds ==
    ASSUME PoolAssumption, IInv, Bounds, NEW h \in held, NEW healthy \in BOOLEAN,
           Release(h, healthy)
    PROVE  Bounds'
<1>1. /\ held' = held \ {h} /\ add_inflight(h.key, -1) /\ shutdowns' = shutdowns /\ stack' = stack
      /\ nested' = (nested \/ stack # << >>) /\ (Park(h) \/ Unhealthy(h))
  BY DEF Release, Enters
<1>2. \A k \in Keys : /\ IdleOf(k)' \in Nat /\ IdleOf(k)' <= MaxIdle /\ IdleOf(k) \in Nat
                      /\ IdleOf(k)' <= IF k = h.key THEN IdleOf(k) + 1 ELSE IdleOf(k)
  BY <1>1, ParkedIdle, FiniteCounts DEF Bounds
<1>3. IdleIsBounded'
  BY <1>2 DEF IdleIsBounded, IdleOf
<1>4. /\ known' = known
      /\ inflight' = IF h.key \in known THEN [inflight EXCEPT ![h.key] = @ + (-1)] ELSE inflight
  <2>1. ~(-1 > 0)
    OBVIOUS
  <2>2. CASE h.key \in known
    BY Zenon, <1>1, <2>2 DEF add_inflight
  <2>3. CASE h.key \notin known
    BY <1>1, <2>1, <2>3 DEF add_inflight
  <2> QED
    BY <2>2, <2>3
<1>5. h.key \in Keys
  BY DEF IInv, Types, Conns
<1>6. ASSUME Sequential' PROVE Fits'
  <2>1. Fits /\ stack = << >>
    BY Zenon, <1>1, <1>6 DEF Sequential, Bounds, IInv, Types
  <2>2. ASSUME NEW k \in Keys PROVE inflight'[k] + IdleOf(k)' <= MaxInFlight
    <3>1. inflight[k] \in Int /\ MaxInFlight \in Int /\ inflight[k] + IdleOf(k) <= MaxInFlight
      BY <2>1 DEF IInv, Types, Fits, PoolAssumption
    <3>2. CASE k # h.key
      <4>1. inflight'[k] = inflight[k]
        BY <1>4, <3>2 DEF IInv, Types
      <4> QED
        BY <1>2, <3>1, <3>2, <4>1
    <3>3. CASE k = h.key /\ k \in known
      <4>1. inflight'[k] = inflight[k] - 1
        BY <1>4, <3>1, <3>3 DEF IInv, Types
      <4> QED
        BY <1>2, <3>1, <3>3, <4>1
    <3>4. CASE k = h.key /\ k \notin known
      <4>1. inflight'[k] = 0
        BY <1>4, <3>4 DEF IInv, Counted
      <4>2. Cardinality(HeldFor(k)) + IdleOf(k) <= MaxInFlight
        BY <2>1, <3>4 DEF Fits
      <4>3. Cardinality(HeldFor(k)) \in Nat \ {0}
        <5>1. h \in HeldFor(k)
          BY <3>4 DEF HeldFor
        <5> QED
          BY <5>1, FiniteCounts, FS_EmptySet
      <4> QED
        BY <1>2, <3>1, <3>4, <4>1, <4>2, <4>3
    <3> QED
      BY <3>2, <3>3, <3>4
  <2>3. ASSUME NEW k \in Keys \ known' PROVE Cardinality(HeldFor(k))' + IdleOf(k)' <= MaxInFlight
    <3>1. /\ Cardinality(HeldFor(k)) + IdleOf(k) <= MaxInFlight
          /\ IsFiniteSet(HeldFor(k)) /\ Cardinality(HeldFor(k)) \in Nat /\ MaxInFlight \in Nat
      BY <1>4, <2>1, <2>3, FiniteCounts DEF Fits, PoolAssumption
    <3>2. HeldFor(k)' = HeldFor(k) \ {h} /\ (h \in HeldFor(k) <=> k = h.key)
      BY <1>1 DEF HeldFor
    <3>3. Cardinality(HeldFor(k) \ {h}) = IF k = h.key THEN Cardinality(HeldFor(k)) - 1
                                          ELSE Cardinality(HeldFor(k))
      BY Zenon, <3>1, <3>2, FS_RemoveElement
    <3> QED
      BY <1>2, <3>1, <3>2, <3>3
  <2> QED
    BY <1>1, <2>1, <2>2, <2>3 DEF Fits
<1> QED
  BY <1>3, <1>6 DEF Bounds

\* The idle list is emptied.  A first shutdown forgets what was counted, which
\* fitted.
LEMMA DropBounds ==
    ASSUME PoolAssumption, IInv, Bounds, DropIdle \/ Shutdown
    PROVE  Bounds'
<1>1. idle' = << >> /\ held' = held /\ stack' = stack /\ nested' = nested
  BY DEF DropIdle, Shutdown, drop_idle
<1>2. \A k : Of(<< >>, k) = {}
  BY DEF Of
<1>3. /\ \A k : Of(idle, k)' = {}
      /\ \A k \in Keys : IdleOf(k)' = 0 /\ IdleOf(k) \in Nat /\ HeldFor(k)' = HeldFor(k)
      /\ \A k \in Keys : Cardinality(HeldFor(k)) \in Nat
  BY Zenon, <1>1, <1>2, FS_EmptySet, FiniteCounts DEF IdleOf, HeldFor
<1>4. IdleIsBounded'
  BY <1>3 DEF IdleIsBounded, IdleOf, PoolAssumption
<1>5. ASSUME Sequential' PROVE Fits'
  <2>1. Fits
    BY <1>1, <1>5 DEF Sequential, Bounds, DropIdle, Shutdown, IInv, Types
  <2>2. MaxInFlight \in Nat \ {0} /\ \A k \in Keys : inflight[k] \in Int
    BY DEF PoolAssumption, IInv, Types
  <2>3. CASE DropIdle
    <3>1. inflight' = inflight /\ known' = known
      BY <2>3 DEF DropIdle
    <3>2. \A k \in Keys : inflight'[k] + IdleOf(k)' <= MaxInFlight
      BY <1>3, <2>1, <2>2, <3>1 DEF Fits
    <3>3. \A k \in Keys \ known' : Cardinality(HeldFor(k))' + IdleOf(k)' <= MaxInFlight
      BY <1>3, <2>1, <2>2, <3>1 DEF Fits
    <3> QED
      BY <1>1, <1>3, <2>1, <3>1, <3>2, <3>3 DEF Fits, Top
  <2>4. CASE Shutdown
    <3>1. inflight' = [k \in Keys |-> 0] /\ shutdowns = 0
      BY <1>5, <2>4 DEF Shutdown, Sequential, IInv, Types
    <3>2. \A k \in Keys : inflight'[k] + IdleOf(k)' <= MaxInFlight
      BY <1>3, <2>2, <3>1
    <3>3. \A k \in Keys : Cardinality(HeldFor(k))' + IdleOf(k)' <= MaxInFlight
      <4>1. \A k \in Keys : inflight[k] = Cardinality(HeldFor(k))
        BY <3>1 DEF IInv, Counted, CountIsExact
      <4> QED
        BY <1>3, <2>1, <2>2, <4>1 DEF Fits
    <3>4. stack' # << >> => Len(stack') = 1 /\ inflight'[Top'.key] < MaxInFlight
      <4>1. stack # << >> => Top.key \in Keys
        <5>1. stack \in Seq([key : Keys, pc : {"wait", "open"}])
          BY DEF IInv, Types
        <5>2. stack # << >> => Last(stack) \in [key : Keys, pc : {"wait", "open"}]
          BY Zenon, <5>1, StackFront
        <5> QED
          BY <5>2 DEF Top, Last
      <4> QED
        BY <1>1, <2>1, <2>2, <3>1, <4>1 DEF Fits, Top
    <3> QED
      BY <1>3, <3>2, <3>3, <3>4 DEF Fits
  <2> QED
    BY <2>3, <2>4
<1> QED
  BY <1>4, <1>5 DEF Bounds

\* The bounds carry over each step.
LEMMA BoundsInductive ==
    ASSUME PoolAssumption
    PROVE  (Init => Bounds) /\ (IInv /\ Bounds /\ [Next]_vars => Bounds')
<1>1. ASSUME Init PROVE Bounds
  <2>1. \A k : Of(idle, k) = {} /\ HeldFor(k) = {}
    BY <1>1 DEF Init, Of, HeldFor
  <2>2. \A k : IdleOf(k) = 0 /\ Cardinality(HeldFor(k)) = 0
    BY <2>1, FS_EmptySet DEF IdleOf
  <2>3. \A k \in Keys : inflight[k] = 0
    BY <1>1 DEF Init
  <2>4. IdleIsBounded
    BY <2>2 DEF IdleIsBounded, IdleOf, PoolAssumption
  <2>5. Fits
    BY <1>1, <2>2, <2>3 DEF Init, Fits, PoolAssumption
  <2> QED
    BY <2>4, <2>5 DEF Bounds
<1>2. ASSUME IInv, Bounds, [Next]_vars PROVE Bounds'
  <2>1. CASE UNCHANGED vars
    <3>1. /\ idle' = idle /\ inflight' = inflight /\ known' = known /\ held' = held
          /\ stack' = stack /\ shutdowns' = shutdowns /\ nested' = nested
      BY <2>1 DEF vars
    <3>2. IdleIsBounded' /\ (Sequential' <=> Sequential)
      BY <1>2, <3>1 DEF Bounds, IdleIsBounded, Sequential
    <3>3. Fits => Fits'
      BY <3>1 DEF Fits, IdleOf, HeldFor, Top
    <3> QED
      BY <1>2, <3>2, <3>3 DEF Bounds
  <2>2. CASE Next
    <3>1. ASSUME NEW k \in Keys, NEW n \in 0 .. Len(idle), Reuse(k, n) \/ Acquire(k, n)
          PROVE  Bounds'
      BY <1>2, <3>1, ReuseBounds, AcquireBounds
    <3>2. ASSUME NEW h \in held, NEW healthy \in BOOLEAN, Release(h, healthy) PROVE Bounds'
      BY <1>2, <3>2, ReleaseBounds
    <3>3. CASE Proceed \/ WaitTimesOut \/ OpenFails
      BY <1>2, <3>3, StackBounds
    <3>4. CASE Open \/ DropIdle \/ Shutdown
      BY <1>2, <3>4, OpenBounds, DropBounds
    <3> QED
      BY <2>2, <3>1, <3>2, <3>3, <3>4 DEF Next
  <2> QED
    BY <1>2, <2>1, <2>2
<1> QED
  BY <1>1, <1>2

\* A host never has more idle connections than max_idle_per_host, and with calls
\* one after the other never more in use than max_in_flight_per_host, although a
\* reused connection is handed out without a check (Pool::acquire, push_idle).
THEOREM PoolIsBounded ==
    ASSUME PoolAssumption
    PROVE  Spec => [](IdleIsBounded /\ CapacityIsBounded /\ IdleFits)
<1>1. ASSUME IInv, Bounds PROVE IdleIsBounded /\ CapacityIsBounded /\ IdleFits
  <2>1. ASSUME Sequential, NEW k \in Keys
        PROVE  /\ inflight[k] <= MaxInFlight
               /\ inflight[k] + Cardinality(Of(idle, k)) <= MaxInFlight
    <3>1. inflight[k] + IdleOf(k) <= MaxInFlight
      BY <1>1, <2>1 DEF Bounds, Fits
    <3>2. IdleOf(k) \in Nat /\ inflight[k] \in Int /\ MaxInFlight \in Nat
      BY <1>1, FiniteCounts DEF IInv, Types, PoolAssumption
    <3> QED
      BY <3>1, <3>2 DEF IdleOf
  <2> QED
    BY <1>1, <2>1 DEF Bounds, CapacityIsBounded, IdleFits
<1> QED
  BY <1>1, Inductive, BoundsInductive, PTL DEF Spec
=============================================================================
