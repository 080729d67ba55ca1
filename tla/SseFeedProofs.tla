---------------------------- MODULE SseFeedProofs ----------------------------
(***************************************************************************)
(* The event stream of a job implements EventFeed, for every number of     *)
(* readers, every bound of the log and all event sizes; the account of the *)
(* log's bytes is right and within its bound.                              *)
(*                                                                         *)
(* SizeOf is a recursive function: Sums says what its values are for the   *)
(* prefixes of a log, and the lemmas about it argue by the shortest prefix *)
(* for which they would fail.                                              *)
(***************************************************************************)
EXTENDS SseFeed, FiniteSetTheorems, SequenceTheorems, WellFoundedInduction, TLAPS

\* A set of numbers that is not empty has a smallest one.
LEMMA Smallest ==
    ASSUME NEW T \in SUBSET Nat, T # {}
    PROVE  \E n \in T : \A m \in T : n <= m
<1>. DEFINE R == {ss \in Nat \X Nat : ss[1] < ss[2]}
<1>1. IsWellFoundedOn(R, Nat)
  BY NatLessThanWellFounded, Zenon DEF OpToRel
<1>2. PICK n \in T : \A m \in T : <<m, n>> \notin R
  <2>. HIDE DEF R
  <2>. QED  BY <1>1, WFMin
<1>3. \A m \in T : ~(m < n)
  BY <1>2
<1>. QED  BY <1>3

\* f[k] is the size of the first k events of s, for k up to n.
Sums(f, s, n) == f = [k \in 0..n |-> IF k = 0 THEN 0 ELSE f[k - 1] + s[k].size]

LEMMA SumsNext ==
    ASSUME NEW n \in Nat, NEW s, NEW f, Sums(f, s, n)
    PROVE  /\ DOMAIN f = 0..n /\ f[0] = 0
           /\ \A k \in 1..n : f[k] = f[k - 1] + s[k].size
<1>1. DOMAIN f = 0..n /\ \A k \in 0..n : f[k] = IF k = 0 THEN 0 ELSE f[k - 1] + s[k].size
  BY Zenon DEF Sums
<1>2. 0 \in 0..n /\ \A k \in 1..n : k \in 0..n /\ k # 0
  OBVIOUS
<1>. QED  BY <1>1, <1>2, Zenon

\* Sizes are natural numbers, and so are their sums.
LEMMA SumsType ==
    ASSUME NEW s \in Seq(Events), NEW n \in 0..Len(s), NEW f, Sums(f, s, n)
    PROVE  f \in [0..n -> Nat]
<1>1. n \in Nat /\ \A k \in 1..n : s[k].size \in Nat
  <2>1. Len(s) \in Nat /\ \A k \in 1..Len(s) : s[k] \in Events
    BY LenProperties, ElementOfSeq
  <2>. QED  BY <2>1 DEF Events
<1>2. /\ DOMAIN f = 0..n /\ f[0] = 0
      /\ \A k \in 1..n : f[k] = f[k - 1] + s[k].size
  BY <1>1, SumsNext
<1>3. \A k \in 0..n : f[k] \in Nat
  <2>. DEFINE T == {k \in 0..n : f[k] \notin Nat}
  <2>. SUFFICES ASSUME T # {} PROVE FALSE
    OBVIOUS
  <2>1. T \in SUBSET Nat
    OBVIOUS
  <2>2. PICK k \in T : \A m \in T : k <= m
    <3>. HIDE DEF T
    <3>. QED  BY <2>1, Smallest
  <2>3. k # 0 /\ k - 1 \in 0..n /\ k \in 1..n
    BY <1>1, <1>2
  <2>4. f[k - 1] \in Nat
    BY <2>2, <2>3
  <2>5. f[k] = f[k - 1] + s[k].size /\ s[k].size \in Nat
    BY <1>1, <1>2, <2>3
  <2>. QED  BY <2>4, <2>5
<1>4. f = [k \in 0..n |-> f[k]]
  BY <1>2, Zenon DEF Sums
<1>. QED  BY <1>3, <1>4

\* The equation has a solution: take a shortest prefix that has none.
LEMMA SumsExist ==
    ASSUME NEW s \in Seq(Events)
    PROVE  \A n \in 0..Len(s) : \E f : Sums(f, s, n)
<1>. DEFINE T == {n \in 0..Len(s) : ~\E f : Sums(f, s, n)}
<1>. SUFFICES ASSUME T # {} PROVE FALSE
  OBVIOUS
<1>1. T \in SUBSET Nat /\ Len(s) \in Nat
  BY LenProperties
<1>2. PICK n \in T : \A m \in T : n <= m
  <2>. HIDE DEF T
  <2>. QED  BY <1>1, Smallest
<1>3. CASE n = 0
  <2>. DEFINE f == [k \in 0..n |-> 0]
  <2>1. f = [k \in 0..n |-> IF k = 0 THEN 0 ELSE f[k - 1] + s[k].size]
    BY <1>3
  <2>2. Sums(f, s, n)
    BY <2>1, Zenon DEF Sums
  <2>. QED  BY <2>2
<1>4. CASE n # 0
  <2>1. n - 1 \in 0..Len(s) /\ ~(n <= n - 1) /\ n \in Nat
    BY <1>1, <1>4
  <2>2. PICK f : Sums(f, s, n - 1)
    BY <1>2, <2>1
  <2>3. /\ DOMAIN f = 0..(n - 1) /\ f[0] = 0
        /\ \A k \in 1..(n - 1) : f[k] = f[k - 1] + s[k].size
    BY <2>1, <2>2, SumsNext, <1>4
  <2>. DEFINE g == [k \in 0..n |-> IF k = n THEN f[n - 1] + s[n].size ELSE f[k]]
  <2>4. g[0] = 0 /\ 0 \in 0..n
    BY <1>4, <2>1, <2>3
  <2>5. ASSUME NEW k \in 0..n, k # 0 PROVE g[k] = g[k - 1] + s[k].size
    <3>1. k - 1 \in 0..n /\ k - 1 # n /\ k \in 1..n
      BY <2>1, <2>5
    <3>2. g[k - 1] = f[k - 1]
      BY <3>1
    <3>3. CASE k = n
      BY <3>2, <3>3
    <3>4. CASE k # n
      <4>1. k \in 1..(n - 1)
        BY <2>1, <3>1, <3>4
      <4>. QED  BY <2>3, <3>2, <3>4, <4>1
    <3>. QED  BY <3>3, <3>4
  <2>6. \A k \in 0..n : g[k] = IF k = 0 THEN 0 ELSE g[k - 1] + s[k].size
    BY <2>4, <2>5
  <2>7. g = [k \in 0..n |-> g[k]]
    OBVIOUS
  <2>. HIDE DEF g
  <2>8. Sums(g, s, n)
    BY <2>6, <2>7 DEF Sums
  <2>. QED  BY <2>8
<1>. QED  BY <1>3, <1>4

\* Two such functions agree as far as the events have the same sizes.
SameSizes(s, t, l) == \A k \in 1..l : s[k].size = t[k].size

LEMMA SumsAgree ==
    ASSUME NEW s, NEW t, NEW n \in Nat, NEW m \in Nat, NEW f, NEW g, Sums(f, s, n), Sums(g, t, m),
           NEW l \in Nat, l <= n, l <= m, SameSizes(s, t, l)
    PROVE  f[l] = g[l]
<1>. DEFINE T == {k \in 0..l : f[k] # g[k]}
<1>. SUFFICES ASSUME T # {} PROVE FALSE
  <2>1. l \in 0..l
    OBVIOUS
  <2>. QED  BY <2>1
<1>1. T \in SUBSET Nat
  OBVIOUS
<1>2. PICK k \in T : \A i \in T : k <= i
  <2>. HIDE DEF T
  <2>. QED  BY <1>1, Smallest
<1>3. f[0] = 0 /\ \A i \in 1..n : f[i] = f[i - 1] + s[i].size
  BY SumsNext
<1>4. g[0] = 0 /\ \A i \in 1..m : g[i] = g[i - 1] + t[i].size
  BY SumsNext
<1>5. k \in 1..l /\ k - 1 \in 0..l /\ k \in 1..n /\ k \in 1..m
  BY <1>3, <1>4
<1>6. f[k - 1] = g[k - 1]
  BY <1>2, <1>5
<1>7. f[k] = f[k - 1] + s[k].size /\ g[k] = g[k - 1] + t[k].size
  BY <1>3, <1>4, <1>5
<1>. QED  BY <1>5, <1>6, <1>7 DEF SameSizes

\* SizeOf is the last of the sums.
LEMMA SizeIsSum ==
    ASSUME NEW s \in Seq(Events)
    PROVE  \E f : Sums(f, s, Len(s)) /\ SizeOf(s) = f[Len(s)]
<1>1. SizeOf(s) = (CHOOSE f : Sums(f, s, Len(s)))[Len(s)]
  BY DEF SizeOf, Sums
<1>2. Len(s) \in 0..Len(s)
  BY LenProperties
<1>3. \E f : Sums(f, s, Len(s))
  BY <1>2, SumsExist
<1>. QED  BY <1>1, <1>3, Zenon

LEMMA SizeType ==
    ASSUME NEW s \in Seq(Events)
    PROVE  SizeOf(s) \in Nat /\ (s = <<>> => SizeOf(s) = 0)
<1>1. PICK f : Sums(f, s, Len(s)) /\ SizeOf(s) = f[Len(s)]
  BY SizeIsSum
<1>2. Len(s) \in Nat /\ Len(s) \in 0..Len(s) /\ (s = <<>> => Len(s) = 0)
  BY LenProperties, EmptySeq
<1>3. f \in [0..Len(s) -> Nat] /\ f[0] = 0
  BY <1>1, <1>2, SumsType, SumsNext
<1>. QED  BY <1>1, <1>2, <1>3

LEMMA SizeAppend ==
    ASSUME NEW s \in Seq(Events), NEW e \in Events
    PROVE  SizeOf(Append(s, e)) = SizeOf(s) + e.size
<1>. DEFINE t == Append(s, e)
<1>1. /\ t \in Seq(Events) /\ Len(t) = Len(s) + 1 /\ Len(s) \in Nat
      /\ \A i \in 1..Len(s) : t[i] = s[i]
      /\ t[Len(s) + 1] = e
  BY AppendProperties, LenProperties
<1>. HIDE DEF t
<1>2. PICK f : Sums(f, s, Len(s)) /\ SizeOf(s) = f[Len(s)]
  BY SizeIsSum
<1>3. PICK g : Sums(g, t, Len(t)) /\ SizeOf(t) = g[Len(t)]
  BY <1>1, SizeIsSum
<1>4. PICK n \in Nat : n = Len(s)
  BY <1>1
<1>5. SameSizes(s, t, n)
  BY <1>1, <1>4 DEF SameSizes
<1>6. n + 1 = Len(t) /\ n + 1 \in Nat /\ n <= n + 1 /\ n <= n
  BY <1>1, <1>4
<1>7. f[n] = g[n]
  <2>1. Sums(f, s, n) /\ Sums(g, t, n + 1)
    BY <1>2, <1>3, <1>4, <1>6
  <2>. QED  BY <1>5, <1>6, <2>1, SumsAgree
<1>8. \A k \in 1..(n + 1) : g[k] = g[k - 1] + t[k].size
  BY <1>3, <1>6, SumsNext
<1>9. g[n + 1] = g[n] + t[n + 1].size
  BY <1>8, <1>4
<1>. QED  BY <1>1, <1>2, <1>3, <1>4, <1>6, <1>7, <1>9 DEF t

\* The rest of a sequence of events after k of them.
LEMMA WithoutFacts ==
    ASSUME NEW events \in Seq(Events), NEW k \in 0..Len(events)
    PROVE  /\ Without(events, k) \in Seq(Events)
           /\ Len(Without(events, k)) = Len(events) - k
           /\ \A i \in 1..(Len(events) - k) : Without(events, k)[i] = events[k + i]
<1>1. Len(events) \in Nat /\ \A i \in 1..Len(events) : events[i] \in Events
  BY LenProperties, ElementOfSeq
<1>2. \A i \in (k + 1)..Len(events) : events[i] \in Events
  BY <1>1
<1>3. /\ SubSeq(events, k + 1, Len(events)) \in Seq(Events)
      /\ Len(SubSeq(events, k + 1, Len(events))) =
            IF k + 1 <= Len(events) THEN Len(events) - (k + 1) + 1 ELSE 0
      /\ \A i \in 1..(Len(events) - (k + 1) + 1) :
            SubSeq(events, k + 1, Len(events))[i] = events[(k + 1) + i - 1]
  BY <1>1, <1>2, SubSeqProperties
<1>. QED  BY <1>1, <1>3 DEF Without

\* What is popped and what is left are together what there was.
LEMMA SizeSplit ==
    ASSUME NEW s \in Seq(Events), NEW k \in 0..Len(s)
    PROVE  /\ SubSeq(s, 1, k) \in Seq(Events)
           /\ SizeOf(s) = SizeOf(SubSeq(s, 1, k)) + SizeOf(Without(s, k))
<1>. DEFINE a == SubSeq(s, 1, k)
            b == Without(s, k)
<1>1. PICK n \in Nat : n = Len(s)
  BY LenProperties
<1>2. k \in 0..n
  BY <1>1
<1>3. /\ a \in Seq(Events) /\ Len(a) = k
      /\ \A i \in 1..k : a[i] = s[i]
  <2>1. \A i \in 1..k : s[i] \in Events
    BY <1>1, ElementOfSeq
  <2>2. 1 \in Int /\ k \in Int
    OBVIOUS
  <2>3. /\ a \in Seq(Events)
        /\ Len(a) = IF 1 <= k THEN k - 1 + 1 ELSE 0
        /\ \A i \in 1..(k - 1 + 1) : a[i] = s[1 + i - 1]
    BY <2>1, <2>2, SubSeqProperties
  <2>. QED  BY <2>3
<1>4. /\ b \in Seq(Events) /\ Len(b) = n - k
      /\ \A i \in 1..(n - k) : b[i] = s[k + i]
  BY <1>1, WithoutFacts
<1>. HIDE DEF a, b
<1>5. PICK f : Sums(f, s, n) /\ SizeOf(s) = f[n]
  BY <1>1, SizeIsSum
<1>6. PICK g : Sums(g, a, k) /\ SizeOf(a) = g[k]
  BY <1>3, SizeIsSum
<1>7. PICK h : Sums(h, b, n - k) /\ SizeOf(b) = h[n - k]
  BY <1>4, SizeIsSum
<1>8. f[k] = g[k]
  <2>1. SameSizes(s, a, k)
    BY <1>3 DEF SameSizes
  <2>2. k \in Nat /\ k <= n /\ k <= k
    BY <1>2
  <2>. QED  BY <1>5, <1>6, <2>1, <2>2, SumsAgree
<1>9. /\ \A i \in 1..n : f[i] = f[i - 1] + s[i].size
      /\ f \in [0..n -> Nat]
  <2>1. n \in Nat /\ n \in 0..Len(s) /\ Sums(f, s, n)
    BY <1>1, <1>5
  <2>2. f \in [0..n -> Nat]
    BY <2>1, SumsType
  <2>. QED  BY <2>1, <2>2, SumsNext
<1>10. /\ h[0] = 0 /\ \A i \in 1..(n - k) : h[i] = h[i - 1] + b[i].size
       /\ h \in [0..(n - k) -> Nat]
  <2>1. n - k \in Nat /\ n - k \in 0..Len(b)
    BY <1>2, <1>4
  <2>. QED  BY <1>4, <1>7, <2>1, SumsNext, SumsType
<1>11. \A i \in 0..(n - k) : f[k + i] = f[k] + h[i]
  <2>. DEFINE T == {i \in 0..(n - k) : f[k + i] # f[k] + h[i]}
  <2>. SUFFICES ASSUME T # {} PROVE FALSE
    OBVIOUS
  <2>1. T \in SUBSET Nat
    OBVIOUS
  <2>2. PICK i \in T : \A j \in T : i <= j
    <3>. HIDE DEF T
    <3>. QED  BY <2>1, Smallest
  <2>3. f[k] \in Nat
    BY <1>2, <1>9
  <2>4. i # 0
    BY <1>10, <2>2, <2>3
  <2>5. i - 1 \in 0..(n - k) /\ ~(i <= i - 1) /\ i \in 1..(n - k) /\ k + i \in 1..n
        /\ k + (i - 1) = (k + i) - 1
    BY <1>2, <2>4
  <2>6. f[(k + i) - 1] = f[k] + h[i - 1]
    BY <2>2, <2>5
  <2>7. f[k + i] = f[(k + i) - 1] + s[k + i].size
    BY <1>9, <2>5
  <2>8. h[i] = h[i - 1] + s[k + i].size
    BY <1>4, <1>10, <2>5
  <2>9. h[i - 1] \in Nat /\ s[k + i].size \in Nat
    <3>1. s[k + i] \in Events
      BY <1>1, <2>5, ElementOfSeq
    <3>. QED  BY <1>10, <2>5, <3>1 DEF Events
  <2>10. f[k + i] = f[k] + h[i]
    <3>1. \A u, v, w \in Nat : (u + v) + w = u + (v + w)
      OBVIOUS
    <3>2. (f[k] + h[i - 1]) + s[k + i].size = f[k] + (h[i - 1] + s[k + i].size)
      BY <2>3, <2>9, <3>1, Zenon
    <3>3. f[k + i] = (f[k] + h[i - 1]) + s[k + i].size
      BY <2>6, <2>7, Zenon
    <3>. QED  BY <2>8, <3>2, <3>3, Zenon
  <2>. QED  BY <2>2, <2>10
<1>12. f[n] = f[k] + h[n - k]
  <2>1. n - k \in 0..(n - k) /\ k + (n - k) = n
    BY <1>2
  <2>. QED  BY <1>11, <2>1
<1>. QED  BY <1>3, <1>5, <1>6, <1>7, <1>8, <1>12 DEF a, b

\* The loop of publish stops when the log is empty, or has room, and not before
\* it has popped the last event there was no room for.
LEMMA EvictedStops ==
    ASSUME NEW b, b.events \in Seq(Events), NEW size
    PROVE  /\ Evicted(b, size) \in 0..Len(b.events)
           /\ Evicted(b, size) < Len(b.events) => ~Crowded(b, Evicted(b, size), size)
           /\ Evicted(b, size) > 0 => Crowded(b, Evicted(b, size) - 1, size)
<1> DEFINE popped == {k \in 0..(Len(b.events) - 1) : \A l \in 0..k : Crowded(b, l, size)}
           room   == {k \in 0..(Len(b.events) - 1) : ~Crowded(b, k, size)}
<1>1. PICK n \in Nat : n = Len(b.events)
  BY LenProperties
<1>2. Evicted(b, size) = Cardinality(popped)
  BY DEF Evicted
<1>3. \A m \in 0..n : popped = 0..(m - 1) => Evicted(b, size) = m
  <2> SUFFICES ASSUME NEW m \in 0..n, popped = 0..(m - 1) PROVE Evicted(b, size) = m
    OBVIOUS
  <2> HIDE DEF popped
  <2>1. m - 1 \in Int /\ 0 \in Int
    OBVIOUS
  <2>2. Cardinality(0..(m - 1)) = IF 0 > m - 1 THEN 0 ELSE (m - 1) - 0 + 1
    BY <2>1, FS_Interval
  <2>. QED  BY <1>2, <2>2
<1>4. CASE room = {}
  <2>1. \A k \in 0..(n - 1) : Crowded(b, k, size)
    BY <1>1, <1>4
  <2>2. \A k \in 0..(n - 1) : \A l \in 0..k : l \in 0..(n - 1)
    OBVIOUS
  <2>3. popped = 0..(n - 1)
    BY <1>1, <2>1, <2>2
  <2>4. Evicted(b, size) = n
    <3> HIDE DEF popped
    <3>. QED  BY <1>3, <2>3
  <2>5. n > 0 => n - 1 \in 0..(n - 1)
    OBVIOUS
  <2>. QED  BY <1>1, <2>1, <2>4, <2>5
<1>5. CASE room # {}
  <2>1. PICK m \in room : \A k \in room : m <= k
    <3>1. room \in SUBSET Nat
      OBVIOUS
    <3> HIDE DEF room
    <3>. QED  BY <1>5, <3>1, Smallest
  <2>2. m \in 0..(n - 1) /\ ~Crowded(b, m, size)
    BY <1>1
  <2>3. \A k \in 0..(m - 1) : Crowded(b, k, size)
    BY <1>1, <2>1, <2>2
  <2>4. popped = 0..(m - 1)
    <3>1. ASSUME NEW k \in popped PROVE k \in 0..(m - 1)
      <4>1. ~(m \in 0..k)
        BY <2>2
      <4>. QED  BY <2>2, <4>1
    <3>2. ASSUME NEW k \in 0..(m - 1) PROVE k \in popped
      <4>1. k \in 0..(Len(b.events) - 1) /\ \A l \in 0..k : l \in 0..(m - 1)
        BY <1>1, <2>2
      <4>. QED  BY <2>3, <4>1
    <3>. QED  BY <3>1, <3>2
  <2>5. Evicted(b, size) = m
    <3> HIDE DEF popped
    <3>1. m \in 0..n
      BY <2>2
    <3>. QED  BY <1>3, <2>4, <3>1
  <2>6. m > 0 => m - 1 \in 0..(m - 1)
    BY <2>2
  <2>. QED  BY <1>1, <2>2, <2>3, <2>5, <2>6
<1>. QED  BY <1>4, <1>5

\* One event more is as many bytes more.
LEMMA SizeOfRest ==
    ASSUME NEW s \in Seq(Events), NEW k \in 1..Len(s)
    PROVE  SizeOf(Without(s, k - 1)) = SizeOf(Without(s, k)) + s[k].size
<1>. DEFINE w == Without(s, k - 1)
            v == Without(s, k)
<1>1. PICK n \in Nat : n = Len(s)
  BY LenProperties
<1>2. k \in 1..n /\ k - 1 \in 0..Len(s) /\ k \in 0..Len(s) /\ k \in Nat
  BY <1>1
<1>3. /\ w \in Seq(Events) /\ Len(w) = n - (k - 1)
      /\ \A i \in 1..(n - (k - 1)) : w[i] = s[(k - 1) + i]
  BY <1>1, <1>2, WithoutFacts
<1>4. /\ v \in Seq(Events) /\ Len(v) = n - k
      /\ \A i \in 1..(n - k) : v[i] = s[k + i]
  BY <1>1, <1>2, WithoutFacts
<1>. HIDE DEF w, v
<1>5. Len(w) = (n - k) + 1 /\ 1 \in 0..Len(w) /\ 1 \in 1..Len(w)
  BY <1>2, <1>3
<1>6. /\ Without(w, 1) \in Seq(Events) /\ Len(Without(w, 1)) = Len(w) - 1
      /\ \A i \in 1..(Len(w) - 1) : Without(w, 1)[i] = w[1 + i]
  BY <1>3, <1>5, WithoutFacts
<1>7. Without(w, 1) = v
  <2>1. Len(Without(w, 1)) = Len(v) /\ Len(v) = n - k
    <3>1. Len(w) - 1 = n - k
      BY <1>2, <1>5
    <3>2. Len(Without(w, 1)) = Len(w) - 1
      BY <1>6
    <3>3. Len(v) = n - k
      BY <1>4
    <3>. QED  BY <3>1, <3>2, <3>3
  <2>2. ASSUME NEW i \in 1..(n - k) PROVE Without(w, 1)[i] = v[i]
    <3>1. /\ i \in 1..(Len(w) - 1) /\ 1 + i \in 1..(n - (k - 1))
          /\ (k - 1) + (1 + i) = k + i
      BY <1>2, <1>5, <2>2
    <3>. QED  BY <1>3, <1>4, <1>6, <2>2, <3>1
  <2>. QED  BY <1>4, <1>6, <2>1, <2>2, SeqEqual
<1>8. w[1] = s[k] /\ w[1] \in Events
  <2>1. 1 \in 1..(n - (k - 1)) /\ (k - 1) + 1 = k
    BY <1>2
  <2>. QED  BY <1>3, <1>5, <2>1, ElementOfSeq
<1>9. SubSeq(w, 1, 1) = Append(<<>>, w[1])
  <2>1. /\ SubSeq(w, 1, 1) \in Seq(Events) /\ Len(SubSeq(w, 1, 1)) = 1
        /\ SubSeq(w, 1, 1)[1] = w[1]
    <3>1. 1 \in Int /\ \A i \in 1..1 : w[i] \in Events
      BY <1>8
    <3>. QED  BY <1>3, <3>1, SubSeqProperties
  <2>2. <<>> \in Seq(Events) /\ Len(<<>>) = 0
    BY EmptySeq
  <2>3. /\ Append(<<>>, w[1]) \in Seq(Events) /\ Len(Append(<<>>, w[1])) = 1
        /\ Append(<<>>, w[1])[1] = w[1]
    BY <1>8, <2>2, AppendProperties
  <2>. DEFINE a == SubSeq(w, 1, 1)
              c == Append(<<>>, w[1])
  <2>. HIDE DEF a, c
  <2>4. a \in Seq(Events) /\ c \in Seq(Events) /\ Len(a) = 1 /\ Len(c) = 1 /\ a[1] = c[1]
    BY <2>1, <2>3 DEF a, c
  <2>5. a = c
    BY <2>4, SeqEqual
  <2>. QED  BY <2>5 DEF a, c
<1>10. SizeOf(SubSeq(w, 1, 1)) = s[k].size
  <2>1. <<>> \in Seq(Events) /\ SizeOf(<<>>) = 0
    BY EmptySeq, SizeType
  <2>2. w[1].size \in Nat
    BY <1>8 DEF Events
  <2>3. SizeOf(Append(<<>>, w[1])) = SizeOf(<<>>) + w[1].size
    BY <1>8, <2>1, SizeAppend
  <2>4. SizeOf(Append(<<>>, w[1])) = w[1].size
    BY <2>1, <2>2, <2>3
  <2>. QED  BY <1>8, <1>9, <2>4
<1>11. SizeOf(w) = SizeOf(SubSeq(w, 1, 1)) + SizeOf(Without(w, 1))
  BY <1>3, <1>5, SizeSplit
<1>12. SizeOf(v) \in Nat /\ s[k].size \in Nat
  BY <1>4, <1>8, SizeType DEF Events
<1>. QED  BY <1>7, <1>10, <1>11, <1>12 DEF w, v

\* Whatever publish evicts or clears, the account of the bytes is right and
\* within its bound afterwards.
LEMMA PublishedBytes ==
    ASSUME NEW b, NEW size \in Nat \ {0},
           b.events \in Seq(Events), b.next_id \in Nat \ {0}, b.bytes = SizeOf(b.events)
    PROVE  LET c == Published(b, size) IN
           c.bytes = SizeOf(c.events) /\ c.bytes <= MaxBytes
<1> DEFINE gone == Evicted(b, size)
           rest == Without(b.events, gone)
           old  == SubSeq(b.events, 1, gone)
           new  == [id |-> b.next_id, size |-> size]
<1>1. CASE size <= MaxBytes
  <2>1. /\ Published(b, size).events = Append(rest, new)
        /\ Published(b, size).bytes = b.bytes - SizeOf(old) + size
    BY <1>1 DEF Published, Logged
  <2>2. gone \in 0..Len(b.events) /\ (gone < Len(b.events) => ~Crowded(b, gone, size))
    BY EvictedStops
  <2>3. Crowded(b, gone, size) <=> \/ Len(b.events) - gone >= MaxEvents
                                   \/ SizeOf(rest) + size > MaxBytes
    BY DEF Crowded
  <2>4. new \in Events /\ new.size = size
    BY DEF Events
  <2> HIDE DEF gone, new
  <2>5. /\ rest \in Seq(Events) /\ old \in Seq(Events)
        /\ Len(rest) = Len(b.events) - gone
        /\ SizeOf(b.events) = SizeOf(old) + SizeOf(rest)
    BY <2>2, WithoutFacts, SizeSplit
  <2> HIDE DEF rest, old
  <2>6. SizeOf(rest) \in Nat /\ SizeOf(old) \in Nat /\ (rest = <<>> => SizeOf(rest) = 0)
    BY <2>5, SizeType
  <2>7. SizeOf(Append(rest, new)) = SizeOf(rest) + size
    BY <2>4, <2>5, SizeAppend
  <2>8. SizeOf(rest) + size <= MaxBytes
    <3>1. CASE gone < Len(b.events)
      BY <2>2, <2>3, <2>6, <3>1, BrokerAssumption
    <3>2. CASE ~(gone < Len(b.events))
      <4>1. Len(b.events) \in Nat
        BY LenProperties
      <4>2. Len(rest) = 0
        BY <2>2, <2>5, <3>2, <4>1
      <4>3. rest = <<>>
        BY <2>5, <4>2, EmptySeq
      <4>. QED  BY <1>1, <2>6, <4>3, BrokerAssumption
    <3>. QED  BY <3>1, <3>2
  <2>. QED  BY <2>1, <2>5, <2>6, <2>7, <2>8
<1>2. CASE ~(size <= MaxBytes)
  <2>1. Published(b, size).events = <<>> /\ Published(b, size).bytes = 0
    BY <1>2 DEF Published, Oversized
  <2>2. SizeOf(<<>>) = 0
    BY EmptySeq, SizeType
  <2>. QED  BY <2>1, <2>2, BrokerAssumption
<1>. QED  BY <1>1, <1>2

\* What publish pops it had no room for: with the last of them left in, one of
\* the bounds would be exceeded.
LEMMA PublishedEvicts ==
    ASSUME NEW b, NEW size \in Nat \ {0},
           b.events \in Seq(Events), b.next_id \in Nat \ {0}, b.bytes = SizeOf(b.events),
           size <= MaxBytes
    PROVE  LET c == Published(b, size)
               gone == Len(b.events) + 1 - Len(c.events)
           IN gone > 0 => \/ Len(c.events) + 1 > MaxEvents
                          \/ c.bytes + b.events[gone].size > MaxBytes
<1> DEFINE c    == Published(b, size)
           g    == Evicted(b, size)
           rest == Without(b.events, g)
           old  == SubSeq(b.events, 1, g)
           new  == [id |-> b.next_id, size |-> size]
<1>1. PICK n \in Nat : n = Len(b.events)
  BY LenProperties
<1>2. g \in 0..n /\ (g > 0 => Crowded(b, g - 1, size))
  BY <1>1, EvictedStops
<1>3. c.events = Append(rest, new) /\ c.bytes = b.bytes - SizeOf(old) + size
  BY DEF Published, Logged
<1>4. new \in Events
  BY DEF Events
<1> HIDE DEF g, new
<1>5. /\ rest \in Seq(Events) /\ old \in Seq(Events) /\ Len(rest) = n - g
      /\ SizeOf(b.events) = SizeOf(old) + SizeOf(rest)
  BY <1>1, <1>2, WithoutFacts, SizeSplit
<1>6. g > 0 => SizeOf(Without(b.events, g - 1)) = SizeOf(rest) + b.events[g].size
  <2>1. SUFFICES ASSUME g > 0
                 PROVE  SizeOf(Without(b.events, g - 1)) = SizeOf(rest) + b.events[g].size
    OBVIOUS
  <2>2. g \in 1..Len(b.events)
    BY <1>1, <1>2, <2>1
  <2>. QED  BY <2>2, SizeOfRest
<1> HIDE DEF rest, old
<1>7. SizeOf(rest) \in Nat /\ SizeOf(old) \in Nat
  BY <1>5, SizeType
<1>8. Len(Append(rest, new)) = n - g + 1
  BY <1>4, <1>5, AppendProperties
<1> HIDE DEF c
<1>9. Len(c.events) = n - g + 1 /\ Len(b.events) + 1 - Len(c.events) = g
  <2>1. Len(c.events) = n - g + 1
    BY <1>3, <1>8
  <2>. QED  BY <1>1, <1>2, <2>1
<1>10. c.bytes = SizeOf(rest) + size
  BY <1>3, <1>5, <1>7
<1>11. g > 0 => \/ n - (g - 1) >= MaxEvents
                \/ SizeOf(rest) + b.events[g].size + size > MaxBytes
  BY <1>1, <1>2, <1>6 DEF Crowded
<1>12. ASSUME g > 0
       PROVE  Len(c.events) + 1 > MaxEvents \/ c.bytes + b.events[g].size > MaxBytes
  <2>1. b.events[g].size \in Nat
    <3>1. g \in 1..Len(b.events)
      BY <1>1, <1>2, <1>12
    <3>2. b.events[g] \in Events
      BY <3>1, ElementOfSeq
    <3>. QED  BY <3>2 DEF Events
  <2>2. CASE n - (g - 1) >= MaxEvents
    <3>1. Len(c.events) + 1 > MaxEvents
      BY <1>2, <1>9, <2>2, BrokerAssumption
    <3>. QED  BY <3>1
  <2>3. CASE SizeOf(rest) + b.events[g].size + size > MaxBytes
    <3>1. c.bytes + b.events[g].size > MaxBytes
      BY <1>7, <1>10, <2>1, <2>3, BrokerAssumption
    <3>. QED  BY <3>1
  <2>. QED  BY <1>11, <1>12, <2>2, <2>3
<1>. QED  BY <1>9, <1>12 DEF c

\* What a call of publish does to a log that is an unbroken tail.
LEMMA PublishedFacts ==
    ASSUME NEW b, NEW size \in Nat \ {0},
           b.events \in Seq(Events), Len(b.events) <= MaxEvents, b.next_id \in Nat \ {0},
           Consecutive(b.events),
           b.events # <<>> => b.events[Len(b.events)].id = b.next_id - 1
    PROVE  LET c == Published(b, size) IN
           /\ c.events \in Seq(Events) /\ Len(c.events) <= MaxEvents
           /\ c.next_id = b.next_id + 1
           /\ c.closed = b.closed
           /\ Consecutive(c.events)
           /\ c.events # <<>> => c.events[Len(c.events)].id = c.next_id - 1
           /\ size <= MaxBytes => c.events # <<>>
<1> DEFINE gone == Evicted(b, size)
           rest == Without(b.events, gone)
           new  == [id |-> b.next_id, size |-> size]
           log  == Append(rest, new)
<1>1. CASE size <= MaxBytes
  <2>1. /\ Published(b, size).events = log
        /\ Published(b, size).next_id = b.next_id + 1
        /\ Published(b, size).closed = b.closed
    BY <1>1 DEF Published, Logged
  <2>2. Len(b.events) \in Nat /\ gone \in 0..Len(b.events)
        /\ (Len(b.events) = MaxEvents => gone >= 1)
    <3>1. Len(b.events) \in Nat /\ gone \in 0..Len(b.events)
      BY EvictedStops, LenProperties
    <3>2. ASSUME Len(b.events) = MaxEvents, gone = 0 PROVE FALSE
      <4>1. Crowded(b, 0, size)
        BY <3>1, <3>2 DEF Crowded
      <4>. QED  BY <3>1, <3>2, <4>1, EvictedStops, BrokerAssumption
    <3> HIDE DEF gone
    <3>. QED  BY <3>1, <3>2
  <2> HIDE DEF gone
  <2>3. /\ rest \in Seq(Events) /\ Len(rest) = Len(b.events) - gone
        /\ \A i \in 1..(Len(b.events) - gone) : rest[i] = b.events[gone + i]
    BY <2>2, WithoutFacts
  <2> HIDE DEF rest
  <2>4. new \in Events
    BY DEF Events
  <2>5. new.id = b.next_id
    OBVIOUS
  <2> HIDE DEF new
  <2>6. /\ log \in Seq(Events) /\ log # <<>> /\ Len(log) = Len(rest) + 1
        /\ \A i \in 1..Len(rest) : log[i] = rest[i]
        /\ log[Len(rest) + 1] = new
    BY <2>3, <2>4, AppendProperties
  <2> HIDE DEF log
  <2>7. Len(log) <= MaxEvents
    BY <2>2, <2>3, <2>6, BrokerAssumption
  <2>11. PICK n \in Nat : n = Len(b.events) /\ DOMAIN b.events = 1..n
    BY <2>2, LenProperties
  <2>12. PICK g \in 0..n : g = gone
    BY <2>2, <2>11
  <2>8. \A i \in 1..Len(log) : log[i].id = b.next_id - (Len(log) - i)
    <3> SUFFICES ASSUME NEW i \in 1..Len(log) PROVE log[i].id = b.next_id - (Len(log) - i)
      OBVIOUS
    <3>1. CASE i = Len(log)
      <4>1. Len(log) \in Nat /\ log[i] = new
        BY <2>2, <2>3, <2>6, <3>1
      <4>. QED  BY <2>5, <3>1, <4>1
    <3>2. CASE i # Len(log)
      <4>1. i \in 1..(n - g) /\ Len(log) = n - g + 1
        BY <2>3, <2>6, <2>11, <2>12, <3>2
      <4>2. log[i] = b.events[g + i] /\ g + i \in 1..n /\ 1 \in 1..n /\ n \in 1..n
        BY <2>3, <2>6, <2>11, <2>12, <4>1
      <4>3. b.events # <<>>
        BY <2>11, <4>2, EmptySeq
      <4>4. /\ b.events[g + i].id = b.events[1].id + ((g + i) - 1)
            /\ b.next_id - 1 = b.events[1].id + (n - 1)
        BY <2>11, <4>2, <4>3 DEF Consecutive
      <4>5. b.events[1] \in Events
        BY <2>11, <4>2, ElementOfSeq
      <4>6. b.events[1].id \in Nat
        BY <4>5 DEF Events
      <4>7. PICK f \in Nat : f = b.events[1].id
        BY <4>6
      <4>8. log[i].id = f + ((g + i) - 1) /\ b.next_id - 1 = f + (n - 1)
        BY <4>2, <4>4, <4>7
      <4>. QED  BY <4>1, <4>8
    <3>. QED  BY <3>1, <3>2
  <2>9. DOMAIN log = 1..Len(log) /\ Len(log) \in Nat \ {0}
    BY <2>3, <2>6, LenProperties
  <2>10. Consecutive(log) /\ log[Len(log)].id = b.next_id
    <3>1. PICK m \in Nat \ {0} : m = Len(log)
      BY <2>9
    <3>2. \A i \in 1..m : log[i].id = b.next_id - (m - i)
      BY <2>8, <3>1
    <3>3. log[1].id = b.next_id - (m - 1) /\ log[m].id = b.next_id
      BY <3>2
    <3>. QED  BY <2>9, <3>1, <3>2, <3>3 DEF Consecutive
  <2>. QED  BY <2>1, <2>6, <2>7, <2>10
<1>2. CASE ~(size <= MaxBytes)
  <2>1. /\ Published(b, size).events = <<>>
        /\ Published(b, size).next_id = b.next_id + 1
        /\ Published(b, size).closed = b.closed
    BY <1>2 DEF Published, Oversized
  <2>. QED  BY <1>2, <2>1, EmptySeq, BrokerAssumption DEF Consecutive
<1>. QED  BY <1>1, <1>2

\* What a reader is given: nothing, or the rest of the log from the event after
\* its cursor (from the front, if it has none).
LEMMA AfterFacts ==
    ASSUME NEW b, NEW id \in Nat,
           b.events \in Seq(Events), b.next_id \in Nat \ {0}, Consecutive(b.events),
           b.events # <<>> => b.events[Len(b.events)].id = b.next_id - 1,
           ~Overtaken(b, id)
    PROVE  LET got == After(b, id) IN
           /\ got \in Seq(Events)
           /\ got # <<>> => /\ Consecutive(got)
                            /\ got[Len(got)].id = b.next_id - 1
                            /\ id # 0 => got[1].id = id + 1
           /\ got = <<>> /\ b.events # <<>> => b.next_id - 1 <= id
<1> DEFINE old == {i \in DOMAIN b.events : b.events[i].id <= id}
           got == After(b, id)
<1>1. PICK n \in Nat :
          n = Len(b.events) /\ DOMAIN b.events = 1..n /\ (b.events = <<>> <=> n = 0)
  BY LenProperties, EmptySeq
<1>2. CASE b.events = <<>>
  <2>1. old = {}
    BY <1>1, <1>2
  <2>2. Cardinality(old) = 0
    BY <2>1, FS_EmptySet
  <2>3. got = Without(b.events, 0)
    BY <2>2 DEF After
  <2>4. got \in Seq(Events) /\ Len(got) = 0
    <3>1. 0 \in 0..Len(b.events) /\ Len(b.events) - 0 = 0
      BY <1>1, <1>2
    <3> HIDE DEF got
    <3>. QED  BY <2>3, <3>1, WithoutFacts
  <2>5. got = <<>>
    BY <2>4, EmptySeq
  <2>. QED  BY <1>2, <2>4, <2>5
<1>3. CASE b.events # <<>>
  <2>1. PICK first \in Nat \ {0} : first = b.events[1].id
    <3>1. b.events[1] \in Events
      BY <1>1, <1>3, ElementOfSeq
    <3>. QED  BY <3>1 DEF Events
  <2>2. \A i \in 1..n : b.events[i].id = first + (i - 1)
    BY <1>1, <2>1 DEF Consecutive
  <2>3. n >= 1 /\ first + (n - 1) = b.next_id - 1
    BY <1>1, <1>3, <2>2
  <2>4. id = 0 \/ first <= id + 1
    <3>1. Head(b.events) = b.events[1]
      OBVIOUS
    <3>. QED  BY <1>3, <2>1, <3>1 DEF Overtaken
  <2>5. PICK k \in 0..n : /\ \A i \in 1..n : first + (i - 1) <= id <=> i <= k
                          /\ id # 0 /\ k < n => first + k = id + 1
                          /\ k = n => first + (n - 1) <= id
    <3>1. CASE id < first
      BY <2>3, <2>4, <3>1
    <3>2. CASE id >= first /\ id - first + 1 < n
      <4>1. PICK k \in 0..n : k = id - first + 1
        BY <3>2
      <4>2. \A i \in 1..n : first + (i - 1) <= id <=> i <= k
        BY <4>1
      <4>3. k < n /\ first + k = id + 1
        BY <3>2, <4>1
      <4>4. WITNESS k \in 0..n
      <4>. QED  BY <4>2, <4>3
    <3>3. CASE id >= first /\ id - first + 1 >= n
      BY <2>3, <3>3
    <3>. QED  BY <3>1, <3>2, <3>3
  <2>6. old = 1..k
    BY <1>1, <2>2, <2>5
  <2>7. Cardinality(old) = k
    <3>1. Cardinality(1..k) = IF 1 > k THEN 0 ELSE k - 1 + 1
      BY FS_Interval
    <3>2. Cardinality(1..k) = k
      BY <3>1
    <3> HIDE DEF old
    <3>. QED  BY <2>6, <3>2
  <2>8. got = Without(b.events, k)
    BY <2>7 DEF After
  <2> HIDE DEF got, old
  <2>9. /\ got \in Seq(Events) /\ Len(got) = n - k
        /\ \A i \in 1..(n - k) : got[i] = b.events[k + i]
    BY <1>1, <2>8, WithoutFacts
  <2>10. DOMAIN got = 1..(n - k) /\ (got = <<>> <=> n - k = 0)
    BY <2>9, LenProperties, EmptySeq
  <2>11. \A i \in 1..(n - k) : got[i].id = first + ((k + i) - 1)
    <3> SUFFICES ASSUME NEW i \in 1..(n - k) PROVE got[i].id = first + ((k + i) - 1)
      OBVIOUS
    <3>1. k + i \in 1..n
      OBVIOUS
    <3>. QED  BY <2>2, <2>9, <3>1
  <2>12. got # <<>> => /\ Consecutive(got)
                       /\ got[Len(got)].id = b.next_id - 1
                       /\ id # 0 => got[1].id = id + 1
    <3> SUFFICES ASSUME got # <<>>
                 PROVE  /\ Consecutive(got)
                        /\ got[Len(got)].id = b.next_id - 1
                        /\ id # 0 => got[1].id = id + 1
      OBVIOUS
    <3>1. n - k \in Nat \ {0} /\ k < n
      BY <2>10
    <3>2. got[1].id = first + k /\ got[n - k].id = first + (n - 1)
      <4>1. 1 \in 1..(n - k) /\ n - k \in 1..(n - k)
        BY <3>1
      <4>2. (k + 1) - 1 = k /\ (k + (n - k)) - 1 = n - 1
        OBVIOUS
      <4>3. got[1].id = first + ((k + 1) - 1) /\ got[n - k].id = first + ((k + (n - k)) - 1)
        BY <2>11, <4>1
      <4>. QED  BY <4>2, <4>3
    <3>3. Consecutive(got)
      <4>1. \A i \in 1..(n - k) : first + ((k + i) - 1) = (first + k) + (i - 1)
        OBVIOUS
      <4>. QED  BY <2>10, <2>11, <3>2, <4>1 DEF Consecutive
    <3>. QED  BY <2>3, <2>5, <2>9, <3>1, <3>2, <3>3
  <2>13. got = <<>> => b.next_id - 1 <= id
    BY <2>3, <2>5, <2>10
  <2>. QED  BY <2>9, <2>12, <2>13, <1>3 DEF got
<1>. QED  BY <1>2, <1>3

LEMMA InitInv == Init => IInv
<1> SUFFICES ASSUME Init PROVE IInv
  OBVIOUS
<1>1. /\ broker.events = <<>> /\ broker.next_id = 1 /\ broker.closed = FALSE
      /\ \A r \in Readers : batch[r] = <<>>
  BY DEF Init, NewBroker
<1>2. Types
  <2>1. <<>> \in Seq(Events) /\ Len(<<>>) = 0
    BY EmptySeq
  <2>2. Len(broker.events) <= MaxEvents
    BY <1>1, <2>1, BrokerAssumption
  <2>3. batch \in [Readers -> Seq(Events)]
    BY <2>1 DEF Init
  <2>4. /\ status \in [Readers -> {"away", "reading", "expired", "complete", "dropped"}]
        /\ cursor \in [Readers -> Nat] /\ ended \in BOOLEAN
    BY DEF Init
  <2>5. broker.events \in Seq(Events)
    BY <1>1, <2>1
  <2>6. broker.next_id \in Nat \ {0}
    BY <1>1
  <2>7. broker.closed \in BOOLEAN
    BY <1>1
  <2>. QED  BY <2>2, <2>3, <2>4, <2>5, <2>6, <2>7 DEF Types
<1>3. LogIsTail
  BY <1>1 DEF LogIsTail, Consecutive
<1>. QED  BY <1>1, <1>2, <1>3 DEF IInv, BatchesContinue, EndRetained, Init

\* Whoever publishes leaves the log an unbroken tail.
LEMMA PublishStep ==
    ASSUME IInv, NEW size \in Nat \ {0}, broker' = Published(broker, size), ~ended,
           ended' \in BOOLEAN, ended' => size = 1,
           UNCHANGED <<status, cursor, batch>>
    PROVE  IInv' /\ ~broker.closed /\ Latest(broker)' = Latest(broker) + 1
                 /\ broker'.closed = broker.closed
<1>1. /\ broker.events \in Seq(Events) /\ Len(broker.events) <= MaxEvents
      /\ broker.next_id \in Nat \ {0} /\ broker.closed \in BOOLEAN /\ ended \in BOOLEAN
  BY DEF IInv, Types
<1>2. /\ Consecutive(broker.events)
      /\ broker.events # <<>> => broker.events[Len(broker.events)].id = broker.next_id - 1
  BY DEF IInv, LogIsTail, Last, Latest
<1>3. /\ broker'.events \in Seq(Events) /\ Len(broker'.events) <= MaxEvents
      /\ broker'.next_id = broker.next_id + 1
      /\ broker'.closed = broker.closed
      /\ Consecutive(broker'.events)
      /\ broker'.events # <<>> => broker'.events[Len(broker'.events)].id = broker'.next_id - 1
      /\ size <= MaxBytes => broker'.events # <<>>
  BY <1>1, <1>2, PublishedFacts
<1>4. ~broker.closed
  BY DEF IInv, EndRetained
<1>5. Types'
  <2>1. broker'.closed \in BOOLEAN /\ ended' \in BOOLEAN /\ broker'.next_id \in Nat \ {0}
    BY <1>1, <1>3
  <2>. QED  BY <1>3, <2>1 DEF IInv, Types
<1>6. LogIsTail'
  BY <1>3 DEF LogIsTail, Last, Latest
<1>7. BatchesContinue'
  <2> SUFFICES ASSUME NEW r \in Readers, batch[r] # <<>>
               PROVE  /\ status[r] = "reading"
                      /\ Consecutive(batch[r])
                      /\ Last(batch[r]).id <= Latest(broker)'
                      /\ cursor[r] # 0 => Head(batch[r]).id = cursor[r] + 1
    BY DEF BatchesContinue
  <2>1. /\ batch[r] \in Seq(Events) /\ Len(batch[r]) \in 1..Len(batch[r])
    BY LenProperties, EmptySeq DEF IInv, Types
  <2>2. Last(batch[r]) \in Events
    BY <2>1, ElementOfSeq DEF Last
  <2>3. Last(batch[r]).id \in Nat
    BY <2>2 DEF Events
  <2>. QED  BY <1>1, <1>3, <2>3 DEF IInv, BatchesContinue, Latest
<1>8. EndRetained'
  BY <1>3, <1>4, BrokerAssumption DEF EndRetained
<1>. QED  BY <1>1, <1>3, <1>4, <1>5, <1>6, <1>7, <1>8 DEF IInv, Latest

\* A batch that is empty, or follows the cursor, keeps the invariant.
LEMMA ReaderStep ==
    ASSUME IInv, NEW r \in Readers, UNCHANGED <<broker, ended>>,
           Types',
           \A q \in Readers \ {r} :
               batch'[q] = batch[q] /\ cursor'[q] = cursor[q] /\ status'[q] = status[q],
           batch'[r] # <<>> => /\ status'[r] = "reading"
                               /\ Consecutive(batch'[r])
                               /\ Last(batch'[r]).id <= Latest(broker)
                               /\ cursor'[r] # 0 => Head(batch'[r]).id = cursor'[r] + 1
    PROVE  IInv'
<1>1. BatchesContinue'
  <2> SUFFICES ASSUME NEW q \in Readers, batch'[q] # <<>>
               PROVE  /\ status'[q] = "reading"
                      /\ Consecutive(batch'[q])
                      /\ Last(batch'[q]).id <= Latest(broker)
                      /\ cursor'[q] # 0 => Head(batch'[q]).id = cursor'[q] + 1
    BY DEF BatchesContinue, Latest
  <2>. QED  BY DEF IInv, BatchesContinue
<1>. QED  BY <1>1 DEF IInv, LogIsTail, EndRetained, Latest

\* What replay_after answers in a state that keeps the invariant.
LEMMA ReplayFacts ==
    ASSUME IInv, NEW id \in Nat
    PROVE  LET got == ReplayAfter(broker, id) IN
           /\ got.events \in Seq(Events) /\ got.expired \in BOOLEAN
           /\ got.closed = broker.closed
           /\ got.expired => id \in 1..(Latest(broker) - 1) /\ got.events = <<>>
           /\ got.events # <<>> => /\ Consecutive(got.events)
                                   /\ Last(got.events).id = Latest(broker)
                                   /\ id # 0 => Head(got.events).id = id + 1
           /\ ~got.expired /\ got.events = <<>> /\ broker.events # <<>> => Latest(broker) <= id
<1>1. /\ broker.events \in Seq(Events) /\ broker.next_id \in Nat \ {0}
      /\ Consecutive(broker.events)
      /\ broker.events # <<>> => broker.events[Len(broker.events)].id = broker.next_id - 1
  BY DEF IInv, Types, LogIsTail, Last, Latest
<1>2. /\ ReplayAfter(broker, id).expired = Overtaken(broker, id)
      /\ ReplayAfter(broker, id).closed = broker.closed
      /\ ReplayAfter(broker, id).events = IF Overtaken(broker, id) THEN <<>> ELSE After(broker, id)
  BY DEF ReplayAfter
<1>3. CASE ~Overtaken(broker, id)
  <2> DEFINE got == After(broker, id)
  <2>1. /\ got \in Seq(Events)
        /\ got # <<>> => /\ Consecutive(got)
                         /\ got[Len(got)].id = broker.next_id - 1
                         /\ id # 0 => got[1].id = id + 1
        /\ got = <<>> /\ broker.events # <<>> => broker.next_id - 1 <= id
    BY <1>1, <1>3, AfterFacts
  <2>2. ReplayAfter(broker, id).events = got
    BY <1>2, <1>3
  <2>3. Overtaken(broker, id) \in BOOLEAN
    BY DEF Overtaken
  <2>4. ReplayAfter(broker, id).expired = FALSE
    BY <1>2, <1>3, <2>3
  <2> HIDE DEF got
  <2>5. Last(got) = got[Len(got)] /\ Head(got) = got[1]
    BY <2>1 DEF Last
  <2>. QED  BY <1>2, <2>1, <2>2, <2>4, <2>5 DEF Latest
<1>4. CASE Overtaken(broker, id)
  <2>1. <<>> \in Seq(Events)
    BY EmptySeq
  <2>2. PICK n \in Nat \ {0} : n = Len(broker.events) /\ DOMAIN broker.events = 1..n
    BY <1>1, <1>4, LenProperties, EmptySeq DEF Overtaken
  <2>3. broker.events[1] \in Events
    BY <1>1, <2>2, ElementOfSeq
  <2>4. PICK first \in Nat \ {0} : first = broker.events[1].id
    BY <2>3 DEF Events
  <2>5. first + (n - 1) = broker.next_id - 1
    <3>1. n \in DOMAIN broker.events
      BY <2>2
    <3>2. broker.events[n].id = first + (n - 1)
      BY <1>1, <2>4, <3>1 DEF Consecutive
    <3>. QED  BY <1>1, <1>4, <2>2, <3>2 DEF Overtaken
  <2>6. Head(broker.events).id = first
    BY <2>4
  <2>7. id # 0 /\ id < first /\ first - id > 1
    BY <1>4, <2>6 DEF Overtaken
  <2>8. id \in 1..((broker.next_id - 1) - 1)
    BY <1>1, <2>5, <2>7
  <2>. QED  BY <1>2, <1>4, <2>1, <2>8 DEF Latest
<1>. QED  BY <1>3, <1>4

LEMMA ConnectStep ==
    ASSUME IInv, NEW r \in Readers, Connect(r)
    PROVE  IInv' /\ (Feed!Join(r) \/ Feed!Expire(r))
<1>1. PICK id \in Starts :
          /\ cursor' = [cursor EXCEPT ![r] = id]
          /\ status' = [status EXCEPT ![r] = IF ReplayAfter(broker, id).expired THEN "expired"
                                                                            ELSE "reading"]
  BY DEF Connect
<1>2. id \in Nat
  BY FeedAssumption
<1>3. UNCHANGED <<broker, ended, batch>> /\ status[r] = "away"
  BY DEF Connect
<1>4. PICK got : got = ReplayAfter(broker, id)
  OBVIOUS
<1>5. /\ got.events \in Seq(Events) /\ got.expired \in BOOLEAN
      /\ got.expired => id \in 1..(Latest(broker) - 1)
  BY <1>2, <1>4, ReplayFacts
<1>6. Types'
  BY <1>1, <1>2, <1>3, <1>5 DEF IInv, Types
<1>7. IInv'
  <2>1. batch[r] = <<>>
    BY <1>3 DEF IInv, BatchesContinue
  <2>2. \A q \in Readers \ {r} :
            batch'[q] = batch[q] /\ cursor'[q] = cursor[q] /\ status'[q] = status[q]
    BY <1>1, <1>3 DEF IInv, Types
  <2>. QED  BY <1>3, <1>6, <2>1, <2>2, ReaderStep
<1>8. /\ cursor'[r] = id
      /\ cursor' = [cursor EXCEPT ![r] = cursor'[r]]
  BY <1>1 DEF IInv, Types
<1>9. CASE got.expired
  <2>1. status' = [status EXCEPT ![r] = "expired"]
    BY <1>1, <1>4, <1>9
  <2>2. cursor'[r] \in 1..(Latest(broker) - 1)
    BY <1>1, <1>5, <1>8, <1>9
  <2>. QED  BY <1>3, <1>7, <1>8, <2>1, <2>2 DEF Feed!Expire, Latest
<1>10. CASE ~got.expired
  <2>1. status' = [status EXCEPT ![r] = "reading"]
    BY <1>1, <1>4, <1>10
  <2>2. cursor'[r] \in Nat
    BY <1>1, <1>2, <1>8
  <2>. QED  BY <1>3, <1>7, <1>8, <2>1, <2>2 DEF Feed!Join, Latest
<1>. QED  BY <1>7, <1>9, <1>10

LEMMA FetchStep ==
    ASSUME IInv, NEW r \in Readers, Fetch(r)
    PROVE  IInv' /\ (Feed!Expire(r) \/ Feed!Finish(r) \/ UNCHANGED Feed!vars)
<1>1. PICK got : got = ReplayAfter(broker, cursor[r])
  OBVIOUS
<1>2. /\ status[r] = "reading" /\ batch[r] = <<>>
      /\ batch' = [batch EXCEPT ![r] = got.events]
      /\ status' = [status EXCEPT ![r] =
                        IF got.expired THEN "expired"
                        ELSE IF got.closed /\ got.events = <<>> THEN "complete" ELSE @]
      /\ UNCHANGED <<broker, ended, cursor>>
  BY <1>1 DEF Fetch
<1>3. /\ cursor \in [Readers -> Nat] /\ status \in [Readers -> Feed!Statuses]
      /\ batch \in [Readers -> Seq(Events)]
  BY DEF IInv, Types, Feed!Statuses
<1>4. cursor[r] \in Nat
  BY <1>3
<1>5. /\ got.events \in Seq(Events) /\ got.expired \in BOOLEAN
      /\ got.closed = broker.closed
      /\ got.expired => cursor[r] \in 1..(Latest(broker) - 1) /\ got.events = <<>>
      /\ got.events # <<>> => /\ Consecutive(got.events)
                              /\ Last(got.events).id = Latest(broker)
                              /\ cursor[r] # 0 => Head(got.events).id = cursor[r] + 1
      /\ ~got.expired /\ got.events = <<>> /\ broker.events # <<>> => Latest(broker) <= cursor[r]
  BY <1>1, <1>4, ReplayFacts
<1>6. batch'[r] = got.events /\ batch' \in [Readers -> Seq(Events)]
  BY <1>2, <1>3, <1>5
<1>7. Types'
  BY <1>2, <1>6 DEF IInv, Types
<1>8. IInv'
  <2>1. \A q \in Readers \ {r} :
            batch'[q] = batch[q] /\ cursor'[q] = cursor[q] /\ status'[q] = status[q]
    BY <1>2, <1>3
  <2>2. got.events # <<>> => status'[r] = "reading"
    BY <1>2, <1>3, <1>5
  <2>3. Latest(broker) \in Nat
    BY DEF IInv, Types, Latest
  <2>4. got.events # <<>> => Last(got.events).id <= Latest(broker)
    BY <1>5, <2>3
  <2>. QED  BY <1>2, <1>5, <1>6, <1>7, <2>1, <2>2, <2>4, ReaderStep
<1>9. CASE got.expired
  <2>1. cursor' = cursor /\ cursor = [cursor EXCEPT ![r] = cursor[r]]
    BY <1>2, <1>3
  <2>. QED  BY <1>2, <1>5, <1>8, <1>9, <2>1 DEF Feed!Expire
<1>10. CASE ~got.expired /\ got.closed /\ got.events = <<>>
  <2>1. broker.closed /\ broker.events # <<>>
    BY <1>5, <1>10 DEF IInv, EndRetained
  <2>2. cursor[r] >= Latest(broker)
    BY <1>4, <1>5, <1>10, <2>1 DEF IInv, Types, Latest
  <2>. QED  BY <1>2, <1>8, <1>10, <2>1, <2>2 DEF Feed!Finish
<1>11. CASE ~got.expired /\ ~(got.closed /\ got.events = <<>>)
  <2>1. status' = status
    BY <1>2, <1>3, <1>11
  <2>. QED  BY <1>2, <1>8, <2>1 DEF Feed!vars, Latest
<1>. QED  BY <1>9, <1>10, <1>11

LEMMA WriteStep ==
    ASSUME IInv, NEW r \in Readers, Write(r)
    PROVE  IInv' /\ Feed!Deliver(r)
<1>1. PICK s \in Seq(Events) : s = batch[r]
  BY DEF IInv, Types
<1>2. /\ status[r] = "reading" /\ s # <<>>
      /\ cursor' = [cursor EXCEPT ![r] = Head(s).id]
      /\ batch' = [batch EXCEPT ![r] = Tail(s)]
      /\ UNCHANGED <<broker, ended, status>>
  BY <1>1 DEF Write
<1>3. /\ Consecutive(s) /\ s[Len(s)].id <= Latest(broker)
      /\ cursor[r] # 0 => Head(s).id = cursor[r] + 1
  BY <1>1, <1>2 DEF IInv, BatchesContinue, Last
<1>4. PICK n \in Nat \ {0} : n = Len(s) /\ DOMAIN s = 1..n
  BY <1>2, LenProperties, EmptySeq
<1>5. PICK first \in Nat \ {0} : first = s[1].id /\ first = Head(s).id
  <2>1. s[1] \in Events /\ Head(s) = s[1]
    BY <1>4, ElementOfSeq
  <2>. QED  BY <2>1 DEF Events
<1>6. \A i \in 1..n : s[i].id = first + (i - 1)
  BY <1>3, <1>4, <1>5 DEF Consecutive
<1>7. /\ Tail(s) \in Seq(Events) /\ Len(Tail(s)) = n - 1
      /\ \A i \in 1..(n - 1) : Tail(s)[i] = s[i + 1]
  BY <1>2, <1>4, HeadTailProperties
<1>8. /\ cursor \in [Readers -> Nat] /\ batch \in [Readers -> Seq(Events)]
      /\ Latest(broker) \in Nat
  BY DEF IInv, Types, Latest
<1>9. cursor'[r] = first /\ batch'[r] = Tail(s)
  BY <1>2, <1>5, <1>8
<1>10. first + (n - 1) <= Latest(broker)
  BY <1>3, <1>4, <1>6
<1>11. Types'
  BY <1>2, <1>5, <1>7, <1>8 DEF IInv, Types
<1>12. Tail(s) # <<>> => /\ Consecutive(Tail(s))
                        /\ Last(Tail(s)).id <= Latest(broker)
                        /\ Head(Tail(s)).id = first + 1
  <2> DEFINE t == Tail(s)
  <2> SUFFICES ASSUME t # <<>>
               PROVE  Consecutive(t) /\ t[Len(t)].id <= Latest(broker) /\ t[1].id = first + 1
    BY DEF Last
  <2>1. DOMAIN t = 1..(n - 1) /\ n - 1 \in Nat \ {0}
    BY <1>4, <1>7, LenProperties, EmptySeq
  <2>2. \A i \in 1..(n - 1) : t[i].id = (first + 1) + (i - 1)
    <3> SUFFICES ASSUME NEW i \in 1..(n - 1) PROVE t[i].id = (first + 1) + (i - 1)
      OBVIOUS
    <3>1. i + 1 \in 1..n /\ first + ((i + 1) - 1) = (first + 1) + (i - 1)
      OBVIOUS
    <3>. QED  BY <1>6, <1>7, <3>1
  <2> HIDE DEF t
  <2>3. t[1].id = first + 1 /\ t[n - 1].id = (first + 1) + ((n - 1) - 1)
    <3>1. 1 \in 1..(n - 1) /\ n - 1 \in 1..(n - 1)
      BY <2>1
    <3>2. t[1].id = (first + 1) + (1 - 1)
      BY <2>2, <3>1
    <3>. QED  BY <2>2, <3>1, <3>2
  <2>. QED  BY <1>7, <1>10, <2>1, <2>2, <2>3 DEF Consecutive, t
<1>13. IInv'
  <2>1. \A q \in Readers \ {r} :
            batch'[q] = batch[q] /\ cursor'[q] = cursor[q] /\ status'[q] = status[q]
    BY <1>2, <1>8
  <2>. QED  BY <1>2, <1>9, <1>11, <1>12, <2>1, ReaderStep
<1>14. /\ first \in 1..Latest(broker)
       /\ first = cursor[r] + 1 \/ cursor[r] = 0
  BY <1>3, <1>5, <1>8, <1>10
<1>. QED  BY <1>2, <1>5, <1>13, <1>14 DEF Feed!Deliver, Latest

LEMMA SendFailsStep ==
    ASSUME IInv, NEW r \in Readers, SendFails(r)
    PROVE  IInv' /\ Feed!Drop(r)
<1>1. batch'[r] = <<>> /\ Types'
  BY EmptySeq DEF SendFails, IInv, Types
<1>2. \A q \in Readers \ {r} :
          batch'[q] = batch[q] /\ cursor'[q] = cursor[q] /\ status'[q] = status[q]
  BY DEF SendFails, IInv, Types
<1>3. IInv'
  BY <1>1, <1>2, ReaderStep DEF SendFails
<1>. QED  BY <1>3 DEF SendFails, Feed!Drop, Latest

LEMMA StepFacts ==
    ASSUME IInv, [Next]_vars
    PROVE  IInv' /\ [Feed!Next]_(Feed!vars)
<1>1. CASE PublishProgress
  <2>1. PICK size \in Sizes : broker' = Published(broker, size)
    BY <1>1 DEF PublishProgress
  <2>2. size \in Nat \ {0}
    BY FeedAssumption
  <2>3. IInv' /\ ~broker.closed /\ Latest(broker)' = Latest(broker) + 1
        /\ broker'.closed = broker.closed
    <3>1. ended' \in BOOLEAN /\ ~ended'
      BY <1>1 DEF PublishProgress, IInv, Types
    <3>. QED  BY <1>1, <2>1, <2>2, <3>1, PublishStep DEF PublishProgress
  <2>. QED  BY <1>1, <2>3 DEF PublishProgress, Feed!Next, Feed!Publish
<1>2. CASE PublishTerminal
  <2>1. IInv' /\ ~broker.closed /\ Latest(broker)' = Latest(broker) + 1
        /\ broker'.closed = broker.closed
    <3>1. 1 \in Nat \ {0} /\ ended' \in BOOLEAN
      BY <1>2 DEF PublishTerminal
    <3>. QED  BY <1>2, <3>1, PublishStep DEF PublishTerminal
  <2>. QED  BY <1>2, <2>1 DEF PublishTerminal, Feed!Next, Feed!Publish
<1>3. CASE CloseEvents
  <2>1. /\ broker'.events = broker.events /\ broker'.next_id = broker.next_id
        /\ broker'.closed = TRUE
    BY <1>3 DEF CloseEvents, Closed
  <2>2. IInv'
    BY <1>3, <2>1 DEF CloseEvents, IInv, Types, LogIsTail, BatchesContinue, EndRetained, Latest
  <2>. QED  BY <1>3, <2>1, <2>2 DEF CloseEvents, Feed!Next, Feed!Close, Latest
<1>4. ASSUME NEW r \in Readers, Connect(r) \/ Fetch(r) \/ Write(r) \/ SendFails(r)
      PROVE  IInv' /\ [Feed!Next]_(Feed!vars)
  BY <1>4, ConnectStep, FetchStep, WriteStep, SendFailsStep DEF Feed!Next
<1>5. CASE UNCHANGED vars
  BY <1>5 DEF vars, IInv, Types, LogIsTail, BatchesContinue, EndRetained, Latest, Feed!vars
<1>. QED  BY <1>1, <1>2, <1>3, <1>4, <1>5 DEF Next

\* The account of the bytes and its bound.
BytesInv == broker.bytes = SizeOf(broker.events) /\ broker.bytes <= MaxBytes

\* Only publish changes the log, and it keeps the account.
LEMMA BytesStep ==
    ASSUME IInv, BytesInv, [Next]_vars
    PROVE  BytesInv'
<1>1. ASSUME NEW size \in Nat \ {0}, broker' = Published(broker, size)
      PROVE  BytesInv'
  <2>1. /\ broker.events \in Seq(Events) /\ broker.next_id \in Nat \ {0}
        /\ broker.bytes = SizeOf(broker.events)
    BY DEF IInv, Types, BytesInv
  <2>2. /\ Published(broker, size).bytes = SizeOf(Published(broker, size).events)
        /\ Published(broker, size).bytes <= MaxBytes
    BY <2>1, PublishedBytes
  <2>. QED  BY <1>1, <2>2 DEF BytesInv
<1>2. CASE PublishProgress
  BY <1>1, <1>2, FeedAssumption DEF PublishProgress
<1>3. CASE PublishTerminal
  BY <1>1, <1>3 DEF PublishTerminal
<1>4. CASE CloseEvents
  BY <1>4 DEF CloseEvents, Closed, BytesInv
<1>5. ASSUME NEW r \in Readers, Connect(r) \/ Fetch(r) \/ Write(r) \/ SendFails(r)
      PROVE  BytesInv'
  BY <1>5 DEF Connect, Fetch, Write, SendFails, BytesInv
<1>6. CASE UNCHANGED vars
  BY <1>6 DEF vars, BytesInv
<1>. QED  BY <1>2, <1>3, <1>4, <1>5, <1>6 DEF Next

\* The inductive invariant: an unbroken log, and batches that continue the
\* cursors of their readers.
THEOREM Invariance == Spec => []IInv
<1>1. IInv /\ [Next]_vars => IInv'
  BY StepFacts
<1>. QED  BY InitInv, <1>1, PTL DEF Spec

\* The account of the bytes is right in every state.
LEMMA BytesAccount == Spec => []BytesInv
<1>1. Init => BytesInv
  <2>1. SizeOf(<<>>) = 0
    BY EmptySeq, SizeType
  <2>. QED  BY <2>1, BrokerAssumption DEF Init, NewBroker, BytesInv
<1>2. IInv /\ BytesInv /\ [Next]_vars => BytesInv'
  BY BytesStep
<1>. QED  BY <1>1, <1>2, Invariance, PTL DEF Spec

\* The types, and the bounds of the log: its bytes are always counted right,
\* whatever publish has evicted or cleared.
THEOREM TypeCorrect == Spec => []TypeOK
<1>1. IInv /\ BytesInv => TypeOK
  BY DEF IInv, BytesInv, TypeOK
<1>. QED  BY <1>1, BytesAccount, Invariance, PTL

\* publish evicts no event it has room for.
THEOREM EvictionIsTight == Spec => EvictsOnlyForRoom
<1>. DEFINE Tight ==
         LET gone == Len(broker.events) + 1 - Len(broker'.events) IN
         broker'.next_id # broker.next_id /\ broker'.events # <<>> /\ gone > 0 =>
             \/ Len(broker'.events) + 1 > MaxEvents
             \/ broker'.bytes + broker.events[gone].size > MaxBytes
<1>1. ASSUME IInv, BytesInv, [Next]_vars
      PROVE  [Tight]_vars
  <2>1. ASSUME NEW size \in Nat \ {0}, broker' = Published(broker, size)
        PROVE  Tight
    <3>1. /\ broker.events \in Seq(Events) /\ broker.next_id \in Nat \ {0}
          /\ broker.bytes = SizeOf(broker.events)
      BY <1>1 DEF IInv, Types, BytesInv
    <3>2. CASE size <= MaxBytes
      BY <2>1, <3>1, <3>2, PublishedEvicts
    <3>3. CASE ~(size <= MaxBytes)
      <4>1. broker'.events = <<>>
        BY <2>1, <3>3 DEF Published, Oversized
      <4>. QED  BY <4>1
    <3>. QED  BY <3>2, <3>3
  <2>2. broker'.next_id = broker.next_id => Tight
    OBVIOUS
  <2>. HIDE DEF Tight
  <2>3. CASE PublishProgress
    BY <2>1, <2>3, FeedAssumption DEF PublishProgress
  <2>4. CASE PublishTerminal
    BY <2>1, <2>4 DEF PublishTerminal
  <2>5. CASE CloseEvents
    BY <2>2, <2>5 DEF CloseEvents, Closed
  <2>6. ASSUME NEW r \in Readers, Connect(r) \/ Fetch(r) \/ Write(r) \/ SendFails(r)
        PROVE  Tight
    BY <2>2, <2>6 DEF Connect, Fetch, Write, SendFails
  <2>. QED  BY <1>1, <2>3, <2>4, <2>5, <2>6 DEF Next
<1>2. IInv /\ BytesInv /\ [Next]_vars => [Tight]_vars
  BY <1>1
<1>3. Spec => []BytesInv
  BY BytesAccount
<1>. QED  BY <1>2, <1>3, Invariance, PTL DEF Spec, EvictsOnlyForRoom

\* The log is always the unbroken tail of what was published.
THEOREM LogUnbroken == Spec => []LogIsTail
<1>1. IInv => LogIsTail
  BY DEF IInv
<1>. QED  BY <1>1, Invariance, PTL

\* The stream of a job is an ordered feed without silent gaps.
THEOREM Refinement == Spec => ImplementsFeed
<1>1. Init => Feed!Init
  BY DEF Init, NewBroker, Latest, Feed!Init
<1>2. IInv /\ [Next]_vars => [Feed!Next]_(Feed!vars)
  BY StepFacts
<1>. QED  BY <1>1, <1>2, Invariance, PTL DEF Spec, ImplementsFeed, Feed!Spec

=============================================================================
