---------------------------- MODULE TimersProofs ----------------------------
(***************************************************************************)
(* The timer list, for any number of timers, all intervals and callbacks   *)
(* that take as long as they like.                                         *)
(***************************************************************************)
EXTENDS Timers, WellFoundedInduction, TLAPS

\* The list of timers q is sorted by the times nx.
Sorted(q, nx) == \A i, j \in DOMAIN q : i < j => nx[q[i]] <= nx[q[j]]

\* Where the loop is, and which lists are in use then.
Phases ==
  /\ cache <=> pc = "boot"
  /\ pc = "boot" => list = <<>> /\ known = {}
  /\ pc # "boot" => waitlist = <<>>
  /\ running # None <=> pc \in {"callback", "returned"}

\* A live timer has one place, and no other timer has one.
Placed ==
  /\ IsInjective(list) /\ IsInjective(waitlist)
  /\ Range(list) \cap Range(waitlist) = {}
  /\ running \notin Range(list) \cup Range(waitlist)
  /\ \A t \in Timers : life[t] = "live" <=> t \in Range(list) \cup Range(waitlist) \cup {running}

\* What a timer's flags and its background_timer tell.
ToldOf(t) ==
  /\ arg[t] <=> bg[t] = "live"
  /\ bg[t] = "unborn" <=> life[t] = "unborn"
  /\ life[t] = "unborn" => fired[t] = 0 /\ flags[t] = {}
  /\ life[t] = "freed" => ~arg[t]
  /\ bg[t] \in {"canceled", "deleted"} => "oneshot" \in flags[t] /\ fired[t] > 0
  /\ "inplace" \in flags[t] => t \in Range(list)
  /\ t \in Range(list) /\ "inplace" \notin flags[t] => fired[t] > 0
  /\ t \in known => fired[t] > 0 /\ "inplace" \notin flags[t]
  /\ running = t => fired[t] > 0
  /\ bg[t] = "live" /\ "oneshot" \in flags[t] /\ running # t => fired[t] = 0
  /\ pc = "returned" /\ running = t /\ "oneshot" \in flags[t] => ~arg[t]

\* What all of them tell.
Told == \A t \in Timers : ToldOf(t)

\* The inductive invariant: the list is sorted, every live timer has one place.
Inv == TypeOK /\ nextrun \in [Timers -> Int] /\ Sorted(list, nextrun) /\ Phases /\ Placed /\ Told

-----------------------------------------------------------------------------
(* Sorting a timer in *)

\* A nonempty set of natural numbers has a least element.
LEMMA Least ==
  ASSUME NEW T \in SUBSET Nat, T # {}
  PROVE  \E m \in T : \A n \in T : m <= n
<1>1. PICK m \in T : \A n \in T : ~(<<n, m>> \in OpToRel(<, Nat))
  BY WFMin, NatLessThanWellFounded, Zenon
<1>2. m \in Nat /\ \A n \in T : n \in Nat /\ ~(n < m)
  BY <1>1, Zenon DEF OpToRel
<1>3. \A n \in T : m <= n
  BY <1>2
<1> QED
  BY <1>3, Zenon

\* Induction over 0 .. n.
LEMMA Upto ==
  ASSUME NEW n \in Nat, NEW T, 0 \in T,
         \A i \in 0 .. n - 1 : i \in T => i + 1 \in T
  PROVE  \A i \in 0 .. n : i \in T
<1> DEFINE U == {i \in 0 .. n : i \notin T}
<1>1. SUFFICES ASSUME U # {} PROVE FALSE
  BY Zenon
<1>2. U \in SUBSET Nat
  OBVIOUS
<1> HIDE DEF U
<1>3. PICK m \in U : \A k \in U : m <= k
  BY <1>1, <1>2, Least, Zenon
<1>4. m \in 0 .. n /\ m \notin T
  BY Zenon DEF U
<1>5. m - 1 \in 0 .. n - 1
  BY <1>4
<1>6. m - 1 \in T
  BY <1>3, <1>5 DEF U
<1> QED
  BY <1>4, <1>5, <1>6

\* s is q with t at position k, before the first timer that is later.
InsertedAt(s, q, nx, t, k) ==
  /\ k \in 1 .. Len(q) + 1
  /\ Len(s) = Len(q) + 1
  /\ \A i \in 1 .. Len(s) : s[i] = IF i < k THEN q[i] ELSE IF i = k THEN t ELSE q[i - 1]
  /\ \A i \in 1 .. k - 1 : nx[q[i]] <= nx[t]
  /\ k <= Len(q) => nx[t] < nx[q[k]]

\* The loops that sort a timer in find that place.
LEMMA InsertPlace ==
  ASSUME NEW q \in Seq(Timers), NEW nx \in [Timers -> Int], NEW t \in Timers
  PROVE  /\ Insert(q, nx, t) \in Seq(Timers)
         /\ \E k \in Nat : InsertedAt(Insert(q, nx, t), q, nx, t, k)
<1>1. PICK I : I = {i \in 1 .. Len(q) : nx[q[i]] > nx[t]}
  BY Zenon
<1>2. PICK later : later = IF I # {} THEN Min(I) ELSE 0
  BY Zenon
<1>3. later = Search(q, LAMBDA u : nx[u] > nx[t])
  BY <1>1, <1>2, Zenon DEF Search
<1>4. Insert(q, nx, t) = IF later = 0 THEN Append(q, t) ELSE InsertBefore(q, later, t)
  BY <1>3, Zenon DEF Insert
<1>5. Len(q) \in Nat /\ \A i \in 1 .. Len(q) : q[i] \in Timers /\ nx[q[i]] \in Int
  OBVIOUS
<1>6. nx[t] \in Int
  BY Zenon
<1>7. CASE I = {}
  <2>1. Insert(q, nx, t) = Append(q, t)
    BY <1>2, <1>4, <1>7, Zenon
  <2>2. \A i \in 1 .. Len(q) : nx[q[i]] <= nx[t]
    BY <1>1, <1>5, <1>6, <1>7
  <2>3. Append(q, t) \in Seq(Timers) /\ Len(Append(q, t)) = Len(q) + 1
    OBVIOUS
  <2>4. \A i \in 1 .. Len(q) + 1 : Append(q, t)[i] = IF i < Len(q) + 1 THEN q[i] ELSE t
    OBVIOUS
  <2>5. InsertedAt(Append(q, t), q, nx, t, Len(q) + 1)
    BY <1>5, <2>2, <2>3, <2>4 DEF InsertedAt
  <2> QED
    BY <1>5, <2>1, <2>3, <2>5
<1>8. CASE I # {}
  <2>1. I \in SUBSET Nat
    BY <1>1
  <2>2. \E m \in I : \A n \in I : m <= n
    BY <1>8, <2>1, Least, Zenon
  <2>3. later = Min(I)
    BY <1>2, <1>8, Zenon
  <2>4. later \in I /\ \A n \in I : later <= n
    BY <2>2, <2>3, Zenon DEF Min
  <2>5. later \in 1 .. Len(q) /\ nx[t] < nx[q[later]]
    BY <1>1, <1>5, <1>6, <2>4, Zenon
  <2>6. \A i \in 1 .. later - 1 : nx[q[i]] <= nx[t]
    <3>1. ASSUME NEW i \in 1 .. later - 1 PROVE nx[q[i]] <= nx[t]
      <4>1. i \in 1 .. Len(q) /\ ~(later <= i)
        BY <1>5, <2>5
      <4>2. i \notin I
        BY <2>4, <4>1, Zenon
      <4>3. ~(nx[q[i]] > nx[t]) /\ nx[q[i]] \in Int
        BY <1>1, <1>5, <4>1, <4>2, Zenon
      <4> QED
        BY <1>6, <4>3
    <3> QED
      BY <3>1, Zenon
  <2>7. PICK s : s = SubSeq(q, 1, later - 1) \o <<t>> \o SubSeq(q, later, Len(q))
    BY Zenon
  <2>8. Insert(q, nx, t) = s
    <3>1. later # 0
      BY <2>5
    <3>2. InsertBefore(q, later, t) = s
      BY <2>7, Zenon DEF InsertBefore
    <3> QED
      BY <1>4, <3>1, <3>2, Zenon
  <2>9. PICK a : a = SubSeq(q, 1, later - 1)
    BY Zenon
  <2>10. PICK c : c = SubSeq(q, later, Len(q))
    BY Zenon
  <2>11. a \in Seq(Timers) /\ Len(a) = later - 1 /\ \A i \in 1 .. later - 1 : a[i] = q[i]
    BY <1>5, <2>5, <2>9
  <2>12. c \in Seq(Timers) /\ Len(c) = Len(q) - later + 1 /\ \A i \in 1 .. Len(c) : c[i] = q[later + i - 1]
    BY <1>5, <2>5, <2>10
  <2>13. PICK b : b = a \o <<t>>
    BY Zenon
  <2>14. b \in Seq(Timers) /\ Len(b) = later /\ (\A i \in 1 .. later - 1 : b[i] = q[i]) /\ b[later] = t
    <3>1. later - 1 \in Nat /\ <<t>> \in Seq(Timers) /\ Len(<<t>>) = 1 /\ (<<t>>)[1] = t
      BY <2>5
    <3>2. b \in Seq(Timers) /\ Len(b) = Len(a) + 1
      BY <2>11, <2>13, <3>1
    <3>3. (\A i \in 1 .. Len(a) : b[i] = a[i]) /\ b[Len(a) + 1] = t
      BY <2>11, <2>13, <3>1
    <3>4. later - 1 + 1 = later
      BY <2>5
    <3> QED
      BY <2>11, <3>2, <3>3, <3>4, Zenon
  <2>15. s = b \o c
    BY <2>7, <2>9, <2>10, <2>13, Zenon
  <2>16. s \in Seq(Timers) /\ Len(s) = Len(q) + 1
    <3>1. s \in Seq(Timers) /\ Len(s) = Len(b) + Len(c)
      BY <2>12, <2>14, <2>15
    <3>2. later + (Len(q) - later + 1) = Len(q) + 1
      BY <1>5, <2>5
    <3> QED
      BY <2>12, <2>14, <3>1, <3>2, Zenon
  <2>17. ASSUME NEW i \in 1 .. Len(s)
         PROVE  s[i] = IF i < later THEN q[i] ELSE IF i = later THEN t ELSE q[i - 1]
    <3>1. CASE i <= later
      <4>1. s[i] = b[i]
        BY <2>5, <2>12, <2>14, <2>15, <3>1
      <4> QED
        BY <2>5, <2>14, <3>1, <4>1
    <3>2. CASE i > later
      <4>1. i - later \in 1 .. Len(c)
        BY <1>5, <2>5, <2>12, <2>16, <3>2
      <4>2. s[i] = c[i - later]
        <5>0. b \in Seq(Timers) /\ c \in Seq(Timers)
          BY <2>12, <2>14, Zenon
        <5>1. \A j \in 1 .. Len(c) : (b \o c)[Len(b) + j] = c[j]
          BY <5>0, SMTT(30)
        <5>2. later + (i - later) = i
          BY <2>5
        <5> QED
          BY <2>14, <2>15, <4>1, <5>1, <5>2, Zenon
      <4>3. later + (i - later) - 1 = i - 1
        BY <2>5
      <4> QED
        BY <2>5, <2>12, <3>2, <4>1, <4>2, <4>3
    <3> QED
      BY <2>5, <3>1, <3>2
  <2>18. InsertedAt(s, q, nx, t, later)
    BY <2>5, <2>6, <2>16, <2>17 DEF InsertedAt
  <2> QED
    BY <2>5, <2>8, <2>16, <2>18
<1> QED
  BY <1>7, <1>8, Zenon

\* A timer that is sorted in is on the list once, the others stay there, and the list
\* stays sorted.
LEMMA InsertSorts ==
  ASSUME NEW q \in Seq(Timers), NEW nx \in [Timers -> Int], NEW t \in Timers, t \notin Range(q),
         IsInjective(q), Sorted(q, nx)
  PROVE  /\ Insert(q, nx, t) \in Seq(Timers)
         /\ Range(Insert(q, nx, t)) = Range(q) \cup {t}
         /\ IsInjective(Insert(q, nx, t))
         /\ Sorted(Insert(q, nx, t), nx)
<1>1. PICK s : s = Insert(q, nx, t)
  BY Zenon
<1>2. s \in Seq(Timers)
  BY <1>1, InsertPlace, Zenon
<1>3. PICK k \in Nat : InsertedAt(s, q, nx, t, k)
  BY <1>1, InsertPlace, Zenon
<1>4. /\ k \in 1 .. Len(q) + 1 /\ Len(s) = Len(q) + 1 /\ Len(q) \in Nat
      /\ \A i \in 1 .. Len(s) : s[i] = IF i < k THEN q[i] ELSE IF i = k THEN t ELSE q[i - 1]
      /\ \A i \in 1 .. k - 1 : nx[q[i]] <= nx[t]
      /\ k <= Len(q) => nx[t] < nx[q[k]]
  BY <1>3 DEF InsertedAt
<1>5. DOMAIN q = 1 .. Len(q) /\ DOMAIN s = 1 .. Len(s)
  BY <1>2
<1>6. \A i, j \in 1 .. Len(q) : (q[i] = q[j] => i = j) /\ (i < j => nx[q[i]] <= nx[q[j]])
  BY <1>5, Zenon DEF IsInjective, Sorted
<1>7. \A i \in 1 .. Len(q) : q[i] # t /\ q[i] \in Timers
  BY <1>5 DEF Range
<1>8. Range(s) = Range(q) \cup {t}
  <2>1. ASSUME NEW i \in 1 .. Len(s) PROVE s[i] \in Range(q) \cup {t}
    <3>1. i < k => i \in 1 .. Len(q)
      BY <1>4
    <3>2. i > k => i - 1 \in 1 .. Len(q)
      BY <1>4
    <3>3. CASE i < k
      BY <1>4, <1>5, <3>1, <3>3, Zenon DEF Range
    <3>4. CASE i = k
      BY <1>4, <3>4
    <3>5. CASE i > k
      <4>1. s[i] = q[i - 1]
        BY <1>4, <3>5
      <4> QED
        BY <1>5, <3>2, <3>5, <4>1, Zenon DEF Range
    <3> QED
      BY <1>4, <3>3, <3>4, <3>5
  <2>2. ASSUME NEW i \in 1 .. Len(q) PROVE \E j \in 1 .. Len(s) : s[j] = q[i]
    <3>1. CASE i < k
      <4>1. i \in 1 .. Len(s)
        BY <1>4
      <4> QED
        BY <1>4, <3>1, <4>1, Zenon
    <3>2. CASE ~(i < k)
      <4>1. i + 1 \in 1 .. Len(s) /\ ~(i + 1 < k) /\ i + 1 # k /\ (i + 1) - 1 = i
        BY <1>4, <3>2
      <4> QED
        BY <1>4, <4>1, Zenon
    <3> QED
      BY <3>1, <3>2, Zenon
  <2>3. k \in 1 .. Len(s) /\ s[k] = t
    BY <1>4
  <2> QED
    BY <1>5, <2>1, <2>2, <2>3, Zenon DEF Range
<1>9. ASSUME NEW i \in 1 .. Len(s), NEW j \in 1 .. Len(s), i < j
      PROVE  s[i] # s[j] /\ nx[s[i]] <= nx[s[j]]
  <2>1. CASE j < k
    <3>1. i \in 1 .. Len(q) /\ j \in 1 .. Len(q) /\ s[i] = q[i] /\ s[j] = q[j]
      BY <1>4, <1>9, <2>1
    <3> QED
      BY <1>6, <1>9, <3>1
  <2>2. CASE j = k
    <3>1. i \in 1 .. Len(q) /\ i \in 1 .. k - 1 /\ s[i] = q[i] /\ s[j] = t
      BY <1>4, <1>9, <2>2
    <3> QED
      BY <1>4, <1>7, <3>1, Zenon
  <2>3. CASE j > k /\ i < k
    <3>1. i \in 1 .. Len(q) /\ j - 1 \in 1 .. Len(q) /\ s[i] = q[i] /\ s[j] = q[j - 1] /\ i < j - 1
      BY <1>4, <1>9, <2>3
    <3> QED
      BY <1>6, <3>1, SMTT(30)
  <2>4. CASE j > k /\ i = k
    <3>1. j - 1 \in 1 .. Len(q) /\ s[j] = q[j - 1] /\ s[i] = t /\ k \in 1 .. Len(q) /\ k <= j - 1
      BY <1>4, <1>9, <2>4
    <3>2. nx[t] < nx[q[k]] /\ nx[q[k]] <= nx[q[j - 1]]
      <4>1. nx[t] < nx[q[k]]
        BY <1>4, <3>1
      <4>2. q[k] \in Timers /\ nx[q[k]] \in Int
        BY <1>7, <3>1, Zenon
      <4>3. CASE k = j - 1
        BY <4>1, <4>2, <4>3
      <4>4. CASE k < j - 1
        BY <1>6, <3>1, <4>1, <4>4, Zenon
      <4> QED
        BY <3>1, <4>3, <4>4
    <3>3. nx[t] \in Int /\ nx[q[k]] \in Int /\ nx[q[j - 1]] \in Int
      BY <1>7, <3>1, Zenon
    <3> QED
      BY <1>7, <3>1, <3>2, <3>3
  <2>5. CASE j > k /\ i > k
    <3>1. i - 1 \in 1 .. Len(q) /\ j - 1 \in 1 .. Len(q) /\ s[i] = q[i - 1] /\ s[j] = q[j - 1] /\ i - 1 < j - 1
      BY <1>4, <1>9, <2>5
    <3>2. q[i - 1] # q[j - 1]
      <4>1. i - 1 # j - 1
        BY <3>1
      <4> QED
        BY <1>6, <3>1, <4>1, Zenon
    <3>3. nx[q[i - 1]] <= nx[q[j - 1]]
      BY <1>6, <3>1, Zenon
    <3> QED
      BY <3>1, <3>2, <3>3, Zenon
  <2> QED
    BY <1>4, <2>1, <2>2, <2>3, <2>4, <2>5
<1>10. IsInjective(s)
  <2>1. ASSUME NEW i \in 1 .. Len(s), NEW j \in 1 .. Len(s), s[i] = s[j] PROVE i = j
    <3>1. i < j \/ j < i \/ i = j
      OBVIOUS
    <3> QED
      BY <1>9, <2>1, <3>1, Zenon
  <2> QED
    BY <1>5, <2>1, Zenon DEF IsInjective
<1>11. Sorted(s, nx)
  BY <1>5, <1>9, Zenon DEF Sorted
<1> QED
  BY <1>1, <1>2, <1>8, <1>10, <1>11, Zenon

\* The timers of the waitlist are sorted in one after the other.
LEMMA FlushedStep ==
  ASSUME NEW q \in Seq(Timers), NEW nx \in [Timers -> Int]
  PROVE  \E g \in [0 .. Len(q) -> Seq(Timers)] :
           /\ Flushed(q, nx) = g[Len(q)] /\ g[0] = <<>>
           /\ \A k \in 1 .. Len(q) : g[k] = Insert(g[k - 1], nx, q[k])
<1> DEFINE Built(g, n) == /\ g \in [0 .. n -> Seq(Timers)]
                          /\ g[0] = <<>>
                          /\ \A k \in 1 .. n : g[k] = Insert(g[k - 1], nx, q[k])
           T == {n \in 0 .. Len(q) : \E g : Built(g, n)}
<1>0. Len(q) \in Nat
  OBVIOUS
<1>1. 0 \in T
  <2>1. Built([k \in 0 .. 0 |-> <<>>], 0)
    OBVIOUS
  <2> HIDE DEF Built
  <2> QED
    BY <2>1
<1>2. ASSUME NEW n \in 0 .. Len(q) - 1, n \in T PROVE n + 1 \in T
  <2>1. PICK g : Built(g, n)
    BY <1>2, Zenon
  <2>2. PICK r : r = Insert(g[n], nx, q[n + 1])
    BY Zenon
  <2> DEFINE h == [k \in 0 .. n + 1 |-> IF k = n + 1 THEN r ELSE g[k]]
  <2>3. r \in Seq(Timers)
    <3>1. g[n] \in Seq(Timers) /\ q[n + 1] \in Timers
      BY <2>1
    <3> QED
      BY <2>2, <3>1, InsertPlace, Zenon
  <2>4. h \in [0 .. n + 1 -> Seq(Timers)]
    BY <2>1, <2>3
  <2>5. h[0] = <<>>
    BY <2>1
  <2>6. ASSUME NEW k \in 1 .. n + 1 PROVE h[k] = Insert(h[k - 1], nx, q[k])
    <3>1. CASE k = n + 1
      <4>1. h[k] = r /\ h[k - 1] = g[n]
        BY <3>1
      <4> QED
        BY <2>2, <3>1, <4>1, Zenon
    <3>2. CASE k # n + 1
      <4>1. k \in 1 .. n /\ k - 1 \in 0 .. n /\ k - 1 # n + 1
        BY <3>2
      <4>2. h[k] = g[k] /\ h[k - 1] = g[k - 1]
        BY <3>2, <4>1
      <4> QED
        BY <2>1, <4>1, <4>2, Zenon
    <3> QED
      BY <3>1, <3>2, Zenon
  <2> HIDE DEF h
  <2>7. Built(h, n + 1)
    BY <2>4, <2>5, <2>6, Zenon
  <2> HIDE DEF Built
  <2> QED
    BY <2>7
<1>3. PICK g : Built(g, Len(q))
  <2> HIDE DEF Built
  <2>1. \A i \in 0 .. Len(q) : i \in T
    <3> HIDE DEF T
    <3> QED
      BY <1>0, <1>1, <1>2, Upto, Zenon
  <2>2. Len(q) \in T
    BY <1>0, <2>1
  <2> QED
    BY <2>2, Zenon
<1> DEFINE F(e) == [k \in 0 .. Len(q) |-> IF k = 0 THEN <<>> ELSE Insert(e[k - 1], nx, q[k])]
           E == CHOOSE e : e = F(e)
<1>4. g = F(g)
  BY <1>3
<1>5. Flushed(q, nx) = E[Len(q)]
  BY Zenon DEF Flushed
<1>6. E = F(E)
  <2> HIDE DEF F
  <2> QED
    BY <1>4, Zenon
<1> HIDE DEF E
<1>7. E[0] = <<>> /\ \A k \in 1 .. Len(q) : E[k] = Insert(E[k - 1], nx, q[k])
  <2>1. \A k \in 0 .. Len(q) : F(E)[k] = IF k = 0 THEN <<>> ELSE Insert(E[k - 1], nx, q[k])
    BY Zenon
  <2>2. 0 \in 0 .. Len(q) /\ \A k \in 1 .. Len(q) : k \in 0 .. Len(q) /\ k # 0
    BY <1>0
  <2> HIDE DEF F
  <2> QED
    BY <1>6, <2>1, <2>2, Zenon
<1>8. \A k \in 0 .. Len(q) : E[k] \in Seq(Timers)
  <2> DEFINE V == {k \in 0 .. Len(q) : E[k] \in Seq(Timers)}
  <2>0. <<>> \in Seq(Timers) /\ 0 \in 0 .. Len(q)
    BY <1>0
  <2>1. 0 \in V
    BY <1>7, <2>0, Zenon
  <2>2. ASSUME NEW k \in 0 .. Len(q) - 1, k \in V PROVE k + 1 \in V
    <3>1. q[k + 1] \in Timers /\ k + 1 \in 1 .. Len(q) /\ k + 1 \in 0 .. Len(q) /\ (k + 1) - 1 = k
      OBVIOUS
    <3>2. E[k + 1] = Insert(E[k], nx, q[k + 1])
      BY <1>7, <3>1, Zenon
    <3>3. E[k] \in Seq(Timers)
      BY <2>2, Zenon
    <3>4. E[k + 1] \in Seq(Timers)
      BY <3>1, <3>2, <3>3, InsertPlace, Zenon
    <3> QED
      BY <3>1, <3>4, Zenon
  <2>3. \A k \in 0 .. Len(q) : k \in V
    <3> HIDE DEF V
    <3> QED
      BY <1>0, <2>1, <2>2, Upto, Zenon
  <2> QED
    BY <2>3, Zenon
<1>9. E \in [0 .. Len(q) -> Seq(Timers)]
  <2>1. F(E) = [k \in 0 .. Len(q) |-> F(E)[k]]
    BY Zenon
  <2> HIDE DEF F
  <2> QED
    BY <1>6, <1>8, <2>1, Zenon
<1> QED
  BY <1>5, <1>7, <1>9, Zenon

\* After BgTimerManager::flush the timers of the waitlist are on the list, each once and
\* sorted.
LEMMA FlushedSorts ==
  ASSUME NEW q \in Seq(Timers), NEW nx \in [Timers -> Int], IsInjective(q)
  PROVE  /\ Flushed(q, nx) \in Seq(Timers)
         /\ Range(Flushed(q, nx)) = Range(q)
         /\ IsInjective(Flushed(q, nx))
         /\ Sorted(Flushed(q, nx), nx)
<1>1. PICK g \in [0 .. Len(q) -> Seq(Timers)] :
           /\ Flushed(q, nx) = g[Len(q)] /\ g[0] = <<>>
           /\ \A k \in 1 .. Len(q) : g[k] = Insert(g[k - 1], nx, q[k])
  BY FlushedStep, Zenon
<1> DEFINE Part(k) == {q[i] : i \in 1 .. k}
           V == {k \in 0 .. Len(q) : Range(g[k]) = Part(k) /\ IsInjective(g[k]) /\ Sorted(g[k], nx)}
<1>2. Len(q) \in Nat /\ DOMAIN q = 1 .. Len(q)
  OBVIOUS
<1>3. 0 \in V
  <2>1. Part(0) = {} /\ 0 \in 0 .. Len(q)
    BY <1>2
  <2>2. Range(<<>>) = {} /\ IsInjective(<<>>) /\ Sorted(<<>>, nx)
    BY DEF Range, IsInjective, Sorted
  <2> QED
    BY <1>1, <2>1, <2>2, Zenon
<1>4. ASSUME NEW k \in 0 .. Len(q) - 1, k \in V PROVE k + 1 \in V
  <2>1. q[k + 1] \in Timers /\ k + 1 \in 1 .. Len(q) /\ (k + 1) - 1 = k /\ k \in 0 .. Len(q)
    BY <1>2
  <2>2. g[k + 1] = Insert(g[k], nx, q[k + 1]) /\ g[k] \in Seq(Timers)
    BY <1>1, <2>1, Zenon
  <2>3. Range(g[k]) = Part(k) /\ IsInjective(g[k]) /\ Sorted(g[k], nx)
    BY <1>4, Zenon
  <2>4. q[k + 1] \notin Part(k)
    <3>1. \A i \in 1 .. k : i \in 1 .. Len(q) /\ i # k + 1
      BY <1>2
    <3> QED
      BY <1>2, <2>1, <3>1, Zenon DEF IsInjective
  <2>5. Part(k + 1) = Part(k) \cup {q[k + 1]}
    <3>1. 1 .. k + 1 = (1 .. k) \cup {k + 1}
      BY <2>1
    <3> QED
      BY <3>1, Zenon
  <2> HIDE DEF Part
  <2>6. Range(g[k + 1]) = Part(k + 1) /\ IsInjective(g[k + 1]) /\ Sorted(g[k + 1], nx)
    <3>1. PICK a \in Seq(Timers) : a = g[k]
      BY <2>2, Zenon
    <3>2. PICK t \in Timers : t = q[k + 1]
      BY <2>1, Zenon
    <3>3. t \notin Range(a) /\ IsInjective(a) /\ Sorted(a, nx)
      BY <2>3, <2>4, <3>1, <3>2, Zenon
    <3>4. /\ Range(Insert(a, nx, t)) = Range(a) \cup {t}
          /\ IsInjective(Insert(a, nx, t)) /\ Sorted(Insert(a, nx, t), nx)
      BY <3>3, InsertSorts, Zenon
    <3>5. g[k + 1] = Insert(a, nx, t)
      BY <2>2, <3>1, <3>2, Zenon
    <3>6. Range(a) \cup {t} = Part(k + 1)
      BY <2>3, <2>5, <3>1, <3>2, Zenon
    <3> QED
      BY <3>4, <3>5, <3>6, Zenon
  <2> QED
    BY <1>2, <2>1, <2>6
<1>5. Len(q) \in V
  <2> HIDE DEF V
  <2>1. \A k \in 0 .. Len(q) : k \in V
    BY <1>2, <1>3, <1>4, Upto, Zenon
  <2> QED
    BY <1>2, <2>1
<1>6. Part(Len(q)) = Range(q)
  BY <1>2, Zenon DEF Range
<1>7. g[Len(q)] \in Seq(Timers)
  BY <1>1, <1>2
<1> QED
  BY <1>1, <1>5, <1>6, <1>7, Zenon

\* A timer put at the tail of the waitlist.
LEMMA AppendSet ==
  ASSUME NEW q \in Seq(Timers), NEW t \in Timers, t \notin Range(q), IsInjective(q)
  PROVE  /\ Append(q, t) \in Seq(Timers) /\ Range(Append(q, t)) = Range(q) \cup {t}
         /\ IsInjective(Append(q, t))
<1>1. PICK s : s = Append(q, t)
  BY Zenon
<1>2. /\ s \in Seq(Timers) /\ Len(s) = Len(q) + 1 /\ Len(q) \in Nat /\ DOMAIN q = 1 .. Len(q)
      /\ DOMAIN s = 1 .. Len(q) + 1
  BY <1>1
<1>3. (\A i \in 1 .. Len(q) : s[i] = q[i]) /\ s[Len(q) + 1] = t
  BY <1>1
<1>4. 1 .. Len(q) + 1 = (1 .. Len(q)) \cup {Len(q) + 1}
  BY <1>2
<1>5. \A i \in 1 .. Len(q) : q[i] # t
  BY <1>2, Zenon DEF Range
<1>6. Range(s) = Range(q) \cup {t}
  BY <1>2, <1>3, <1>4 DEF Range
<1>7. IsInjective(s)
  BY <1>2, <1>3, <1>4, <1>5 DEF IsInjective
<1> QED
  BY <1>1, <1>2, <1>6, <1>7, Zenon

\* The first timer leaves the list.
LEMMA TailSet ==
  ASSUME NEW q \in Seq(Timers), q # <<>>, IsInjective(q), NEW nx, Sorted(q, nx)
  PROVE  /\ Head(q) \in Timers /\ Head(q) \in Range(q) /\ Tail(q) \in Seq(Timers)
         /\ Range(Tail(q)) = Range(q) \ {Head(q)}
         /\ IsInjective(Tail(q)) /\ Sorted(Tail(q), nx)
<1>1. PICK s : s = Tail(q)
  BY Zenon
<1>2. /\ s \in Seq(Timers) /\ Len(s) = Len(q) - 1 /\ Len(q) \in Nat \ {0} /\ DOMAIN q = 1 .. Len(q)
      /\ DOMAIN s = 1 .. Len(q) - 1 /\ Head(q) = q[1]
  BY <1>1
<1>3. \A i \in 1 .. Len(q) - 1 : s[i] = q[i + 1]
  BY <1>1, <1>2
<1>4. \A i \in 1 .. Len(q) - 1 : i + 1 \in 1 .. Len(q) /\ i + 1 # 1
  BY <1>2
<1>5. 1 \in 1 .. Len(q)
  BY <1>2
<1>6. \A i \in 1 .. Len(q) : i # 1 => i - 1 \in 1 .. Len(q) - 1 /\ (i - 1) + 1 = i
  BY <1>2
<1>7. \A i, j \in 1 .. Len(q) : q[i] = q[j] => i = j
  BY <1>2, Zenon DEF IsInjective
<1>8. Range(s) = Range(q) \ {Head(q)}
  <2>1. ASSUME NEW i \in 1 .. Len(q) - 1 PROVE s[i] \in Range(q) /\ s[i] # Head(q)
    BY <1>2, <1>3, <1>4, <1>5, <1>7 DEF Range
  <2>2. ASSUME NEW i \in 1 .. Len(q), q[i] # Head(q) PROVE \E j \in 1 .. Len(q) - 1 : s[j] = q[i]
    <3>1. i # 1
      BY <1>2, <2>2, Zenon
    <3> QED
      BY <1>3, <1>6, <3>1, Zenon
  <2>3. Range(s) = {s[i] : i \in 1 .. Len(q) - 1} /\ Range(q) = {q[i] : i \in 1 .. Len(q)}
    BY <1>2, Zenon DEF Range
  <2> QED
    BY <2>1, <2>2, <2>3, SMTT(30)
<1>9. IsInjective(s)
  <2>1. ASSUME NEW i \in 1 .. Len(q) - 1, NEW j \in 1 .. Len(q) - 1, s[i] = s[j] PROVE i = j
    <3>1. i + 1 = j + 1
      BY <1>3, <1>4, <1>7, <2>1, Zenon
    <3> QED
      BY <3>1
  <2> QED
    BY <1>2, <2>1, Zenon DEF IsInjective
<1>10. Sorted(s, nx)
  <2>1. ASSUME NEW i \in 1 .. Len(q) - 1, NEW j \in 1 .. Len(q) - 1, i < j PROVE nx[s[i]] <= nx[s[j]]
    <3>1. i + 1 < j + 1
      BY <2>1
    <3> QED
      BY <1>2, <1>3, <1>4, <3>1, ZenonT(60) DEF Sorted
  <2> QED
    BY <1>2, <2>1, Zenon DEF Sorted
<1>11. Head(q) \in Timers /\ Head(q) \in Range(q)
  BY <1>2, <1>5 DEF Range
<1> QED
  BY <1>1, <1>2, <1>8, <1>9, <1>10, <1>11, Zenon

-----------------------------------------------------------------------------
(* The steps *)

\* BgTimerManager::schedule
LEMMA ScheduleKeeps ==
  ASSUME Inv, NEW t \in Timers, NEW i \in Intervals, NEW o \in BOOLEAN, schedule(t, i, o)
  PROVE  Inv'
<1>1. /\ life[t] = "unborn" /\ life' = [life EXCEPT ![t] = "live"] /\ pc' = pc /\ running' = running
      /\ interval' = [interval EXCEPT ![t] = i] /\ nextrun' = [nextrun EXCEPT ![t] = i]
      /\ bg' = [bg EXCEPT ![t] = "live"] /\ arg' = [arg EXCEPT ![t] = TRUE]
      /\ flags' = [flags EXCEPT ![t] = (IF o THEN {"oneshot"} ELSE {}) \cup (IF cache THEN {} ELSE {"inplace"})]
      /\ cache' = cache /\ known' = known /\ fired' = fired /\ late' = late
  BY Zenon DEF schedule
<1>2. i \in Nat /\ i \in Int /\ MaxLate \in Nat
  BY TimersAssumption
<1>3. t \notin Range(list) \cup Range(waitlist) \cup {running}
  BY <1>1, Zenon DEF Inv, Placed
<1>4. list \in Seq(Timers) /\ waitlist \in Seq(Timers) /\ IsInjective(list) /\ IsInjective(waitlist)
  BY Zenon DEF Inv, TypeOK, Placed
<1>5. nextrun' \in [Timers -> Int] /\ \A u \in Timers : nextrun'[u] = IF u = t THEN i ELSE nextrun[u]
  BY <1>1, <1>2, Zenon DEF Inv
<1>6. Sorted(list, nextrun')
  BY <1>3, <1>5 DEF Inv, Sorted, Range, TypeOK
<1>7. \/ /\ cache /\ list' = list /\ waitlist' = Append(waitlist, t)
         /\ flags' = [flags EXCEPT ![t] = IF o THEN {"oneshot"} ELSE {}]
      \/ /\ ~cache /\ waitlist' = waitlist /\ list' = Insert(list, nextrun', t)
         /\ flags' = [flags EXCEPT ![t] = (IF o THEN {"oneshot"} ELSE {}) \cup {"inplace"}]
  BY <1>1, Zenon DEF schedule
<1>8. /\ list' \in Seq(Timers) /\ waitlist' \in Seq(Timers) /\ IsInjective(list') /\ IsInjective(waitlist')
      /\ Sorted(list', nextrun')
      /\ \/ cache /\ list' = list /\ Range(waitlist') = Range(waitlist) \cup {t}
         \/ ~cache /\ Range(list') = Range(list) \cup {t} /\ waitlist' = waitlist
  <2>1. CASE cache
    BY <1>3, <1>4, <1>6, <1>7, <2>1, AppendSet, ZenonT(60)
  <2>2. CASE ~cache
    BY <1>3, <1>4, <1>5, <1>6, <1>7, <2>2, InsertSorts
  <2> QED
    BY <2>1, <2>2, Zenon
<1>9. TypeOK'
  <2>1. \A u \in Timers : \E j \in Intervals \cup {0} : nextrun'[u] \in -MaxLate .. j
    <3>1. \A u \in Timers : \E j \in Intervals \cup {0} : nextrun[u] \in -MaxLate .. j
      BY Zenon DEF Inv, TypeOK
    <3>2. i \in Intervals \cup {0} /\ i \in -MaxLate .. i
      BY <1>2
    <3> QED
      BY <1>5, <3>1, <3>2, Zenon
  <2>2. flags' \in [Timers -> SUBSET {"oneshot", "inplace"}]
    <3>1. flags \in [Timers -> SUBSET {"oneshot", "inplace"}]
      BY Zenon DEF Inv, TypeOK
    <3>2. PICK f \in SUBSET {"oneshot", "inplace"} : flags' = [flags EXCEPT ![t] = f]
      BY <1>1, Zenon
    <3> QED
      BY <3>1, <3>2, Zenon
  <2> QED
    BY <1>1, <1>8, <2>1, <2>2, Zenon DEF Inv, TypeOK
<1>10. Phases'
  BY <1>1, <1>7, Zenon DEF Inv, Phases
<1>11. Placed'
  BY <1>1, <1>3, <1>8 DEF Inv, Placed, TypeOK
<1>12. Told'
  <2> SUFFICES ASSUME NEW u \in Timers PROVE ToldOf(u)'
    BY Zenon DEF Told
  <2>1. ToldOf(u)
    BY Zenon DEF Inv, Told
  <2>2. CASE u # t
    <3>1. /\ arg'[u] = arg[u] /\ bg'[u] = bg[u] /\ life'[u] = life[u] /\ flags'[u] = flags[u]
          /\ (u \in Range(list') <=> u \in Range(list))
      BY <1>1, <1>8, <2>2, Zenon DEF Inv, TypeOK
    <3> QED
      BY <1>1, <2>1, <3>1, Zenon DEF ToldOf
  <2>3. CASE u = t
    <3>1. arg'[t] = TRUE /\ bg'[t] = "live" /\ life'[t] = "live"
      BY <1>1, Zenon DEF Inv, TypeOK
    <3>2. fired[t] = 0 /\ t \notin known
      BY <1>1, <2>1, <2>3 DEF ToldOf
    <3>3. "inplace" \in flags'[t] <=> t \in Range(list')
      <4>1. flags \in [Timers -> SUBSET {"oneshot", "inplace"}]
        BY Zenon DEF Inv, TypeOK
      <4>2. CASE cache
        BY <1>3, <1>7, <1>8, <4>1, <4>2
      <4>3. CASE ~cache
        BY <1>7, <1>8, <4>1, <4>3, Zenon
      <4> QED
        BY <4>2, <4>3, Zenon
    <3> QED
      BY <1>1, <1>3, <2>3, <3>1, <3>2, <3>3, Zenon DEF ToldOf
  <2> QED
    BY <2>2, <2>3, Zenon
<1> QED
  BY <1>5, <1>8, <1>9, <1>10, <1>11, <1>12, Zenon DEF Inv

\* BgTimerManager::flush
LEMMA FlushKeeps ==
  ASSUME Inv, flush
  PROVE  Inv'
<1>1. /\ pc = "boot" /\ cache' = FALSE /\ waitlist' = <<>> /\ pc' = "loop"
      /\ nextrun' = [t \in Timers |-> interval[t]]
      /\ flags' = [t \in Timers |-> IF t \in Range(waitlist) THEN flags[t] \cup {"inplace"} ELSE flags[t]]
      /\ list' = Flushed(waitlist, nextrun')
      /\ UNCHANGED <<life, interval, bg, arg, known, fired, running, late>>
  BY Zenon DEF flush
<1>2. /\ list = <<>> /\ running = None /\ waitlist \in Seq(Timers) /\ IsInjective(waitlist)
      /\ interval \in [Timers -> Intervals \cup {0}]
  BY <1>1, Zenon DEF Inv, Phases, Placed, TypeOK
<1>3. \A i \in Intervals \cup {0} : i \in Int /\ i >= 0
  BY TimersAssumption
<1>4. nextrun' \in [Timers -> Int]
  BY <1>1, <1>2, <1>3, Zenon
<1>5. /\ list' \in Seq(Timers) /\ Range(list') = Range(waitlist) /\ IsInjective(list') /\ Sorted(list', nextrun')
  BY <1>1, <1>2, <1>4, FlushedSorts, Zenon
<1>6. Range(list) = {} /\ Range(waitlist') = {} /\ IsInjective(waitlist') /\ waitlist' \in Seq(Timers)
  BY <1>1, <1>2 DEF Range, IsInjective
<1>8. TypeOK'
  <2>1. ASSUME NEW t \in Timers PROVE \E i \in Intervals \cup {0} : nextrun'[t] \in -MaxLate .. i
    <3>1. nextrun'[t] = interval[t] /\ interval[t] \in Intervals \cup {0}
      BY <1>1, <1>2, Zenon
    <3>2. interval[t] \in -MaxLate .. interval[t]
      <4>1. interval[t] \in Int /\ interval[t] >= 0
        BY <1>3, <3>1, Zenon
      <4>2. MaxLate \in Nat
        BY TimersAssumption, Zenon
      <4> QED
        BY <4>1, <4>2
    <3> QED
      BY <3>1, <3>2, Zenon
  <2>2. flags' \in [Timers -> SUBSET {"oneshot", "inplace"}]
    BY <1>1, Zenon DEF Inv, TypeOK
  <2> QED
    BY <1>1, <1>5, <1>6, <2>1, <2>2, Zenon DEF Inv, TypeOK
<1>9. Phases'
  BY <1>1, <1>2, Zenon DEF Inv, Phases
<1>10. Placed'
  BY <1>1, <1>5, <1>6, Zenon DEF Inv, Placed
<1>11. Told'
  <2> SUFFICES ASSUME NEW t \in Timers PROVE ToldOf(t)'
    BY Zenon DEF Told
  <2>1. ToldOf(t)
    BY Zenon DEF Inv, Told
  <2>2. flags'[t] = IF t \in Range(waitlist) THEN flags[t] \cup {"inplace"} ELSE flags[t]
    BY <1>1, Zenon
  <2>3. life[t] = "unborn" => t \notin Range(waitlist)
    BY Zenon DEF Inv, Placed
  <2>4. "inplace" \notin flags[t]
    BY <1>6, <2>1, Zenon DEF ToldOf
  <2>5. t \notin known
    BY <1>1, Zenon DEF Inv, Phases
  <2> QED
    BY <1>1, <1>2, <1>5, <2>1, <2>2, <2>3, <2>4, <2>5, Zenon DEF ToldOf
<1> QED
  BY <1>4, <1>5, <1>8, <1>9, <1>10, <1>11, Zenon DEF Inv

\* background_timer::cancel.  A timerid reaches the application from the handler, and the
\* flag INPLACE is not set any more then.
LEMMA CancelKeeps ==
  ASSUME Inv, NEW t \in Timers, cancel(t)
  PROVE  Inv'
<1>1. /\ t \in known /\ bg[t] = "live" /\ ToldOf(t)
  BY Zenon DEF cancel, Inv, Told
<1>2. "inplace" \notin flags[t] /\ fired[t] > 0
  BY <1>1, Zenon DEF ToldOf
<1>3. /\ bg' = [bg EXCEPT ![t] = "canceled"] /\ arg' = [arg EXCEPT ![t] = FALSE]
      /\ flags' = [flags EXCEPT ![t] = @ \cup {"oneshot"}]
      /\ UNCHANGED <<list, life, waitlist, cache, interval, nextrun, known, fired, running, pc, late>>
      /\ pc # "returned"
  BY <1>2, Zenon DEF cancel, App
<1>4. TypeOK'
  <2>1. flags' \in [Timers -> SUBSET {"oneshot", "inplace"}]
    BY <1>3, Zenon DEF Inv, TypeOK
  <2> QED
    BY <1>3, <2>1, Zenon DEF Inv, TypeOK
<1>5. Told'
  <2> SUFFICES ASSUME NEW u \in Timers PROVE ToldOf(u)'
    BY Zenon DEF Told
  <2>1. ToldOf(u)
    BY Zenon DEF Inv, Told
  <2>2. CASE u # t
    <3>1. arg'[u] = arg[u] /\ bg'[u] = bg[u] /\ flags'[u] = flags[u]
      BY <1>3, <2>2, Zenon DEF Inv, TypeOK
    <3> QED
      BY <1>3, <2>1, <3>1, Zenon DEF ToldOf
  <2>3. CASE u = t
    <3>1. arg'[t] = FALSE /\ bg'[t] = "canceled" /\ flags'[t] = flags[t] \cup {"oneshot"}
      BY <1>3, Zenon DEF Inv, TypeOK
    <3> QED
      BY <1>1, <1>2, <1>3, <2>1, <2>3, <3>1 DEF ToldOf
  <2> QED
    BY <2>2, <2>3, Zenon
<1> QED
  BY <1>3, <1>4, <1>5, Zenon DEF Inv, Phases, Placed

\* kore_timer_run is called, and returns.
LEMMA RoundKeeps ==
  ASSUME Inv, RunBegin \/ RunEnd
  PROVE  Inv'
<1>1. /\ pc \in {"loop", "run"} /\ pc' \in {"loop", "run"} /\ late' = 0
      /\ UNCHANGED <<list, waitlist, cache, life, flags, interval, nextrun, bg, arg, known, fired, running>>
  BY Zenon DEF RunBegin, RunEnd, tvars
<1>2. TypeOK'
  <2>1. 0 \in 0 .. MaxLate
    BY TimersAssumption
  <2> QED
    BY <1>1, <2>1, Zenon DEF Inv, TypeOK
<1>3. Phases'
  BY <1>1, Zenon DEF Inv, Phases
<1>4. Told'
  BY <1>1, Zenon DEF Inv, Told, ToldOf
<1> QED
  BY <1>1, <1>2, <1>3, <1>4, Zenon DEF Inv, Placed

\* The first timer's callback.
LEMMA CallbackKeeps ==
  ASSUME Inv, Callback
  PROVE  Inv'
<1>1. PICK t : t = Head(list)
  BY Zenon
<1>2. /\ pc = "run" /\ list # <<>> /\ list' = Tail(list) /\ running' = t
      /\ flags' = [flags EXCEPT ![t] = @ \ {"inplace"}]
      /\ \/ /\ arg[t] /\ pc' = "callback" /\ known' = known \cup {t}
            /\ fired' = [fired EXCEPT ![t] = IF @ < 2 THEN @ + 1 ELSE @]
         \/ ~arg[t] /\ pc' = "returned" /\ UNCHANGED <<known, fired>>
      /\ UNCHANGED <<waitlist, cache, life, interval, nextrun, bg, arg, late>>
  BY <1>1, Zenon DEF Callback
<1>3. /\ list \in Seq(Timers) /\ IsInjective(list) /\ Sorted(list, nextrun)
  BY Zenon DEF Inv, TypeOK, Placed
<1>4. /\ t \in Timers /\ t \in Range(list) /\ list' \in Seq(Timers) /\ Range(list') = Range(list) \ {t}
      /\ IsInjective(list') /\ Sorted(list', nextrun)
  BY <1>1, <1>2, <1>3, TailSet, Zenon
<1>5. running = None /\ t # None /\ waitlist = <<>> /\ ToldOf(t) /\ life[t] = "live"
  BY <1>2, <1>4, TimersAssumption, Zenon DEF Inv, Phases, Told, Placed
<1>6. fired \in [Timers -> 0 .. 2] /\ flags \in [Timers -> SUBSET {"oneshot", "inplace"}]
  BY Zenon DEF Inv, TypeOK
<1>7. fired' \in [Timers -> 0 .. 2] /\ fired'[t] > 0 /\ \A u \in Timers : u # t => fired'[u] = fired[u]
  <2>1. fired[t] \in 0 .. 2
    BY <1>4, <1>6, Zenon
  <2>2. CASE arg[t]
    <3>1. PICK n : n = IF fired[t] < 2 THEN fired[t] + 1 ELSE fired[t]
      BY Zenon
    <3>2. n \in 0 .. 2 /\ n > 0
      BY <2>1, <3>1
    <3>3. fired' = [fired EXCEPT ![t] = n]
      BY <1>2, <2>2, <3>1, Zenon
    <3> QED
      BY <1>4, <1>6, <3>2, <3>3, Zenon
  <2>3. CASE ~arg[t]
    <3>1. fired[t] > 0
      BY <1>4, <1>5, <2>3, Zenon DEF ToldOf, Inv, TypeOK
    <3> QED
      BY <1>2, <1>6, <2>3, <3>1, Zenon
  <2> QED
    BY <2>2, <2>3, Zenon
<1>8. /\ flags' \in [Timers -> SUBSET {"oneshot", "inplace"}]
      /\ \A u \in Timers : flags'[u] = IF u = t THEN flags[t] \ {"inplace"} ELSE flags[u]
  BY <1>2, <1>4, <1>6, Zenon
<1>9. TypeOK'
  <2>1. pc' \in {"callback", "returned"} /\ known' \subseteq Timers
    BY <1>2, <1>4, Zenon DEF Inv, TypeOK
  <2> QED
    BY <1>2, <1>4, <1>7, <1>8, <2>1, Zenon DEF Inv, TypeOK
<1>10. Phases'
  BY <1>2, <1>5, Zenon DEF Inv, Phases
<1>11. Placed'
  <2>1. Range(waitlist') = Range(waitlist) /\ IsInjective(waitlist') /\ waitlist' = waitlist /\ life' = life
    BY <1>2, Zenon DEF Inv, Placed
  <2>2. Range(list) \cap Range(waitlist) = {}
    BY Zenon DEF Inv, Placed
  <2>3. \A u \in Timers : life[u] = "live" <=> u \in Range(list) \cup Range(waitlist) \cup {running}
    BY Zenon DEF Inv, Placed
  <2>4. \A u \in Timers : life'[u] = "live" <=> u \in Range(list') \cup Range(waitlist') \cup {running'}
    BY <1>2, <1>4, <1>5, <2>1, <2>3, TimersAssumption, Zenon
  <2>5. running' \notin Range(list') \cup Range(waitlist') /\ Range(list') \cap Range(waitlist') = {}
    BY <1>2, <1>4, <2>1, <2>2, Zenon
  <2> QED
    BY <1>4, <2>1, <2>4, <2>5, Zenon DEF Placed
<1>12. Told'
  <2> SUFFICES ASSUME NEW u \in Timers PROVE ToldOf(u)'
    BY Zenon DEF Told
  <2>1. ToldOf(u)
    BY Zenon DEF Inv, Told
  <2>2. CASE u # t
    <3>1. /\ fired'[u] = fired[u] /\ flags'[u] = flags[u] /\ (u \in known' <=> u \in known)
          /\ (u \in Range(list') <=> u \in Range(list)) /\ running # u /\ running' # u
      BY <1>2, <1>4, <1>5, <1>7, <1>8, <2>2, TimersAssumption, Zenon
    <3> QED
      BY <1>2, <2>1, <3>1, Zenon DEF ToldOf
  <2>3. CASE u = t
    <3>1. fired'[t] > 0 /\ flags'[t] = flags[t] \ {"inplace"} /\ t \notin Range(list')
      BY <1>4, <1>7, <1>8, Zenon
    <3>2. pc' = "returned" => ~arg[t]
      BY <1>2, Zenon
    <3> QED
      BY <1>2, <1>5, <2>1, <2>3, <3>1, <3>2, Zenon DEF ToldOf
  <2> QED
    BY <2>2, <2>3, Zenon
<1> QED
  BY <1>2, <1>4, <1>9, <1>10, <1>11, <1>12, Zenon DEF Inv

\* handle_timeout after the handler.
LEMMA ReturnKeeps ==
  ASSUME Inv, HandlerReturns
  PROVE  Inv'
<1>1. PICK t : t = running
  BY Zenon
<1>2. /\ pc = "callback" /\ pc' = "returned"
      /\ \/ /\ "oneshot" \in flags[t] \/ bg[t] = "canceled"
            /\ bg' = [bg EXCEPT ![t] = "deleted"] /\ arg' = [arg EXCEPT ![t] = FALSE]
            /\ flags' = [flags EXCEPT ![t] = @ \cup {"oneshot"}] /\ known' = known \ {t}
         \/ /\ "oneshot" \notin flags[t] /\ UNCHANGED <<bg, arg, flags, known>>
      /\ UNCHANGED <<list, waitlist, cache, life, interval, nextrun, fired, running, late>>
  BY <1>1, Zenon DEF HandlerReturns
<1>3. t \in Timers /\ ToldOf(t) /\ life[t] = "live"
  <2>1. t \in Timers
    BY <1>1, <1>2, Zenon DEF Inv, Phases, TypeOK
  <2> QED
    BY <1>1, <2>1, Zenon DEF Inv, Told, Placed
<1>4. TypeOK'
  <2>0. flags \in [Timers -> SUBSET {"oneshot", "inplace"}]
    BY Zenon DEF Inv, TypeOK
  <2>1. flags' \in [Timers -> SUBSET {"oneshot", "inplace"}]
    <3>1. flags' = flags \/ flags' = [flags EXCEPT ![t] = @ \cup {"oneshot"}]
      BY <1>2, Zenon
    <3> QED
      BY <1>3, <2>0, <3>1, Zenon
  <2>2. bg' \in [Timers -> {"unborn", "live", "canceled", "deleted"}]
    BY <1>2, Zenon DEF Inv, TypeOK
  <2>3. arg' \in [Timers -> BOOLEAN] /\ known' \subseteq Timers
    BY <1>2, Zenon DEF Inv, TypeOK
  <2>4. pc' \in {"boot", "loop", "run", "callback", "returned"}
    BY <1>2, Zenon
  <2> QED
    BY <1>2, <2>1, <2>2, <2>3, <2>4, Zenon DEF Inv, TypeOK
<1>5. Told'
  <2> SUFFICES ASSUME NEW u \in Timers PROVE ToldOf(u)'
    BY Zenon DEF Told
  <2>1. ToldOf(u)
    BY Zenon DEF Inv, Told
  <2>2. CASE u # t
    <3>1. arg'[u] = arg[u] /\ bg'[u] = bg[u] /\ flags'[u] = flags[u] /\ (u \in known' <=> u \in known)
      BY <1>2, <2>2, Zenon DEF Inv, TypeOK
    <3> QED
      BY <1>1, <1>2, <2>1, <2>2, <3>1, Zenon DEF ToldOf
  <2>3. CASE u = t /\ "oneshot" \notin flags[t]
    <3>1. UNCHANGED <<bg, arg, flags, known>>
      BY <1>2, <1>3, <2>3, Zenon DEF ToldOf
    <3> QED
      BY <1>2, <2>1, <2>3, <3>1, Zenon DEF ToldOf
  <2>4. CASE u = t /\ "oneshot" \in flags[t]
    <3>1. arg'[t] = FALSE /\ bg'[t] = "deleted" /\ flags'[t] = flags[t] \cup {"oneshot"} /\ t \notin known'
      BY <1>2, <1>3, <2>4, Zenon DEF Inv, TypeOK
    <3> QED
      BY <1>1, <1>2, <1>3, <2>1, <2>4, <3>1, Zenon DEF ToldOf
  <2> QED
    BY <2>2, <2>3, <2>4, Zenon
<1>6. Phases'
  BY <1>2, Zenon DEF Inv, Phases
<1> QED
  BY <1>2, <1>4, <1>5, <1>6, Zenon DEF Inv, Placed

\* kore_timer_run after the callback.
LEMMA ReinsertKeeps ==
  ASSUME Inv, Reinsert
  PROVE  Inv'
<1>1. PICK t : t = running
  BY Zenon
<1>2. /\ pc = "returned" /\ pc' = "run" /\ running' = None
      /\ \/ /\ "oneshot" \in flags[t] /\ life' = [life EXCEPT ![t] = "freed"] /\ UNCHANGED <<list, nextrun>>
         \/ /\ "oneshot" \notin flags[t] /\ nextrun' = [nextrun EXCEPT ![t] = interval[t] - late]
            /\ list' = Insert(list, nextrun', t) /\ UNCHANGED life
      /\ UNCHANGED <<waitlist, cache, flags, interval, bg, arg, known, fired, late>>
  BY <1>1, Zenon DEF Reinsert
<1>3. t \in Timers /\ t # None
  BY <1>1, <1>2, TimersAssumption, Zenon DEF Inv, Phases, TypeOK
<1>4. /\ ToldOf(t) /\ life[t] = "live" /\ waitlist = <<>> /\ t \notin Range(list) \cup Range(waitlist)
      /\ fired[t] > 0
  BY <1>1, <1>2, <1>3, Zenon DEF Inv, Told, ToldOf, Placed, Phases
<1>5. /\ list \in Seq(Timers) /\ IsInjective(list) /\ Sorted(list, nextrun)
      /\ nextrun \in [Timers -> Int]
  BY Zenon DEF Inv, TypeOK, Placed
<1>6. CASE "oneshot" \in flags[t]
  <2>1. life' = [life EXCEPT ![t] = "freed"] /\ UNCHANGED <<list, nextrun>>
    BY <1>2, <1>6, Zenon
  <2>2. TypeOK'
    BY <1>2, <2>1, Zenon DEF Inv, TypeOK
  <2>3. Phases'
    BY <1>2, <1>4, <2>1, Zenon DEF Inv, Phases
  <2>4. Placed'
    <3>1. \A u \in Timers : life[u] = "live" <=> u \in Range(list) \cup Range(waitlist) \cup {t}
      BY <1>1, Zenon DEF Inv, Placed
    <3>2. Range(list) \cap Range(waitlist) = {} /\ IsInjective(list) /\ IsInjective(waitlist)
      BY Zenon DEF Inv, Placed
    <3>3. Range(waitlist') = Range(waitlist) /\ waitlist' = waitlist
      BY <1>2, Zenon
    <3>4. None \notin Range(list) \cup Range(waitlist)
      BY <1>4, <1>5, TimersAssumption DEF Range
    <3>5. \A u \in Timers : life'[u] = IF u = t THEN "freed" ELSE life[u]
      BY <1>3, <2>1, Zenon DEF Inv, TypeOK
    <3>6. \A u \in Timers : life'[u] = "live" <=> u \in Range(list) \cup Range(waitlist) \cup {None}
      BY <1>3, <1>4, <3>1, <3>5, TimersAssumption, Zenon
    <3> QED
      BY <1>2, <2>1, <3>2, <3>3, <3>4, <3>6, Zenon DEF Placed
  <2>5. ASSUME NEW u \in Timers PROVE ToldOf(u)'
    <3>1. ToldOf(u)
      BY Zenon DEF Inv, Told
    <3>2. CASE u # t
      <4>1. life'[u] = life[u]
        BY <2>1, <3>2, Zenon DEF Inv, TypeOK
      <4> QED
        BY <1>1, <1>2, <2>1, <3>1, <3>2, <4>1, TimersAssumption, Zenon DEF ToldOf
    <3>3. CASE u = t
      <4>1. life'[t] = "freed" /\ ~arg[t] /\ bg[t] # "unborn" /\ bg[t] # "live"
        BY <1>1, <1>2, <1>3, <1>4, <1>6, <2>1, Zenon DEF Inv, TypeOK, ToldOf
      <4> QED
        BY <1>1, <1>2, <1>3, <1>4, <2>1, <3>1, <3>3, <4>1, Zenon DEF ToldOf
    <3> QED
      BY <3>2, <3>3, Zenon
  <2> QED
    BY <1>5, <2>1, <2>2, <2>3, <2>4, <2>5, Zenon DEF Inv, Told
<1>7. CASE "oneshot" \notin flags[t]
  <2>1. /\ nextrun' = [nextrun EXCEPT ![t] = interval[t] - late] /\ list' = Insert(list, nextrun', t)
        /\ UNCHANGED life
    BY <1>2, <1>7, Zenon
  <2>2. /\ interval[t] \in Intervals \cup {0} /\ interval[t] \in Int /\ interval[t] >= 0
        /\ late \in 0 .. MaxLate /\ MaxLate \in Nat
    <3>1. interval \in [Timers -> Intervals \cup {0}] /\ late \in 0 .. MaxLate
      BY Zenon DEF Inv, TypeOK
    <3>2. Intervals \subseteq Nat /\ MaxLate \in Nat
      BY TimersAssumption, Zenon
    <3>3. interval[t] \in Intervals \cup {0}
      BY <1>3, <3>1, Zenon
    <3>4. interval[t] \in Int /\ interval[t] >= 0
      <4>1. interval[t] \in Nat
        <5>1. \A x \in Intervals \cup {0} : x \in Nat
          BY <3>2
        <5> QED
          BY <3>3, <5>1, Zenon
      <4> QED
        BY <4>1
    <3> QED
      BY <3>1, <3>2, <3>3, <3>4, Zenon
  <2>3. interval[t] - late \in -MaxLate .. interval[t]
    BY <2>2
  <2>4. nextrun' \in [Timers -> Int] /\ \A u \in Timers : nextrun'[u] = IF u = t THEN interval[t] - late ELSE nextrun[u]
    BY <1>3, <1>5, <2>1, <2>2
  <2>5. Sorted(list, nextrun')
    BY <1>4, <1>5, <2>4 DEF Sorted, Range
  <2>6. list' \in Seq(Timers) /\ Range(list') = Range(list) \cup {t} /\ IsInjective(list') /\ Sorted(list', nextrun')
    BY <1>3, <1>4, <1>5, <2>1, <2>4, <2>5, InsertSorts, Zenon
  <2>7. TypeOK'
    <3>1. \A u \in Timers : \E j \in Intervals \cup {0} : nextrun[u] \in -MaxLate .. j
      BY Zenon DEF Inv, TypeOK
    <3>2. \A u \in Timers : \E j \in Intervals \cup {0} : nextrun'[u] \in -MaxLate .. j
      BY <2>2, <2>3, <2>4, <3>1, Zenon
    <3> QED
      BY <1>2, <2>1, <2>6, <3>2, Zenon DEF Inv, TypeOK
  <2>8. Phases'
    BY <1>2, <1>4, Zenon DEF Inv, Phases
  <2>9. Placed'
    <3>1. \A u \in Timers : life[u] = "live" <=> u \in Range(list) \cup Range(waitlist) \cup {t}
      BY <1>1, Zenon DEF Inv, Placed
    <3>2. Range(list) \cap Range(waitlist) = {} /\ IsInjective(list) /\ IsInjective(waitlist)
      BY Zenon DEF Inv, Placed
    <3>3. Range(waitlist') = Range(waitlist) /\ waitlist' = waitlist
      BY <1>2, Zenon
    <3>4. None \notin Range(list) \cup Range(waitlist)
      BY <1>4, <1>5, TimersAssumption DEF Range
    <3>5. \A u \in Timers : life'[u] = "live" <=> u \in Range(list') \cup Range(waitlist) \cup {None}
      BY <1>3, <1>4, <2>1, <2>6, <3>1, TimersAssumption, Zenon
    <3>6. Range(list') \cap Range(waitlist) = {} /\ None \notin Range(list') \cup Range(waitlist)
      BY <1>3, <1>4, <2>6, <3>2, <3>4, Zenon
    <3> QED
      BY <1>2, <2>6, <3>2, <3>3, <3>5, <3>6, Zenon DEF Placed
  <2>10. ASSUME NEW u \in Timers PROVE ToldOf(u)'
    <3>1. ToldOf(u)
      BY Zenon DEF Inv, Told
    <3>2. CASE u # t
      <4>1. u \in Range(list') <=> u \in Range(list)
        BY <2>6, <3>2, Zenon
      <4> QED
        BY <1>1, <1>2, <2>1, <3>1, <3>2, <4>1, TimersAssumption, Zenon DEF ToldOf
    <3>3. CASE u = t
      BY <1>1, <1>2, <1>3, <1>4, <1>7, <2>1, <2>6, <3>1, <3>3, Zenon DEF ToldOf
    <3> QED
      BY <3>2, <3>3, Zenon
  <2> QED
    BY <2>4, <2>6, <2>7, <2>8, <2>9, <2>10, Zenon DEF Inv, Told
<1> QED
  BY <1>6, <1>7, Zenon

\* Time passes between two rounds.
LEMMA TickKeeps ==
  ASSUME Inv, Tick
  PROVE  Inv'
<1>1. /\ nextrun' = [t \in Timers |-> IF nextrun[t] > -MaxLate THEN nextrun[t] - 1 ELSE nextrun[t]]
      /\ UNCHANGED <<list, waitlist, cache, life, flags, interval, bg, arg, known, fired, running, pc>>
  BY Zenon DEF Tick
<1>2. /\ nextrun \in [Timers -> Int] /\ Sorted(list, nextrun) /\ list \in Seq(Timers)
      /\ \A t \in Timers : \E i \in Intervals \cup {0} : nextrun[t] \in -MaxLate .. i
  BY Zenon DEF Inv, TypeOK
<1>3. MaxLate \in Nat /\ Intervals \subseteq Nat
  BY TimersAssumption, Zenon
<1>4. nextrun' \in [Timers -> Int]
  BY <1>1, <1>2, <1>3
<1>5. \A t \in Timers : \E i \in Intervals \cup {0} : nextrun'[t] \in -MaxLate .. i
  <2> TAKE t \in Timers
  <2>1. PICK i \in Intervals \cup {0} : nextrun[t] \in -MaxLate .. i
    BY <1>2, Zenon
  <2>2. i \in Int /\ i >= 0
    BY <1>3
  <2>3. nextrun'[t] = IF nextrun[t] > -MaxLate THEN nextrun[t] - 1 ELSE nextrun[t]
    BY <1>1, Zenon
  <2>4. nextrun'[t] \in -MaxLate .. i
    BY <1>3, <2>1, <2>2, <2>3
  <2> QED
    BY <2>4, Zenon
<1>6. Sorted(list', nextrun')
  <2> SUFFICES ASSUME NEW i \in DOMAIN list, NEW j \in DOMAIN list, i < j
               PROVE  nextrun'[list[i]] <= nextrun'[list[j]]
    BY <1>1, Zenon DEF Sorted
  <2>0. nextrun[list[i]] >= -MaxLate /\ nextrun[list[j]] >= -MaxLate
    BY <1>2, <1>3
  <2>1. nextrun[list[i]] <= nextrun[list[j]] /\ list[i] \in Timers /\ list[j] \in Timers
    BY <1>2 DEF Sorted
  <2>2. nextrun[list[i]] \in Int /\ nextrun[list[j]] \in Int
    BY <1>2, <2>1, Zenon
  <2>3. /\ nextrun'[list[i]] = IF nextrun[list[i]] > -MaxLate THEN nextrun[list[i]] - 1 ELSE nextrun[list[i]]
        /\ nextrun'[list[j]] = IF nextrun[list[j]] > -MaxLate THEN nextrun[list[j]] - 1 ELSE nextrun[list[j]]
    BY <1>1, <2>1, Zenon
  <2> QED
    BY <1>3, <2>0, <2>1, <2>2, <2>3
<1>8. late' \in 0 .. MaxLate
  <2>1. late \in 0 .. MaxLate /\ (pc = "callback" => late < MaxLate \/ pc = "loop")
        /\ (late' = 0 \/ (late < MaxLate /\ late' = late + 1))
    BY Zenon DEF Tick, Inv, TypeOK
  <2> QED
    BY <1>3, <2>1
<1>7. TypeOK' /\ Phases' /\ Placed' /\ Told'
  BY <1>1, <1>5, <1>8, Zenon DEF Inv, TypeOK, Phases, Placed, Told, ToldOf
<1> QED
  BY <1>4, <1>6, <1>7, Zenon DEF Inv

\* Before the application adds a timer there is none.
LEMMA InitInv ==
  Init => Inv
<1> SUFFICES ASSUME Init PROVE Inv
  BY Zenon
<1>1. TypeOK
  <2>1. \A t \in Timers : nextrun[t] = 0 /\ 0 \in -MaxLate .. 0
    BY TimersAssumption DEF Init
  <2>2. 0 \in 0 .. MaxLate /\ 0 \in 0 .. 2
    BY TimersAssumption
  <2>3. <<>> \in Seq(Timers)
    OBVIOUS
  <2> QED
    BY <2>1, <2>2, <2>3, Zenon DEF Init, TypeOK
<1>2. Range(<<>>) = {} /\ IsInjective(<<>>)
  BY DEF Range, IsInjective
<1>3. Placed
  BY <1>2, TimersAssumption, Zenon DEF Init, Placed
<1>4. Told
  BY <1>2, TimersAssumption, Zenon DEF Init, Told, ToldOf
<1> QED
  BY <1>1, <1>3, <1>4 DEF Init, Inv, Sorted, Phases

\* Every step keeps the invariant.
LEMMA NextInv ==
  Inv /\ [Next]_vars => Inv'
<1> SUFFICES ASSUME Inv, [Next]_vars PROVE Inv'
  BY Zenon
<1>1. CASE UNCHANGED vars
  <2>1. UNCHANGED <<list, waitlist, cache, life, flags, interval, nextrun, bg, arg, known, fired, running, pc, late>>
    BY <1>1, Zenon DEF vars, tvars
  <2> QED
    BY <2>1, Zenon DEF Inv, TypeOK, Sorted, Phases, Placed, Told, ToldOf
<1>2. ASSUME NEW t \in Timers, NEW i \in Intervals, NEW o \in BOOLEAN, schedule(t, i, o) PROVE Inv'
  BY <1>2, ScheduleKeeps, Zenon
<1>3. ASSUME NEW t \in Timers, cancel(t) PROVE Inv'
  BY <1>3, CancelKeeps, Zenon
<1> QED
  BY <1>1, <1>2, <1>3, FlushKeeps, RoundKeeps, CallbackKeeps, ReturnKeeps, ReinsertKeeps, TickKeeps,
     Zenon DEF Next, Run

\* The list is sorted and every timer is in one place as long as it lives, however long
\* callbacks take and whatever they schedule or cancel; and timer->arg is NULL before its
\* background_timer is deleted (kore_timer_run, background_timer::cancel, handle_timeout).
THEOREM TimersOwned ==
  Spec => []Owned
<1>1. Inv => Owned
  <2> SUFFICES ASSUME Inv PROVE Owned
    BY Zenon
  <2>1. TypeOK /\ IsInjective(list) /\ IsInjective(waitlist)
    BY Zenon DEF Inv, Placed
  <2>2. \A i, j \in DOMAIN list : i < j => nextrun[list[i]] <= nextrun[list[j]]
    BY Zenon DEF Inv, Sorted
  <2>4. ASSUME NEW t \in Timers,
               NEW places, places = {p \in {"list", "waitlist", "running"} :
                                       \/ p = "list" /\ t \in Range(list)
                                       \/ p = "waitlist" /\ t \in Range(waitlist)
                                       \/ p = "running" /\ running = t}
        PROVE  (life[t] = "live" <=> places # {}) /\ \A p, q \in places : p = q
    <3>1. /\ "list" \in places <=> t \in Range(list)
          /\ "waitlist" \in places <=> t \in Range(waitlist)
          /\ "running" \in places <=> running = t
          /\ places \subseteq {"list", "waitlist", "running"}
      BY <2>4, Zenon
    <3>2. /\ life[t] = "live" <=> t \in Range(list) \cup Range(waitlist) \cup {running}
          /\ Range(list) \cap Range(waitlist) = {} /\ running \notin Range(list) \cup Range(waitlist)
      BY Zenon DEF Inv, Placed
    <3> QED
      BY <3>1, <3>2, Zenon
  <2>5. ASSUME NEW t \in Timers
        PROVE  /\ arg[t] <=> bg[t] = "live"
               /\ life[t] = "freed" => ~arg[t]
               /\ "inplace" \in flags[t] => t \in Range(list)
               /\ t \in Range(list) /\ "inplace" \notin flags[t] => fired[t] > 0
    BY Zenon DEF Inv, Told, ToldOf
  <2> QED
    BY <2>1, <2>2, <2>4, <2>5, Zenon DEF Owned
<1> QED
  BY <1>1, InitInv, NextInv, PTL DEF Spec

\* No step invokes the handler of a timer that was cancelled or deleted, nor that of a
\* one-shot timer a second time (handle_timeout, background_timer::fire).
THEOREM CancelQuiet ==
  Spec => CancelledIsQuiet
<1> DEFINE Quiet == \A t \in Timers : fired'[t] # fired[t] => bg[t] = "live" /\ ("oneshot" \in flags[t] => fired[t] = 0)
<1>1. Inv /\ [Next]_vars => [Quiet]_vars
  <2> SUFFICES ASSUME Inv, Next, NEW t \in Timers, fired'[t] # fired[t]
               PROVE  bg[t] = "live" /\ ("oneshot" \in flags[t] => fired[t] = 0)
    BY Zenon
  <2>1. Callback
    BY Zenon DEF Next, Run, RunBegin, RunEnd, HandlerReturns, Reinsert, flush, Tick, cancel,
       schedule, tvars
  <2>2. PICK u : u = Head(list)
    BY Zenon
  <2>3. /\ list # <<>> /\ pc = "run"
        /\ arg[u] /\ fired' = [fired EXCEPT ![u] = IF @ < 2 THEN @ + 1 ELSE @]
    BY <2>1, <2>2, Zenon DEF Callback
  <2>4. fired \in [Timers -> 0 .. 2] /\ running = None /\ ToldOf(t)
    BY <2>3, Zenon DEF Inv, TypeOK, Phases, Told
  <2>5. t = u
    BY <2>3, <2>4, Zenon
  <2>6. running # t
    BY <2>4, TimersAssumption, Zenon
  <2> QED
    BY <2>3, <2>4, <2>5, <2>6, Zenon DEF ToldOf
<1>2. Spec => []Inv
  BY InitInv, NextInv, PTL DEF Spec
<1> QED
  BY <1>1, <1>2, PTL DEF Spec, CancelledIsQuiet
=============================================================================
