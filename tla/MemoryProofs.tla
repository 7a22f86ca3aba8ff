---------------------------- MODULE MemoryProofs ----------------------------
(***************************************************************************)
(* The allocator, the buffers and the reference counted strings, for every *)
(* number of size classes, every block size and any number of callers.     *)
(***************************************************************************)
EXTENDS Memory, FiniteSetTheorems, WellFoundedInduction, TLAPS

\* The names of blocks: a pool (Heap for the system's) and a number in it.
Pairs == (0 .. Heap) \X (Nat \ {0})

\* The types of the allocator's memory.
MemType(m) ==
  /\ m.free \in [0 .. Heap -> SUBSET Pairs]
  /\ m.elms \in [0 .. Heap -> Nat]
  /\ DOMAIN m.size \subseteq Pairs
  /\ \A p \in DOMAIN m.size : m.size[p] \in Nat

\* A block is free or in use, in the pool of its length, and one of the pool's elements.
Apart(m) ==
  /\ \A c \in 0 .. Heap : \A p \in m.free[c] : p[1] = c /\ p[2] \in 1 .. m.elms[c]
  /\ \A p \in DOMAIN m.size : /\ p[1] = ClassOf(m.size[p])
                              /\ p[2] \in 1 .. m.elms[p[1]]
                              /\ p \notin m.free[p[1]]

\* What is true of the memory between two calls.
MemOK(m) == MemType(m) /\ Apart(m)

-----------------------------------------------------------------------------
(* kore_malloc and kore_free *)

\* A block is no null pointer.
LEMMA PairsReal ==
  ASSUME NEW p \in Pairs
  PROVE  p # None
  BY DEF Pairs, None

\* A nonempty set of natural numbers has a least element.
LEMMA Least ==
  ASSUME NEW T \in SUBSET Nat, T # {}
  PROVE  \E m \in T : \A n \in T : m <= n
<1>1. PICK m \in T : \A n \in T : ~(<<n, m>> \in OpToRel(<, Nat))
  BY WFMin, NatLessThanWellFounded, Zenon
<1>2. m \in Nat /\ \A n \in T : n \in Nat /\ ~(n < m)
  BY <1>1, Zenon DEF OpToRel
<1>3. \A n \in T : m <= n
  BY <1>2
<1> QED
  BY <1>3, Zenon

\* memblock_index finds a class, the smallest one whose blocks are long enough, for every
\* length that the last class serves.
LEMMA IndexFits ==
  ASSUME NEW len \in Nat, len <= BlockSize[Classes - 1]
  PROVE  /\ memblock_index(len) \in Class
         /\ len <= BlockSize[memblock_index(len)]
         /\ \A d \in Class : d < memblock_index(len) => BlockSize[d] < len
<1> DEFINE T == {c \in Class : len <= BlockSize[c]}
<1>1. Classes - 1 \in Class /\ Class \subseteq Nat /\ BlockSize \in [Class -> Nat \ {0}]
  BY MemoryAssumption DEF Class
<1>2. T \in SUBSET Nat /\ T # {}
  BY <1>1, Zenon
<1>3. PICK c \in T : \A d \in T : c <= d
  BY <1>2, Least, Zenon
<1>4. c \in Class /\ len <= BlockSize[c] /\ \A d \in Class : len <= BlockSize[d] => c <= d
  BY <1>3, Zenon
<1> HIDE DEF T
<1>5. PICK i : i = memblock_index(len)
  BY Zenon
<1>6. i \in Class /\ len <= BlockSize[i] /\ \A d \in Class : len <= BlockSize[d] => i <= d
  BY <1>4, <1>5, Zenon DEF memblock_index
<1>7. ASSUME NEW d \in Class, d < i PROVE BlockSize[d] < len
  <2>1. BlockSize[d] \in Nat /\ d \in Nat /\ i \in Nat
    BY <1>1, <1>6, Zenon
  <2> QED
    BY <1>6, <1>7, <2>1
<1> QED
  BY <1>5, <1>6, <1>7, Zenon

\* Every length has its place.
LEMMA ClassOfType ==
  ASSUME NEW len \in Nat
  PROVE  ClassOf(len) \in 0 .. Heap
  BY IndexFits, MemoryAssumption DEF ClassOf, Heap, Class

\* A pool that grows keeps its elements apart from the new ones.
LEMMA GrownOK ==
  ASSUME NEW m, MemOK(m), NEW c \in 0 .. Heap
  PROVE  /\ MemOK(Grown(m, c)) /\ Grown(m, c).size = m.size
<1>1. CASE c = Heap \/ m.free[c] # {}
  BY <1>1, Zenon DEF Grown
<1>2. CASE ~(c = Heap \/ m.free[c] # {})
  <2>1. PICK g : g = Grown(m, c)
    BY Zenon
  <2>2. PICK e : e = m.elms[c]
    BY Zenon
  <2>3. PICK new : new = {<<c, i>> : i \in e + 1 .. 2 * e}
    BY Zenon
  <2>4. /\ g.free = [m.free EXCEPT ![c] = new]
        /\ g.elms = [m.elms EXCEPT ![c] = 2 * e]
        /\ g.size = m.size
    BY <1>2, <2>1, <2>2, <2>3, Zenon DEF Grown
  <2>5. e \in Nat /\ 2 * e \in Nat
    <3>1. m.elms \in [0 .. Heap -> Nat]
      BY Zenon DEF MemOK, MemType
    <3>2. e \in Nat
      BY <2>2, <3>1, Zenon
    <3> QED
      BY <3>2
  <2>6. new \in SUBSET Pairs /\ \A p \in new : p[1] = c /\ p[2] \in e + 1 .. 2 * e
    BY <2>3, <2>5 DEF Pairs
  <2>7. MemType(g)
    BY <2>4, <2>5, <2>6 DEF MemOK, MemType
  <2>8. \A d \in 0 .. Heap : g.free[d] = (IF d = c THEN new ELSE m.free[d])
                             /\ g.elms[d] = (IF d = c THEN 2 * e ELSE m.elms[d])
    BY <2>4, Zenon DEF MemOK, MemType
  <2>9. ASSUME NEW d \in 0 .. Heap, NEW p \in g.free[d] PROVE p[1] = d /\ p[2] \in 1 .. g.elms[d]
    <3>1. CASE d = c
      BY <2>5, <2>6, <2>8, <2>9, <3>1
    <3>2. CASE d # c
      BY <2>8, <2>9, <3>2, Zenon DEF MemOK, Apart
    <3> QED
      BY <3>1, <3>2, Zenon
  <2>10. ASSUME NEW p \in DOMAIN g.size
         PROVE  p[1] = ClassOf(g.size[p]) /\ p[2] \in 1 .. g.elms[p[1]] /\ p \notin g.free[p[1]]
    <3>1. p \in DOMAIN m.size /\ p[1] = ClassOf(m.size[p]) /\ p[2] \in 1 .. m.elms[p[1]] /\ p \notin m.free[p[1]]
      BY <2>4, <2>10, Zenon DEF MemOK, Apart
    <3>2. p[1] \in 0 .. Heap
      BY <3>1, Zenon DEF MemOK, MemType, Pairs
    <3>3. CASE p[1] = c
      <4>1. p[2] \in 1 .. e
        BY <2>2, <3>1, <3>3, Zenon
      <4>2. p \notin new
        BY <2>5, <2>6, <4>1
      <4> QED
        BY <2>4, <2>5, <2>8, <3>1, <3>2, <3>3, <4>1, <4>2
    <3>4. CASE p[1] # c
      BY <2>4, <2>8, <3>1, <3>2, <3>4, Zenon
    <3> QED
      BY <3>3, <3>4, Zenon
  <2> QED
    BY <2>1, <2>4, <2>7, <2>9, <2>10, Zenon DEF MemOK, Apart
<1> QED
  BY <1>1, <1>2, Zenon

\* kore_malloc returns a block nobody uses, and changes no other one.
LEMMA MallocOK ==
  ASSUME NEW m, MemOK(m), NEW len \in Nat, NEW p \in Candidates(m, len)
  PROVE  /\ MemOK(Malloc(m, len, p))
         /\ p \in Pairs /\ p \notin DOMAIN m.size
         /\ DOMAIN Malloc(m, len, p).size = DOMAIN m.size \cup {p}
         /\ Malloc(m, len, p).size[p] = len
         /\ \A q \in DOMAIN m.size : Malloc(m, len, p).size[q] = m.size[q]
<1>1. PICK c : c = ClassOf(len)
  BY Zenon
<1>2. PICK g : g = Grown(m, c)
  BY Zenon
<1>3. c \in 0 .. Heap
  BY <1>1, ClassOfType, Zenon
<1>4. MemOK(g) /\ g.size = m.size /\ p \in g.free[c]
  BY <1>1, <1>2, <1>3, GrownOK, Zenon DEF Candidates
<1>5. PICK n : n = Malloc(m, len, p)
  BY Zenon
<1>6. /\ n.free = [g.free EXCEPT ![c] = g.free[c] \ {p}] /\ n.elms = g.elms
      /\ n.size = [q \in DOMAIN m.size \cup {p} |-> IF q = p THEN len ELSE m.size[q]]
  BY <1>1, <1>2, <1>5, Zenon DEF Malloc
<1>7. p \in Pairs /\ p[1] = c /\ p[2] \in 1 .. g.elms[c]
  BY <1>3, <1>4, Zenon DEF MemOK, MemType, Apart
<1>8. p \notin DOMAIN m.size
  BY <1>4, <1>7, Zenon DEF MemOK, Apart
<1>9. /\ DOMAIN n.size = DOMAIN m.size \cup {p} /\ n.size[p] = len
      /\ \A q \in DOMAIN m.size : n.size[q] = m.size[q]
  BY <1>6, <1>8, Zenon
<1>10. \A d \in 0 .. Heap : n.free[d] = (IF d = c THEN g.free[d] \ {p} ELSE g.free[d]) /\ n.elms[d] = g.elms[d]
  BY <1>4, <1>6, Zenon DEF MemOK, MemType
<1>11. MemType(n)
  <2>1. n.free \in [0 .. Heap -> SUBSET Pairs] /\ n.elms \in [0 .. Heap -> Nat]
    BY <1>3, <1>4, <1>6, Zenon DEF MemOK, MemType
  <2> QED
    BY <1>7, <1>9, <2>1, Zenon DEF MemOK, MemType
<1>12. \A d \in 0 .. Heap : \A q \in n.free[d] : q[1] = d /\ q[2] \in 1 .. n.elms[d]
  BY <1>4, <1>10, Zenon DEF MemOK, Apart
<1>13. ASSUME NEW q \in DOMAIN n.size
       PROVE  q[1] = ClassOf(n.size[q]) /\ q[2] \in 1 .. n.elms[q[1]] /\ q \notin n.free[q[1]]
  <2>1. CASE q = p
    BY <1>1, <1>3, <1>7, <1>9, <1>10, <2>1, Zenon
  <2>2. CASE q # p
    <3>1. q \in DOMAIN g.size /\ n.size[q] = g.size[q]
      BY <1>4, <1>9, <2>2, Zenon
    <3>2. q[1] = ClassOf(g.size[q]) /\ q[2] \in 1 .. g.elms[q[1]] /\ q \notin g.free[q[1]]
      BY <1>4, <3>1, Zenon DEF MemOK, Apart
    <3>3. q[1] \in 0 .. Heap
      BY <1>4, <3>1, Zenon DEF MemOK, MemType, Pairs
    <3> QED
      BY <1>10, <3>1, <3>2, <3>3, Zenon
  <2> QED
    BY <2>1, <2>2, Zenon
<1> QED
  BY <1>5, <1>7, <1>8, <1>9, <1>11, <1>12, <1>13, Zenon DEF MemOK, Apart

\* kore_free returns a block to the pool it came from, and changes no other one.
LEMMA FreeOK ==
  ASSUME NEW m, MemOK(m), NEW p \in DOMAIN m.size
  PROVE  /\ MemOK(Free(m, p))
         /\ DOMAIN Free(m, p).size = DOMAIN m.size \ {p}
         /\ \A q \in DOMAIN m.size \ {p} : Free(m, p).size[q] = m.size[q]
<1>1. PICK c : c = ClassOf(m.size[p])
  BY Zenon
<1>2. PICK n : n = Free(m, p)
  BY Zenon
<1>3. /\ n.free = [m.free EXCEPT ![c] = m.free[c] \cup {p}] /\ n.elms = m.elms
      /\ n.size = [q \in DOMAIN m.size \ {p} |-> m.size[q]]
  BY <1>1, <1>2, Zenon DEF Free
<1>4. p \in Pairs /\ p[1] = c /\ p[2] \in 1 .. m.elms[c] /\ c \in 0 .. Heap
  <2>1. p \in Pairs /\ p[1] = c /\ p[2] \in 1 .. m.elms[c]
    BY <1>1, Zenon DEF MemOK, MemType, Apart
  <2> QED
    BY <2>1, Zenon DEF Pairs
<1>5. DOMAIN n.size = DOMAIN m.size \ {p} /\ \A q \in DOMAIN m.size \ {p} : n.size[q] = m.size[q]
  BY <1>3, Zenon
<1>6. \A d \in 0 .. Heap : n.free[d] = (IF d = c THEN m.free[d] \cup {p} ELSE m.free[d]) /\ n.elms[d] = m.elms[d]
  BY <1>3, Zenon DEF MemOK, MemType
<1>7. MemType(n)
  <2>1. m.free \in [0 .. Heap -> SUBSET Pairs] /\ m.elms \in [0 .. Heap -> Nat]
    BY Zenon DEF MemOK, MemType
  <2>2. m.free[c] \cup {p} \in SUBSET Pairs
    BY <1>4, <2>1, Zenon
  <2>3. n.free \in [0 .. Heap -> SUBSET Pairs] /\ n.elms \in [0 .. Heap -> Nat]
    BY <1>3, <2>1, <2>2, Zenon
  <2> QED
    BY <1>5, <2>3, Zenon DEF MemOK, MemType
<1>8. ASSUME NEW d \in 0 .. Heap, NEW q \in n.free[d] PROVE q[1] = d /\ q[2] \in 1 .. n.elms[d]
  <2>1. q \in m.free[d] \/ (d = c /\ q = p)
    BY <1>6, <1>8, Zenon
  <2>2. CASE q \in m.free[d]
    BY <1>6, <2>2, Zenon DEF MemOK, Apart
  <2>3. CASE d = c /\ q = p
    BY <1>4, <1>6, <2>3, Zenon
  <2> QED
    BY <2>1, <2>2, <2>3, Zenon
<1>9. ASSUME NEW q \in DOMAIN n.size
      PROVE  q[1] = ClassOf(n.size[q]) /\ q[2] \in 1 .. n.elms[q[1]] /\ q \notin n.free[q[1]]
  <2>1. q \in DOMAIN m.size /\ q # p /\ n.size[q] = m.size[q]
    BY <1>5, Zenon
  <2>2. q[1] = ClassOf(m.size[q]) /\ q[2] \in 1 .. m.elms[q[1]] /\ q \notin m.free[q[1]]
    BY <2>1, Zenon DEF MemOK, Apart
  <2>3. q[1] \in 0 .. Heap
    BY <2>1, Zenon DEF MemOK, MemType, Pairs
  <2> QED
    BY <1>6, <2>1, <2>2, <2>3, ZenonT(60)
<1> QED
  BY <1>2, <1>5, <1>7, <1>8, <1>9, Zenon DEF MemOK, Apart

\* kore_realloc moves a block.
LEMMA ReallocOK ==
  ASSUME NEW m, MemOK(m), NEW len \in Nat, NEW p \in DOMAIN m.size, NEW q \in Candidates(m, len)
  PROVE  /\ MemOK(Realloc(m, p, len, q))
         /\ q \in Pairs /\ q \notin DOMAIN m.size
         /\ DOMAIN Realloc(m, p, len, q).size = (DOMAIN m.size \ {p}) \cup {q}
         /\ Realloc(m, p, len, q).size[q] = len
         /\ \A r \in DOMAIN m.size \ {p} : Realloc(m, p, len, q).size[r] = m.size[r]
<1>1. PICK n : n = Malloc(m, len, q)
  BY Zenon
<1>2. /\ MemOK(n) /\ q \in Pairs /\ q \notin DOMAIN m.size
      /\ DOMAIN n.size = DOMAIN m.size \cup {q} /\ n.size[q] = len
      /\ \A r \in DOMAIN m.size : n.size[r] = m.size[r]
  BY <1>1, MallocOK
<1>3. p \in DOMAIN n.size /\ p # q
  BY <1>2, Zenon
<1>4. /\ MemOK(Free(n, p)) /\ DOMAIN Free(n, p).size = DOMAIN n.size \ {p}
      /\ \A r \in DOMAIN n.size \ {p} : Free(n, p).size[r] = n.size[r]
  BY <1>2, <1>3, FreeOK, Zenon
<1>5. Realloc(m, p, len, q) = Free(n, p)
  BY <1>1, Zenon DEF Realloc
<1> QED
  BY <1>2, <1>3, <1>4, <1>5, Zenon

-----------------------------------------------------------------------------
(* Who owns what *)

\* The blocks of a buffer.
Of(o) == IF o = None THEN {} ELSE {o.head, o.data} \ {None}

\* A buffer has a header and, unless it is empty, data as long as it says.
BufOK(o, size) ==
  o # None => /\ o = [head |-> o.head, data |-> o.data, length |-> o.length, offset |-> o.offset]
              /\ o.head \in Pairs /\ o.data \in Pairs \cup {None} /\ o.head # o.data
              /\ o.length \in Nat /\ o.offset \in Nat /\ o.offset <= o.length
              /\ o.data # None => size[o.data] = o.length
              /\ o.data = None => o.length = 0

\* The blocks D in use are those of callers (H), the lost ones (L), the shared
\* texts (R) and those of each buffer (O), and no block is in two of these sets.
Parts(D, H, L, R, O) ==
  /\ DOMAIN O = Bufs
  /\ D = H \cup L \cup R \cup UNION {O[b] : b \in Bufs}
  /\ H \cap L = {} /\ H \cap R = {} /\ L \cap R = {}
  /\ \A b \in Bufs : O[b] \cap (H \cup L \cup R) = {}
  /\ \A b, c \in Bufs : b # c => O[b] \cap O[c] = {}

\* The block of each buffer.
Own == [b \in Bufs |-> Of(bufs[b])]

\* The counter r[p] of a text tells how many variables t share it, and there is one.
Counts(t, r) ==
  /\ t \in [Strs -> Pairs \cup {None}]
  /\ \A s \in Strs : t[s] # None => t[s] \in DOMAIN r
  /\ \A p \in DOMAIN r : r[p] \in Nat \ {0} /\ r[p] = Cardinality({s \in Strs : t[s] = p})

\* Every buffer is within the block it has.
Objects == /\ DOMAIN bufs = Bufs
           /\ \A b \in Bufs : BufOK(bufs[b], mem.size)

\* The inductive invariant: every block that is in use has one owner.
Inv ==
  /\ MemOK(mem)
  /\ Objects
  /\ Parts(DOMAIN mem.size, held, leaked, DOMAIN refs, Own)
  /\ Counts(strs, refs)

\* A buffer is no null pointer.
LEMMA RecordReal ==
  ASSUME NEW h, NEW d, NEW l, NEW o
  PROVE  [head |-> h, data |-> d, length |-> l, offset |-> o] # None
<1>1. DOMAIN [head |-> h, data |-> d, length |-> l, offset |-> o] # {}
  BY Zenon
<1>2. DOMAIN None = {}
  BY DEF None
<1> QED
  BY <1>1, <1>2, Zenon

\* A buffer is as it was while its own blocks are.
LEMMA BufKept ==
  ASSUME NEW o, NEW s, NEW t, BufOK(o, s), \A q \in Of(o) : t[q] = s[q]
  PROVE  BufOK(o, t)
  BY Zenon DEF BufOK, Of

\* Callers get and give up blocks that no one else has.
LEMMA PartsHeld ==
  ASSUME NEW D, NEW H, NEW L, NEW R, NEW O, Parts(D, H, L, R, O), NEW S, S \cap (D \ H) = {}
  PROVE  Parts((D \ H) \cup S, S, L, R, O)
  BY DEF Parts

\* So do the variables of autostr.
LEMMA PartsRefs ==
  ASSUME NEW D, NEW H, NEW L, NEW R, NEW O, Parts(D, H, L, R, O), NEW S, S \cap (D \ R) = {}
  PROVE  Parts((D \ R) \cup S, H, L, S, O)
  BY DEF Parts

\* So does a buffer.
LEMMA PartsBuf ==
  ASSUME NEW D, NEW H, NEW L, NEW R, NEW O, Parts(D, H, L, R, O), NEW b \in Bufs,
         NEW S, S \cap (D \ O[b]) = {}, NEW P, DOMAIN P = Bufs,
         \A c \in Bufs : P[c] = IF c = b THEN S ELSE O[c]
  PROVE  Parts((D \ O[b]) \cup S, H, L, R, P)
<1>1. \A c \in Bufs : c # b => O[c] \subseteq D \ O[b]
  BY DEF Parts
<1>2. H \cup L \cup R \subseteq D \ O[b]
  BY Zenon DEF Parts
<1>3. UNION {P[c] : c \in Bufs} = S \cup UNION {O[c] : c \in Bufs \ {b}}
  BY Zenon
<1>4. D \ O[b] = H \cup L \cup R \cup UNION {O[c] : c \in Bufs \ {b}}
  BY DEF Parts
<1>5. (D \ O[b]) \cup S = H \cup L \cup R \cup UNION {P[c] : c \in Bufs}
  BY <1>3, <1>4, Zenon
<1>6. \A c \in Bufs : P[c] \cap (H \cup L \cup R) = {}
  BY <1>2, Zenon DEF Parts
<1>7. \A c, d \in Bufs : c # d => P[c] \cap P[d] = {}
  BY <1>1, Zenon DEF Parts
<1> QED
  BY <1>5, <1>6, <1>7, Zenon DEF Parts

\* kore_buf_release hands some of a buffer's blocks to a caller.
LEMMA PartsRelease ==
  ASSUME NEW D, NEW H, NEW L, NEW R, NEW O, Parts(D, H, L, R, O), NEW b \in Bufs,
         NEW S, S \subseteq O[b], NEW P, DOMAIN P = Bufs,
         \A c \in Bufs : P[c] = IF c = b THEN {} ELSE O[c]
  PROVE  Parts((D \ O[b]) \cup S, H \cup S, L, R, P)
<1>1. Parts((D \ O[b]) \cup {}, H, L, R, P)
  BY PartsBuf, Zenon
<1>2. Parts(D \ O[b], H, L, R, P)
  BY <1>1, Zenon
<1>3. H \subseteq D \ O[b]
  BY Zenon DEF Parts
<1>4. Parts(((D \ O[b]) \ H) \cup (H \cup S), H \cup S, L, R, P)
  BY <1>2, PartsHeld, Zenon
<1>5. ((D \ O[b]) \ H) \cup (H \cup S) = (D \ O[b]) \cup S
  BY <1>3, Zenon
<1> QED
  BY <1>4, <1>5, Zenon

\* The move assignment loses the blocks of the buffer that is overwritten.
LEMMA PartsMove ==
  ASSUME NEW D, NEW H, NEW L, NEW R, NEW O, Parts(D, H, L, R, O),
         NEW b \in Bufs, NEW c \in Bufs, b # c, NEW P, DOMAIN P = Bufs,
         \A d \in Bufs : P[d] = IF d = b THEN O[c] ELSE IF d = c THEN {} ELSE O[d]
  PROVE  Parts(D, H, L \cup O[b], R, P)
<1>1. D = H \cup (L \cup O[b]) \cup R \cup UNION {P[d] : d \in Bufs}
  <2>1. \A d \in Bufs : P[d] \subseteq D
    BY Zenon DEF Parts
  <2>2. ASSUME NEW q \in D PROVE q \in H \cup (L \cup O[b]) \cup R \cup UNION {P[d] : d \in Bufs}
    <3>1. q \in H \cup L \cup R \/ \E d \in Bufs : q \in O[d]
      BY DEF Parts
    <3>2. ASSUME NEW d \in Bufs, q \in O[d] PROVE q \in O[b] \/ \E e \in Bufs : q \in P[e]
      BY <3>2, Zenon
    <3> QED
      BY <3>1, <3>2, Zenon
  <2>3. H \cup L \cup R \cup O[b] \subseteq D
    BY DEF Parts
  <2> QED
    BY <2>1, <2>2, <2>3
<1>2. H \cap (L \cup O[b]) = {} /\ H \cap R = {} /\ (L \cup O[b]) \cap R = {}
  BY Zenon DEF Parts
<1>3. \A d \in Bufs : P[d] \cap (H \cup (L \cup O[b]) \cup R) = {}
  BY Zenon DEF Parts
<1>4. \A d, e \in Bufs : d # e => P[d] \cap P[e] = {}
  BY Zenon DEF Parts
<1> QED
  BY <1>1, <1>2, <1>3, <1>4, Zenon DEF Parts

\* The blocks of a buffer are in use, and are no one else's.
LEMMA OwnBlocks ==
  ASSUME Inv, NEW b \in Bufs
  PROVE  /\ Own[b] = Of(bufs[b]) /\ Of(bufs[b]) \subseteq DOMAIN mem.size
         /\ Of(bufs[b]) \cap (held \cup leaked \cup DOMAIN refs) = {}
         /\ \A c \in Bufs \ {b} : Of(bufs[c]) \subseteq DOMAIN mem.size \ Of(bufs[b])
<1>1. \A c \in Bufs : Own[c] = Of(bufs[c])
  BY Zenon DEF Own
<1> QED
  BY <1>1 DEF Inv, Parts

\* An operation on one buffer that leaves it in order, takes only blocks that are free
\* and touches no other block.
LEMMA BufChange ==
  ASSUME Inv, NEW b \in Bufs, NEW o, bufs' = [bufs EXCEPT ![b] = o],
         UNCHANGED <<held, leaked, strs, refs>>,
         MemOK(mem'), BufOK(o, mem'.size), Of(o) \cap (DOMAIN mem.size \ Of(bufs[b])) = {},
         DOMAIN mem'.size = (DOMAIN mem.size \ Of(bufs[b])) \cup Of(o),
         \A q \in DOMAIN mem.size \ Of(bufs[b]) : mem'.size[q] = mem.size[q]
  PROVE  Inv'
<1>1. DOMAIN bufs' = Bufs /\ \A c \in Bufs : bufs'[c] = IF c = b THEN o ELSE bufs[c]
  BY Zenon DEF Inv, Objects
<1>2. Objects'
  <2>1. ASSUME NEW c \in Bufs PROVE BufOK(bufs'[c], mem'.size)
    <3>1. CASE c = b
      BY <1>1, <3>1, Zenon
    <3>2. CASE c # b
      <4>1. BufOK(bufs[c], mem.size)
        BY Zenon DEF Inv, Objects
      <4>2. \A q \in Of(bufs[c]) : mem'.size[q] = mem.size[q]
        BY <3>2, OwnBlocks, Zenon
      <4> QED
        BY <1>1, <3>2, <4>1, <4>2, BufKept
    <3> QED
      BY <3>1, <3>2, Zenon
  <2> QED
    BY <1>1, <2>1, Zenon DEF Objects
<1>3. DOMAIN Own' = Bufs /\ \A c \in Bufs : Own'[c] = IF c = b THEN Of(o) ELSE Own[c]
  BY <1>1, Zenon DEF Own
<1>4. Own[b] = Of(bufs[b])
  BY OwnBlocks, Zenon
<1>5. Parts((DOMAIN mem.size \ Own[b]) \cup Of(o), held, leaked, DOMAIN refs, Own')
  BY <1>3, <1>4, PartsBuf, Zenon DEF Inv
<1>6. Parts(DOMAIN mem.size, held, leaked, DOMAIN refs, Own)'
  BY <1>4, <1>5, Zenon
<1>7. Counts(strs, refs)'
  BY Zenon DEF Inv
<1> QED
  BY <1>2, <1>6, <1>7, Zenon DEF Inv

\* An operation that leaves the buffers and the blocks of buffers alone.
LEMMA ObjectsKept ==
  ASSUME Inv, UNCHANGED bufs,
         \A q \in DOMAIN mem.size : q \notin held \cup leaked \cup DOMAIN refs => mem'.size[q] = mem.size[q]
  PROVE  Objects' /\ Own' = Own
<1>1. ASSUME NEW c \in Bufs PROVE BufOK(bufs[c], mem'.size)
  <2>1. BufOK(bufs[c], mem.size)
    BY Zenon DEF Inv, Objects
  <2>2. \A q \in Of(bufs[c]) : mem'.size[q] = mem.size[q]
    BY OwnBlocks, Zenon
  <2> QED
    BY <2>1, <2>2, BufKept
<1> QED
  BY <1>1, Zenon DEF Objects, Own, Inv

\* kore_malloc, kore_realloc and kore_free for callers.
LEMMA HeapsKeep ==
  ASSUME Inv, Heaps
  PROVE  Inv'
<1>1. /\ MemOK(mem) /\ held \subseteq DOMAIN mem.size
      /\ Parts(DOMAIN mem.size, held, leaked, DOMAIN refs, Own)
  BY Zenon DEF Inv, Parts
<1>2. \A len \in Lengths : len \in Nat
  BY MemoryAssumption, Zenon
<1>3. ASSUME UNCHANGED <<leaked, bufs, strs, refs>>, MemOK(mem'),
             held' \cap (DOMAIN mem.size \ held) = {},
             DOMAIN mem'.size = (DOMAIN mem.size \ held) \cup held',
             \A q \in DOMAIN mem.size \ held : mem'.size[q] = mem.size[q]
      PROVE  Inv'
  <2>1. Objects' /\ Own' = Own
    BY <1>3, ObjectsKept, Zenon
  <2>2. Parts((DOMAIN mem.size \ held) \cup held', held', leaked, DOMAIN refs, Own)
    BY <1>1, <1>3, PartsHeld, Zenon
  <2>3. Counts(strs, refs)'
    BY <1>3, Zenon DEF Inv
  <2> QED
    BY <1>3, <2>1, <2>2, <2>3, Zenon DEF Inv
<1>4. ASSUME NEW len \in Lengths, NEW p \in Blocks, DoMalloc(len, p) PROVE Inv'
  <2>1. /\ MemOK(mem') /\ p \notin DOMAIN mem.size /\ DOMAIN mem'.size = DOMAIN mem.size \cup {p}
        /\ \A q \in DOMAIN mem.size : mem'.size[q] = mem.size[q]
    BY <1>1, <1>2, <1>4, MallocOK DEF DoMalloc
  <2>2. held' = held \cup {p} /\ UNCHANGED <<leaked, bufs, strs, refs>>
    BY <1>4, Zenon DEF DoMalloc
  <2>3. held' \cap (DOMAIN mem.size \ held) = {} /\ DOMAIN mem'.size = (DOMAIN mem.size \ held) \cup held'
    BY <1>1, <2>1, <2>2, Zenon
  <2> QED
    BY <1>3, <2>1, <2>2, <2>3, Zenon
<1>5. ASSUME NEW len \in Lengths, NEW p \in held, NEW q \in Blocks, DoRealloc(len, p, q) PROVE Inv'
  <2>1. /\ MemOK(mem') /\ q \notin DOMAIN mem.size /\ DOMAIN mem'.size = (DOMAIN mem.size \ {p}) \cup {q}
        /\ \A r \in DOMAIN mem.size \ {p} : mem'.size[r] = mem.size[r]
    BY <1>1, <1>2, <1>5, ReallocOK DEF DoRealloc
  <2>2. held' = (held \ {p}) \cup {q} /\ UNCHANGED <<leaked, bufs, strs, refs>>
    BY <1>5, Zenon DEF DoRealloc
  <2>3. held' \cap (DOMAIN mem.size \ held) = {} /\ DOMAIN mem'.size = (DOMAIN mem.size \ held) \cup held'
    BY <1>1, <2>1, <2>2, Zenon
  <2> QED
    BY <1>3, <2>1, <2>2, <2>3, Zenon
<1>6. ASSUME NEW p \in held, DoFree(p) PROVE Inv'
  <2>1. /\ MemOK(mem') /\ DOMAIN mem'.size = DOMAIN mem.size \ {p}
        /\ \A r \in DOMAIN mem.size \ {p} : mem'.size[r] = mem.size[r]
    BY <1>1, <1>6, FreeOK, Zenon DEF DoFree
  <2>2. held' = held \ {p} /\ UNCHANGED <<leaked, bufs, strs, refs>>
    BY <1>6, Zenon DEF DoFree
  <2>3. held' \cap (DOMAIN mem.size \ held) = {} /\ DOMAIN mem'.size = (DOMAIN mem.size \ held) \cup held'
    BY <1>1, <2>1, <2>2, Zenon
  <2> QED
    BY <1>3, <2>1, <2>2, <2>3, Zenon
<1> QED
  BY <1>4, <1>5, <1>6, Zenon DEF Heaps

\* What a buffer in order has.
LEMMA BufFacts ==
  ASSUME Inv, NEW b \in Bufs, NEW o, o = bufs[b], o # None
  PROVE  /\ o.head \in Pairs /\ o.head # None /\ o.head # o.data /\ o.data \in Pairs \cup {None}
         /\ o.length \in Nat /\ o.offset \in Nat /\ o.offset <= o.length
         /\ o.data # None => mem.size[o.data] = o.length
         /\ o.data = None => o.length = 0
         /\ Of(o) = {o.head, o.data} \ {None} /\ Of(o) \subseteq DOMAIN mem.size
<1>1. BufOK(o, mem.size)
  BY Zenon DEF Inv, Objects
<1>2. Of(o) \subseteq DOMAIN mem.size
  BY OwnBlocks, Zenon
<1> QED
  BY <1>1, <1>2, PairsReal, Zenon DEF BufOK, Of

\* A buffer record in order, from its fields.
LEMMA NewBuf ==
  ASSUME NEW h \in Pairs, NEW d, NEW len \in Nat, NEW off \in Nat, off <= len, h # d,
         NEW size,
         \/ d \in Pairs /\ size[d] = len
         \/ d = None /\ len = 0
  PROVE  LET o == [head |-> h, data |-> d, length |-> len, offset |-> off]
         IN BufOK(o, size) /\ Of(o) = {h, d} \ {None}
<1>1. PICK o : o = [head |-> h, data |-> d, length |-> len, offset |-> off]
  BY Zenon
<1>2. o # None /\ o.head = h /\ o.data = d /\ o.length = len /\ o.offset = off
  BY <1>1, RecordReal, Zenon
<1>3. h # None
  BY PairsReal, Zenon
<1>4. d \in Pairs => d # None
  BY PairsReal, Zenon
<1>5. BufOK(o, size)
  <2>1. o = [head |-> o.head, data |-> o.data, length |-> o.length, offset |-> o.offset]
    BY <1>1, <1>2, Zenon
  <2> QED
    BY <1>2, <1>4, <2>1, Zenon DEF BufOK
<1>6. Of(o) = {h, d} \ {None}
  BY <1>2, Zenon DEF Of
<1> QED
  BY <1>1, <1>5, <1>6, Zenon

\* kore_buf_alloc
LEMMA AllocKeeps ==
  ASSUME Inv, NEW b \in Bufs, NEW h, NEW p,
         buf_alloc_empty(b, h) \/ \E len \in Lengths : buf_alloc(b, len, h, p)
  PROVE  Inv'
<1>1. MemOK(mem) /\ HeadLen \in Nat
  BY MemoryAssumption, Zenon DEF Inv
<1>2. PICK m : m = Malloc(mem, HeadLen, h)
  BY Zenon
<1>3. bufs[b] = None /\ h \in Candidates(mem, HeadLen) /\ UNCHANGED <<held, leaked, strs, refs>>
  BY Zenon DEF buf_alloc_empty, buf_alloc
<1>4. /\ MemOK(m) /\ h \in Pairs /\ h \notin DOMAIN mem.size /\ DOMAIN m.size = DOMAIN mem.size \cup {h}
      /\ \A q \in DOMAIN mem.size : m.size[q] = mem.size[q]
  BY <1>1, <1>2, <1>3, MallocOK
<1>5. Of(bufs[b]) = {}
  BY <1>3, Zenon DEF Of
<1>6. h # None
  BY <1>4, PairsReal, Zenon
<1>7. CASE buf_alloc_empty(b, h)
  <2>1. PICK o : o = [head |-> h, data |-> None, length |-> 0, offset |-> 0]
    BY Zenon
  <2>2. mem' = m /\ bufs' = [bufs EXCEPT ![b] = o]
    BY <1>2, <1>7, <2>1, Zenon DEF buf_alloc_empty
  <2>3. BufOK(o, mem'.size) /\ Of(o) = {h, None} \ {None}
    BY <1>4, <1>6, <2>1, NewBuf
  <2>4. Of(o) = {h}
    BY <1>6, <2>3, Zenon
  <2> QED
    BY <1>3, <1>4, <1>5, <2>2, <2>3, <2>4, BufChange, Zenon
<1>8. ASSUME NEW len \in Lengths, buf_alloc(b, len, h, p) PROVE Inv'
  <2>1. PICK o : o = [head |-> h, data |-> p, length |-> len, offset |-> 0]
    BY Zenon
  <2>2. len \in Nat
    BY MemoryAssumption, Zenon
  <2>3. mem' = Malloc(m, len, p) /\ p \in Candidates(m, len) /\ bufs' = [bufs EXCEPT ![b] = o]
    BY <1>2, <1>8, <2>1, Zenon DEF buf_alloc
  <2>4. /\ MemOK(mem') /\ p \in Pairs /\ p \notin DOMAIN m.size /\ DOMAIN mem'.size = DOMAIN m.size \cup {p}
        /\ mem'.size[p] = len /\ \A q \in DOMAIN m.size : mem'.size[q] = m.size[q]
    BY <1>4, <2>2, <2>3, MallocOK
  <2>5. h # p /\ p # None
    BY <1>4, <2>4, PairsReal, Zenon
  <2>6. BufOK(o, mem'.size) /\ Of(o) = {h, p} \ {None}
    BY <1>4, <2>1, <2>2, <2>4, <2>5, NewBuf
  <2>7. Of(o) = {h, p}
    BY <1>6, <2>5, <2>6, Zenon
  <2>8. /\ DOMAIN mem'.size = (DOMAIN mem.size \ Of(bufs[b])) \cup Of(o)
        /\ Of(o) \cap (DOMAIN mem.size \ Of(bufs[b])) = {}
        /\ \A q \in DOMAIN mem.size \ Of(bufs[b]) : mem'.size[q] = mem.size[q]
    BY <1>4, <1>5, <2>4, <2>7, Zenon
  <2> QED
    BY <1>3, <2>3, <2>4, <2>6, <2>8, BufChange, Zenon
<1> QED
  BY <1>7, <1>8, Zenon

\* kore_buf_append and what is built on it: no more bytes are written than there is
\* room for.
LEMMA WriteKeeps ==
  ASSUME Inv, NEW b \in Bufs, NEW len \in Nat \ {0}, NEW n \in Nat, n <= len, NEW p, Write(b, len, n, p)
  PROVE  Inv'
<1>1. PICK o : o = bufs[b]
  BY Zenon
<1>2. MemOK(mem)
  BY Zenon DEF Inv
<1>3. /\ o # None /\ RoomFor(b, len, p) /\ bufs' = [bufs EXCEPT ![b] = Filled(o, len, n, p)]
      /\ UNCHANGED <<held, leaked, strs, refs>>
  BY <1>1, Zenon DEF Write
<1>4. /\ o.head \in Pairs /\ o.head # None /\ o.head # o.data /\ o.data \in Pairs \cup {None}
      /\ o.length \in Nat /\ o.offset \in Nat /\ o.offset <= o.length
      /\ o.data # None => mem.size[o.data] = o.length
      /\ o.data = None => o.length = 0
      /\ Of(o) = {o.head, o.data} \ {None} /\ Of(o) \subseteq DOMAIN mem.size
  BY <1>1, <1>3, BufFacts, Zenon
<1>5. PICK w : w = Filled(o, len, n, p)
  BY Zenon
<1>6. CASE o.offset + len <= o.length
  <2>1. p = o.data /\ mem' = mem
    BY <1>1, <1>3, <1>6, Zenon DEF RoomFor
  <2>2. o.data # None /\ o.data \in Pairs /\ o.offset + n \in Nat /\ o.offset + n <= o.length
    BY <1>4, <1>6
  <2>3. w = [head |-> o.head, data |-> o.data, length |-> o.length, offset |-> o.offset + n]
    BY <1>5, <1>6, <2>1, Zenon DEF Filled
  <2>4. BufOK(w, mem.size) /\ Of(w) = {o.head, o.data} \ {None}
    BY <1>4, <2>2, <2>3, NewBuf
  <2> QED
    BY <1>1, <1>2, <1>3, <1>4, <1>5, <2>1, <2>4, BufChange, Zenon
<1>7. CASE ~(o.offset + len <= o.length)
  <2>1. PICK l : l = o.length + len
    BY Zenon
  <2>2. l \in Nat /\ o.offset + n \in Nat /\ o.offset + n <= l
    BY <1>4, <2>1
  <2>3. w = [head |-> o.head, data |-> p, length |-> l, offset |-> o.offset + n]
    BY <1>5, <1>7, <2>1, Zenon DEF Filled
  <2>4. p \in Candidates(mem, l)
    BY <1>1, <1>3, <1>7, <2>1, Zenon DEF RoomFor
  <2>5. ASSUME p \in Pairs, p \notin DOMAIN mem.size, mem'.size[p] = l
        PROVE  BufOK(w, mem'.size) /\ Of(w) = {o.head, p}
    <3>1. o.head # p /\ p # None
      BY <1>4, <2>5, PairsReal, Zenon
    <3>2. BufOK(w, mem'.size) /\ Of(w) = {o.head, p} \ {None}
      BY <1>4, <2>2, <2>3, <2>5, <3>1, NewBuf
    <3> QED
      BY <1>4, <3>1, <3>2, Zenon
  <2>6. CASE o.data = None
    <3>1. mem' = Malloc(mem, l, p)
      BY <1>1, <1>3, <1>7, <2>1, <2>6, Zenon DEF RoomFor
    <3>2. /\ MemOK(mem') /\ p \in Pairs /\ p \notin DOMAIN mem.size
          /\ DOMAIN mem'.size = DOMAIN mem.size \cup {p}
          /\ mem'.size[p] = l /\ \A q \in DOMAIN mem.size : mem'.size[q] = mem.size[q]
      BY <1>2, <2>2, <2>4, <3>1, MallocOK
    <3>3. BufOK(w, mem'.size) /\ Of(w) = {o.head, p}
      BY <2>5, <3>2, Zenon
    <3>4. Of(o) = {o.head} /\ o.head \in DOMAIN mem.size
      BY <1>4, <2>6, Zenon
    <3> QED
      BY <1>1, <1>3, <1>5, <3>2, <3>3, <3>4, BufChange, ZenonT(60)
  <2>7. CASE o.data # None
    <3>1. mem' = Realloc(mem, o.data, l, p)
      BY <1>1, <1>3, <1>7, <2>1, <2>7, Zenon DEF RoomFor
    <3>2. Of(o) = {o.head, o.data} /\ o.data \in DOMAIN mem.size /\ o.head \in DOMAIN mem.size
      BY <1>4, <2>7, Zenon
    <3>3. /\ MemOK(mem') /\ p \in Pairs /\ p \notin DOMAIN mem.size
          /\ DOMAIN mem'.size = (DOMAIN mem.size \ {o.data}) \cup {p}
          /\ mem'.size[p] = l /\ \A q \in DOMAIN mem.size \ {o.data} : mem'.size[q] = mem.size[q]
      BY <1>2, <2>2, <2>4, <3>1, <3>2, ReallocOK
    <3>4. BufOK(w, mem'.size) /\ Of(w) = {o.head, p}
      BY <2>5, <3>3, Zenon
    <3>5. DOMAIN mem'.size = (DOMAIN mem.size \ Of(o)) \cup Of(w) /\ Of(w) \cap (DOMAIN mem.size \ Of(o)) = {}
      BY <1>4, <3>2, <3>3, <3>4, Zenon
    <3> QED
      BY <1>1, <1>3, <1>5, <3>2, <3>3, <3>4, <3>5, BufChange, Zenon
  <2> QED
    BY <2>6, <2>7, Zenon
<1> QED
  BY <1>6, <1>7, Zenon

\* kore_buf_replace_string
LEMMA ReplaceKeeps ==
  ASSUME Inv, NEW b \in Bufs, NEW klen \in Lengths, NEW len \in Lengths, NEW p,
         buf_replace_string(b, klen, len, p)
  PROVE  Inv'
<1>1. PICK o : o = bufs[b]
  BY Zenon
<1>2. PICK l : l = o.offset + len
  BY Zenon
<1>3. PICK w : w = [head |-> o.head, data |-> p, length |-> l, offset |-> o.offset - klen + len]
  BY Zenon
<1>4. /\ o # None /\ klen <= o.offset /\ p \in Candidates(mem, l) /\ mem' = Realloc(mem, o.data, l, p)
      /\ bufs' = [bufs EXCEPT ![b] = w] /\ UNCHANGED <<held, leaked, strs, refs>>
  BY <1>1, <1>2, <1>3, Zenon DEF buf_replace_string
<1>5. /\ o.head \in Pairs /\ o.head # None /\ o.head # o.data /\ o.data \in Pairs \cup {None}
      /\ o.length \in Nat /\ o.offset \in Nat /\ o.offset <= o.length
      /\ o.data = None => o.length = 0
      /\ Of(o) = {o.head, o.data} \ {None} /\ Of(o) \subseteq DOMAIN mem.size
  BY <1>1, <1>4, BufFacts, Zenon
<1>6. klen \in Nat \ {0} /\ len \in Nat \ {0}
  BY MemoryAssumption, Zenon
<1>7. l \in Nat /\ o.offset - klen + len \in Nat /\ o.offset - klen + len <= l /\ o.length # 0
  BY <1>2, <1>4, <1>5, <1>6
<1>8. Of(o) = {o.head, o.data} /\ o.data \in DOMAIN mem.size /\ o.head \in DOMAIN mem.size
  BY <1>5, <1>7, Zenon
<1>9. MemOK(mem)
  BY Zenon DEF Inv
<1>10. /\ MemOK(mem') /\ p \in Pairs /\ p \notin DOMAIN mem.size
       /\ DOMAIN mem'.size = (DOMAIN mem.size \ {o.data}) \cup {p}
       /\ mem'.size[p] = l /\ \A q \in DOMAIN mem.size \ {o.data} : mem'.size[q] = mem.size[q]
  BY <1>4, <1>7, <1>8, <1>9, ReallocOK
<1>11. o.head # p /\ p # None
  BY <1>8, <1>10, PairsReal, Zenon
<1>12. BufOK(w, mem'.size) /\ Of(w) = {o.head, p} \ {None}
  BY <1>3, <1>5, <1>7, <1>10, <1>11, NewBuf
<1>13. DOMAIN mem'.size = (DOMAIN mem.size \ Of(o)) \cup Of(w) /\ Of(w) \cap (DOMAIN mem.size \ Of(o)) = {}
  BY <1>5, <1>8, <1>10, <1>11, <1>12
<1> QED
  BY <1>1, <1>4, <1>8, <1>10, <1>12, <1>13, BufChange, Zenon

\* kore_buf_reset
LEMMA ResetKeeps ==
  ASSUME Inv, NEW b \in Bufs, buf_reset(b)
  PROVE  Inv'
<1>1. PICK o : o = bufs[b]
  BY Zenon
<1>2. PICK w : w = [o EXCEPT !.offset = 0]
  BY Zenon
<1>3. /\ o # None /\ bufs' = [bufs EXCEPT ![b] = w] /\ mem' = mem
      /\ UNCHANGED <<held, leaked, strs, refs>>
  BY <1>1, <1>2, Zenon DEF buf_reset
<1>4. /\ o.head \in Pairs /\ o.head # None /\ o.head # o.data /\ o.data \in Pairs \cup {None}
      /\ o.length \in Nat
      /\ o.data # None => mem.size[o.data] = o.length
      /\ o.data = None => o.length = 0
      /\ Of(o) = {o.head, o.data} \ {None} /\ Of(o) \subseteq DOMAIN mem.size
  BY <1>1, <1>3, BufFacts, Zenon
<1>5. o = [head |-> o.head, data |-> o.data, length |-> o.length, offset |-> o.offset]
  BY <1>1, <1>3, Zenon DEF Inv, Objects, BufOK
<1>6. w = [head |-> o.head, data |-> o.data, length |-> o.length, offset |-> 0]
  BY <1>2, <1>5, Zenon
<1>7. BufOK(w, mem.size) /\ Of(w) = Of(o)
  BY <1>4, <1>6, NewBuf
<1>8. MemOK(mem)
  BY Zenon DEF Inv
<1> QED
  BY <1>1, <1>3, <1>4, <1>7, <1>8, BufChange, Zenon

\* kore_buf_free
LEMMA FreeKeeps ==
  ASSUME Inv, NEW b \in Bufs, buf_free(b)
  PROVE  Inv'
<1>1. PICK o : o = bufs[b]
  BY Zenon
<1>2. PICK m : m = IF o.data = None THEN mem ELSE Free(mem, o.data)
  BY Zenon
<1>3. /\ o # None /\ mem' = Free(m, o.head) /\ bufs' = [bufs EXCEPT ![b] = None]
      /\ UNCHANGED <<held, leaked, strs, refs>>
  BY <1>1, <1>2, Zenon DEF buf_free
<1>4. /\ o.head # None /\ o.head # o.data
      /\ Of(o) = {o.head, o.data} \ {None} /\ Of(o) \subseteq DOMAIN mem.size
  BY <1>1, <1>3, BufFacts, Zenon
<1>5. MemOK(mem)
  BY Zenon DEF Inv
<1>6. /\ MemOK(m) /\ DOMAIN m.size = DOMAIN mem.size \ (Of(o) \ {o.head})
      /\ \A q \in DOMAIN m.size : m.size[q] = mem.size[q]
  <2>1. CASE o.data = None
    BY <1>2, <1>4, <1>5, <2>1, Zenon
  <2>2. CASE o.data # None
    BY <1>2, <1>4, <1>5, <2>2, FreeOK
  <2> QED
    BY <2>1, <2>2, Zenon
<1>7. o.head \in DOMAIN m.size
  BY <1>4, <1>6, Zenon
<1>8. /\ MemOK(mem') /\ DOMAIN mem'.size = DOMAIN m.size \ {o.head}
      /\ \A q \in DOMAIN m.size \ {o.head} : mem'.size[q] = m.size[q]
  BY <1>3, <1>6, <1>7, FreeOK
<1>9. Of(None) = {} /\ BufOK(None, mem'.size)
  BY Zenon DEF Of, BufOK
<1>10. /\ DOMAIN mem'.size = (DOMAIN mem.size \ Of(o)) \cup Of(None)
       /\ \A q \in DOMAIN mem.size \ Of(o) : mem'.size[q] = mem.size[q]
  BY <1>4, <1>6, <1>8, <1>9, Zenon
<1> QED
  BY <1>1, <1>3, <1>8, <1>9, <1>10, BufChange, Zenon

\* kore_buf_release
LEMMA ReleaseKeeps ==
  ASSUME Inv, NEW b \in Bufs, buf_release(b)
  PROVE  Inv'
<1>1. PICK o : o = bufs[b]
  BY Zenon
<1>2. /\ o # None /\ o.data # None /\ mem' = Free(mem, o.head) /\ held' = held \cup {o.data}
      /\ bufs' = [bufs EXCEPT ![b] = None] /\ UNCHANGED <<leaked, strs, refs>>
  BY <1>1, Zenon DEF buf_release
<1>3. /\ o.head # o.data /\ Of(o) = {o.head, o.data} /\ Of(o) \subseteq DOMAIN mem.size
  BY <1>1, <1>2, BufFacts, Zenon
<1>4. MemOK(mem) /\ Parts(DOMAIN mem.size, held, leaked, DOMAIN refs, Own)
  BY Zenon DEF Inv
<1>5. /\ MemOK(mem') /\ DOMAIN mem'.size = DOMAIN mem.size \ {o.head}
      /\ \A q \in DOMAIN mem.size \ {o.head} : mem'.size[q] = mem.size[q]
  BY <1>2, <1>3, <1>4, FreeOK, Zenon
<1>6. DOMAIN bufs' = Bufs /\ \A c \in Bufs : bufs'[c] = IF c = b THEN None ELSE bufs[c]
  BY <1>2, Zenon DEF Inv, Objects
<1>7. ASSUME NEW c \in Bufs PROVE BufOK(bufs'[c], mem'.size)
  <2>1. CASE c = b
    BY <1>6, <2>1, Zenon DEF BufOK
  <2>2. CASE c # b
    <3>1. BufOK(bufs[c], mem.size)
      BY Zenon DEF Inv, Objects
    <3>2. Of(bufs[c]) \subseteq DOMAIN mem.size \ Of(o)
      BY <1>1, <2>2, OwnBlocks, Zenon
    <3>3. \A q \in Of(bufs[c]) : mem'.size[q] = mem.size[q]
      BY <1>3, <1>5, <3>2, Zenon
    <3> QED
      BY <1>6, <2>2, <3>1, <3>3, BufKept
  <2> QED
    BY <2>1, <2>2, Zenon
<1>8. DOMAIN Own' = Bufs /\ \A c \in Bufs : Own'[c] = IF c = b THEN {} ELSE Own[c]
  BY <1>6, Zenon DEF Own, Of
<1>9. Own[b] = {o.head, o.data}
  BY <1>1, <1>3, OwnBlocks, Zenon
<1>10. Parts((DOMAIN mem.size \ Own[b]) \cup {o.data}, held \cup {o.data}, leaked, DOMAIN refs, Own')
  BY <1>4, <1>8, <1>9, PartsRelease, Zenon
<1>11. (DOMAIN mem.size \ Own[b]) \cup {o.data} = DOMAIN mem'.size
  BY <1>3, <1>5, <1>9, Zenon
<1>12. Counts(strs, refs)'
  BY <1>2, Zenon DEF Inv
<1> QED
  BY <1>2, <1>5, <1>6, <1>7, <1>10, <1>11, <1>12, Zenon DEF Inv, Objects

\* The move assignment of a sparc::buffer.
LEMMA MoveKeeps ==
  ASSUME Inv, NEW b \in Bufs, NEW c \in Bufs, move_assign(b, c)
  PROVE  Inv'
<1>1. /\ b # c /\ bufs' = [bufs EXCEPT ![b] = bufs[c], ![c] = None]
      /\ leaked' = leaked \cup Of(bufs[b]) /\ UNCHANGED <<mem, held, strs, refs>>
  BY Zenon DEF move_assign, Of
<1>2. /\ DOMAIN bufs' = Bufs
      /\ \A d \in Bufs : bufs'[d] = IF d = b THEN bufs[c] ELSE IF d = c THEN None ELSE bufs[d]
  BY <1>1, Zenon DEF Inv, Objects
<1>3. Objects'
  BY <1>1, <1>2, Zenon DEF Inv, Objects, BufOK
<1>4. /\ DOMAIN Own' = Bufs
      /\ \A d \in Bufs : Own'[d] = IF d = b THEN Own[c] ELSE IF d = c THEN {} ELSE Own[d]
  BY <1>2, Zenon DEF Own, Of
<1>5. Own[b] = Of(bufs[b])
  BY OwnBlocks, Zenon
<1>6. Parts(DOMAIN mem.size, held, leaked \cup Own[b], DOMAIN refs, Own')
  BY <1>1, <1>4, PartsMove, Zenon DEF Inv
<1>7. Counts(strs, refs)'
  BY <1>1, Zenon DEF Inv
<1> QED
  BY <1>1, <1>3, <1>5, <1>6, <1>7, Zenon DEF Inv

\* Everything done with buffers.
LEMMA BuffersKeep ==
  ASSUME Inv, NEW b \in Bufs, Buffers(b)
  PROVE  Inv'
<1>1. \A len \in Lengths : len \in Nat \ {0} /\ 3 * len \in Nat \ {0} /\ 2 * len \in Nat /\ 2 * len <= 3 * len
  BY MemoryAssumption
<1>2. ASSUME NEW len \in Lengths, NEW p, buf_append(b, len, p) PROVE Inv'
  BY <1>1, <1>2, WriteKeeps DEF buf_append
<1>3. ASSUME NEW n \in Lengths, NEW p, bytes(b, n, p) PROVE Inv'
  BY <1>1, <1>3, WriteKeeps, Zenon DEF bytes
<1>4. ASSUME NEW p, stringify(b, p) PROVE Inv'
  BY <1>4, WriteKeeps DEF stringify
<1> QED
  BY <1>2, <1>3, <1>4, AllocKeeps, ReplaceKeeps, ResetKeeps, FreeKeeps, ReleaseKeeps, MoveKeeps,
     Zenon DEF Buffers

-----------------------------------------------------------------------------
(* The variables of autostr *)

\* The variables that share a text are finitely many; one more or one less changes
\* their number by one.
LEMMA SharingSize ==
  ASSUME NEW T, NEW U, IsFiniteSet(T), NEW s, s \notin T, U = T \cup {s}
  PROVE  IsFiniteSet(U) /\ Cardinality(U) = Cardinality(T) + 1 /\ Cardinality(T) \in Nat
<1>1. IsFiniteSet(U) /\ Cardinality(U) = Cardinality(T) + 1
  BY FS_AddElement, Zenon
<1>2. Cardinality(T) \in Nat
  BY FS_CardinalityType, Zenon
<1> QED
  BY <1>1, <1>2, Zenon

\* The variables that share a text are finitely many.
LEMMA SharingFinite ==
  ASSUME NEW t, NEW p
  PROVE  IsFiniteSet({s \in Strs : t[s] = p})
<1>1. {s \in Strs : t[s] = p} \subseteq Strs /\ IsFiniteSet(Strs)
  BY MemoryAssumption, Zenon
<1> QED
  BY <1>1, FS_Subset, Zenon

\* The destructor: the counter falls by one, or goes with the last variable.
LEMMA LessCounts ==
  ASSUME NEW t, NEW r, Counts(t, r), DOMAIN r \subseteq Pairs, NEW s \in Strs, t[s] # None, NEW p, p = t[s]
  PROVE  /\ Counts([t EXCEPT ![s] = None], Less(r, p))
         /\ p \in DOMAIN r
         /\ DOMAIN Less(r, p) = IF r[p] = 1 THEN DOMAIN r \ {p} ELSE DOMAIN r
<1>1. PICK u : u = [t EXCEPT ![s] = None]
  BY Zenon
<1>2. PICK l : l = Less(r, p)
  BY Zenon
<1>3. p \in DOMAIN r /\ p # None /\ r[p] \in Nat \ {0} /\ r[p] = Cardinality({v \in Strs : t[v] = p})
  BY Zenon DEF Counts
<1>4. u \in [Strs -> Pairs \cup {None}] /\ \A v \in Strs : u[v] = IF v = s THEN None ELSE t[v]
  BY <1>1, Zenon DEF Counts
<1>5. IsFiniteSet({v \in Strs : u[v] = p})
  BY SharingFinite, Zenon
<1>6. s \notin {v \in Strs : u[v] = p} /\ {v \in Strs : t[v] = p} = {v \in Strs : u[v] = p} \cup {s}
  BY <1>3, <1>4, Zenon
<1>7. r[p] = Cardinality({v \in Strs : u[v] = p}) + 1 /\ Cardinality({v \in Strs : u[v] = p}) \in Nat
  BY <1>3, <1>5, <1>6, SharingSize, Zenon
<1>8. ASSUME NEW q \in DOMAIN r, q # p PROVE {v \in Strs : u[v] = q} = {v \in Strs : t[v] = q}
  <2>1. q # None
    BY <1>8, PairsReal, Zenon
  <2> QED
    BY <1>4, <1>8, <2>1, Zenon
<1>9. CASE r[p] = 1
  <2>1. l = [q \in DOMAIN r \ {p} |-> r[q]]
    BY <1>2, <1>9, Zenon DEF Less
  <2>2. DOMAIN l = DOMAIN r \ {p} /\ \A q \in DOMAIN l : l[q] = r[q]
    BY <2>1, Zenon
  <2>3. {v \in Strs : u[v] = p} = {}
    <3>1. Cardinality({v \in Strs : u[v] = p}) = 0
      BY <1>7, <1>9
    <3> QED
      BY <1>5, <3>1, FS_EmptySet, Zenon
  <2>4. \A v \in Strs : u[v] # None => u[v] \in DOMAIN l
    BY <1>4, <2>2, <2>3, Zenon DEF Counts
  <2>5. \A q \in DOMAIN l : l[q] \in Nat \ {0} /\ l[q] = Cardinality({v \in Strs : u[v] = q})
    BY <1>8, <2>2, Zenon DEF Counts
  <2> QED
    BY <1>1, <1>2, <1>3, <1>4, <1>9, <2>2, <2>4, <2>5 DEF Counts
<1>10. CASE r[p] # 1
  <2>1. l = [r EXCEPT ![p] = r[p] - 1]
    BY <1>2, <1>10, Zenon DEF Less
  <2>2. DOMAIN l = DOMAIN r /\ \A q \in DOMAIN l : l[q] = IF q = p THEN r[p] - 1 ELSE r[q]
    BY <2>1, Zenon
  <2>3. \A v \in Strs : u[v] # None => u[v] \in DOMAIN l
    BY <1>4, <2>2, Zenon DEF Counts
  <2>4. r[p] - 1 \in Nat \ {0} /\ r[p] - 1 = Cardinality({v \in Strs : u[v] = p})
    BY <1>3, <1>7, <1>10
  <2>5. \A q \in DOMAIN l : l[q] \in Nat \ {0} /\ l[q] = Cardinality({v \in Strs : u[v] = q})
    BY <1>8, <2>2, <2>4, ZenonT(60) DEF Counts
  <2> QED
    BY <1>1, <1>2, <1>3, <1>4, <1>10, <2>2, <2>3, <2>5 DEF Counts
<1> QED
  BY <1>9, <1>10, Zenon

\* A share of a text: the counter rises by one.
LEMMA MoreCounts ==
  ASSUME NEW t, NEW r, Counts(t, r), DOMAIN r \subseteq Pairs, NEW s \in Strs, t[s] = None, NEW p \in DOMAIN r
  PROVE  Counts([t EXCEPT ![s] = p], [r EXCEPT ![p] = @ + 1])
<1>1. PICK u : u = [t EXCEPT ![s] = p]
  BY Zenon
<1>2. PICK l : l = [r EXCEPT ![p] = @ + 1]
  BY Zenon
<1>3. p \in Pairs /\ p # None /\ r[p] \in Nat \ {0} /\ r[p] = Cardinality({v \in Strs : t[v] = p})
  BY PairsReal, Zenon DEF Counts
<1>4. u \in [Strs -> Pairs \cup {None}] /\ \A v \in Strs : u[v] = IF v = s THEN p ELSE t[v]
  BY <1>1, <1>3, Zenon DEF Counts
<1>5. IsFiniteSet({v \in Strs : t[v] = p})
  BY SharingFinite, Zenon
<1>6. s \notin {v \in Strs : t[v] = p} /\ {v \in Strs : u[v] = p} = {v \in Strs : t[v] = p} \cup {s}
  BY <1>3, <1>4, Zenon
<1>7. r[p] + 1 = Cardinality({v \in Strs : u[v] = p})
  BY <1>3, <1>5, <1>6, SharingSize, Zenon
<1>8. ASSUME NEW q \in DOMAIN r, q # p PROVE {v \in Strs : u[v] = q} = {v \in Strs : t[v] = q}
  <2>1. q # None
    BY <1>8, PairsReal, Zenon
  <2> QED
    BY <1>4, <1>8, <2>1, Zenon
<1>9. DOMAIN l = DOMAIN r /\ \A q \in DOMAIN l : l[q] = IF q = p THEN r[p] + 1 ELSE r[q]
  BY <1>2, Zenon
<1>10. \A v \in Strs : u[v] # None => u[v] \in DOMAIN l
  BY <1>4, <1>9, Zenon DEF Counts
<1>11. r[p] + 1 \in Nat \ {0}
  BY <1>3
<1>12. \A q \in DOMAIN l : l[q] \in Nat \ {0} /\ l[q] = Cardinality({v \in Strs : u[v] = q})
  BY <1>7, <1>8, <1>9, <1>11, Zenon DEF Counts
<1> QED
  BY <1>1, <1>2, <1>4, <1>10, <1>12 DEF Counts

\* A new text has one variable.
LEMMA NewCounts ==
  ASSUME NEW t, NEW r, Counts(t, r), DOMAIN r \subseteq Pairs, NEW s \in Strs, t[s] = None,
         NEW p \in Pairs, p \notin DOMAIN r,
         NEW l, DOMAIN l = DOMAIN r \cup {p}, l[p] = 1, \A q \in DOMAIN r : l[q] = r[q]
  PROVE  Counts([t EXCEPT ![s] = p], l)
<1>1. PICK u : u = [t EXCEPT ![s] = p]
  BY Zenon
<1>3. p # None
  BY PairsReal, Zenon
<1>4. u \in [Strs -> Pairs \cup {None}] /\ \A v \in Strs : u[v] = IF v = s THEN p ELSE t[v]
  BY <1>1, Zenon DEF Counts
<1>5. {v \in Strs : u[v] = p} = {s}
  BY <1>3, <1>4 DEF Counts
<1>6. Cardinality({v \in Strs : u[v] = p}) = 1
  BY <1>5, FS_Singleton, Zenon
<1>7. ASSUME NEW q \in DOMAIN r PROVE q # p /\ {v \in Strs : u[v] = q} = {v \in Strs : t[v] = q}
  <2>1. q # None
    BY <1>7, PairsReal, Zenon
  <2> QED
    BY <1>4, <2>1, Zenon
<1>8. DOMAIN l = DOMAIN r \cup {p} /\ \A q \in DOMAIN l : l[q] = IF q = p THEN 1 ELSE r[q]
  BY Zenon
<1>9. \A v \in Strs : u[v] # None => u[v] \in DOMAIN l
  BY <1>4, <1>8, Zenon DEF Counts
<1>10. \A q \in DOMAIN l : l[q] \in Nat \ {0} /\ l[q] = Cardinality({v \in Strs : u[v] = q})
  BY <1>6, <1>7, <1>8 DEF Counts
<1>11. Counts(u, l)
  BY <1>4, <1>9, <1>10, Zenon DEF Counts
<1> QED
  BY <1>1, <1>11, Zenon

\* An operation on the variables of autostr that takes only a block that is free and
\* touches no block of anyone else.
LEMMA StrChange ==
  ASSUME Inv, UNCHANGED <<held, leaked, bufs>>, MemOK(mem'), Counts(strs', refs'),
         DOMAIN refs' \cap (DOMAIN mem.size \ DOMAIN refs) = {},
         DOMAIN mem'.size = (DOMAIN mem.size \ DOMAIN refs) \cup DOMAIN refs',
         \A q \in DOMAIN mem.size \ DOMAIN refs : mem'.size[q] = mem.size[q]
  PROVE  Inv'
<1>1. Objects' /\ Own' = Own
  BY ObjectsKept, Zenon
<1>2. Parts((DOMAIN mem.size \ DOMAIN refs) \cup DOMAIN refs', held, leaked, DOMAIN refs', Own)
  BY PartsRefs, Zenon DEF Inv
<1> QED
  BY <1>1, <1>2, Zenon DEF Inv

\* The last variable frees the text.
LEMMA DroppedOK ==
  ASSUME NEW m, MemOK(m), NEW r, NEW p \in DOMAIN m.size
  PROVE  /\ MemOK(Dropped(m, r, p))
         /\ r[p] = 1 => DOMAIN Dropped(m, r, p).size = DOMAIN m.size \ {p}
         /\ r[p] # 1 => DOMAIN Dropped(m, r, p).size = DOMAIN m.size
         /\ \A q \in DOMAIN m.size \ {p} : Dropped(m, r, p).size[q] = m.size[q]
  BY FreeOK, Zenon DEF Dropped

\* Everything done with the variables of autostr.
LEMMA StringsKeep ==
  ASSUME Inv, NEW s \in Strs, Strings(s)
  PROVE  Inv'
<1>1. /\ MemOK(mem) /\ Counts(strs, refs) /\ DOMAIN refs \subseteq DOMAIN mem.size
      /\ DOMAIN mem.size \subseteq Pairs
  BY Zenon DEF Inv, Parts, MemOK, MemType
<1>2. DOMAIN refs \subseteq Pairs
  BY <1>1, Zenon
<1>3. ASSUME NEW len \in Lengths, NEW p \in Blocks, autostr_new(s, len, p) PROVE Inv'
  <2>1. /\ strs[s] = None /\ p \in Candidates(mem, len) /\ mem' = Malloc(mem, len, p)
        /\ strs' = [strs EXCEPT ![s] = p] /\ UNCHANGED <<held, leaked, bufs>>
        /\ refs' = [q \in DOMAIN refs \cup {p} |-> IF q = p THEN 1 ELSE refs[q]]
    BY <1>3, Zenon DEF autostr_new
  <2>2. len \in Nat
    BY MemoryAssumption, Zenon
  <2>3. /\ MemOK(mem') /\ p \in Pairs /\ p \notin DOMAIN mem.size
        /\ DOMAIN mem'.size = DOMAIN mem.size \cup {p}
        /\ \A q \in DOMAIN mem.size : mem'.size[q] = mem.size[q]
    BY <1>1, <2>1, <2>2, MallocOK
  <2>4. p \notin DOMAIN refs
    BY <1>1, <2>3, Zenon
  <2>5. Counts(strs', refs')
    <3>1. DOMAIN refs' = DOMAIN refs \cup {p} /\ refs'[p] = 1 /\ \A q \in DOMAIN refs : refs'[q] = refs[q]
      BY <2>1, <2>4, Zenon
    <3>2. strs[s] = None /\ p \in Pairs /\ p \notin DOMAIN refs /\ Counts(strs, refs)
      BY <1>1, <2>1, <2>3, <2>4, Zenon
    <3>3. Counts([strs EXCEPT ![s] = p], refs')
      BY <1>2, <3>1, <3>2, NewCounts
    <3> QED
      BY <2>1, <3>3, Zenon
  <2>6. DOMAIN refs' = DOMAIN refs \cup {p}
    BY <2>1, Zenon
  <2>7. /\ DOMAIN refs' \cap (DOMAIN mem.size \ DOMAIN refs) = {}
        /\ DOMAIN mem'.size = (DOMAIN mem.size \ DOMAIN refs) \cup DOMAIN refs'
    BY <1>1, <2>3, <2>6, Zenon
  <2> QED
    BY <2>1, <2>3, <2>5, <2>7, StrChange, Zenon
<1>4. ASSUME NEW t \in Strs, autostr_copy(s, t) PROVE Inv'
  <2>1. PICK p : p = strs[t]
    BY Zenon
  <2>2. /\ strs[s] = None /\ p # None /\ strs' = [strs EXCEPT ![s] = p]
        /\ refs' = [refs EXCEPT ![p] = @ + 1] /\ UNCHANGED <<mem, held, leaked, bufs>>
    BY <1>4, <2>1, Zenon DEF autostr_copy
  <2>3. p \in DOMAIN refs
    BY <1>1, <2>1, <2>2, Zenon DEF Counts
  <2>4. Counts(strs', refs')
    BY <1>1, <1>2, <2>2, <2>3, MoreCounts, Zenon
  <2>5. DOMAIN refs' = DOMAIN refs
    BY <2>2, Zenon
  <2>6. /\ DOMAIN refs' \cap (DOMAIN mem.size \ DOMAIN refs) = {}
        /\ DOMAIN mem'.size = (DOMAIN mem.size \ DOMAIN refs) \cup DOMAIN refs'
    BY <1>1, <2>2, <2>5, Zenon
  <2> QED
    BY <1>1, <2>2, <2>4, <2>6, StrChange, Zenon
<1>5. ASSUME strs[s] # None
      PROVE  LET r == Less(refs, strs[s])
                 m == Dropped(mem, refs, strs[s])
             IN /\ MemOK(m) /\ Counts([strs EXCEPT ![s] = None], r) /\ DOMAIN r \subseteq DOMAIN refs
                /\ DOMAIN m.size = (DOMAIN mem.size \ DOMAIN refs) \cup DOMAIN r
                /\ \A q \in DOMAIN mem.size \ DOMAIN refs : m.size[q] = mem.size[q]
  <2>1. PICK p : p = strs[s]
    BY Zenon
  <2>2. PICK r : r = Less(refs, p)
    BY Zenon
  <2>3. PICK m : m = Dropped(mem, refs, p)
    BY Zenon
  <2>4. /\ Counts([strs EXCEPT ![s] = None], r) /\ p \in DOMAIN refs
        /\ DOMAIN r = IF refs[p] = 1 THEN DOMAIN refs \ {p} ELSE DOMAIN refs
    BY <1>1, <1>2, <1>5, <2>1, <2>2, LessCounts
  <2>5. p \in DOMAIN mem.size
    BY <1>1, <2>4, Zenon
  <2>6. /\ MemOK(m) /\ DOMAIN m.size = (IF refs[p] = 1 THEN DOMAIN mem.size \ {p} ELSE DOMAIN mem.size)
        /\ \A q \in DOMAIN mem.size \ {p} : m.size[q] = mem.size[q]
    <3>1. /\ MemOK(Dropped(mem, refs, p))
          /\ refs[p] = 1 => DOMAIN Dropped(mem, refs, p).size = DOMAIN mem.size \ {p}
          /\ refs[p] # 1 => DOMAIN Dropped(mem, refs, p).size = DOMAIN mem.size
          /\ \A q \in DOMAIN mem.size \ {p} : Dropped(mem, refs, p).size[q] = mem.size[q]
      BY <1>1, <2>5, DroppedOK
    <3> QED
      BY <2>3, <3>1, Zenon
  <2>7. /\ DOMAIN r \subseteq DOMAIN refs
        /\ DOMAIN m.size = (DOMAIN mem.size \ DOMAIN refs) \cup DOMAIN r
        /\ \A q \in DOMAIN mem.size \ DOMAIN refs : m.size[q] = mem.size[q]
    BY <1>1, <2>4, <2>5, <2>6, Zenon
  <2> QED
    BY <2>1, <2>2, <2>3, <2>4, <2>6, <2>7, Zenon
<1>6. ASSUME NEW t \in Strs, autostr_assign(s, t) PROVE Inv'
  <2>1. PICK p : p = strs[t]
    BY Zenon
  <2>2. PICK r : r = Less(refs, strs[s])
    BY Zenon
  <2>3. PICK u : u = [strs EXCEPT ![s] = None]
    BY Zenon
  <2>4. /\ s # t /\ strs[s] # None /\ p # None /\ mem' = Dropped(mem, refs, strs[s])
        /\ refs' = [r EXCEPT ![p] = @ + 1] /\ strs' = [strs EXCEPT ![s] = p]
        /\ UNCHANGED <<held, leaked, bufs>>
    BY <1>6, <2>1, <2>2, Zenon DEF autostr_assign
  <2>5. /\ MemOK(mem') /\ Counts(u, r) /\ DOMAIN r \subseteq DOMAIN refs
        /\ DOMAIN mem'.size = (DOMAIN mem.size \ DOMAIN refs) \cup DOMAIN r
        /\ \A q \in DOMAIN mem.size \ DOMAIN refs : mem'.size[q] = mem.size[q]
    BY <1>5, <2>2, <2>3, <2>4, Zenon
  <2>6. strs \in [Strs -> Pairs \cup {None}]
    BY <1>1, Zenon DEF Counts
  <2>7. u[s] = None /\ u[t] = p /\ strs' = [u EXCEPT ![s] = p]
    BY <2>1, <2>3, <2>4, <2>6, Zenon
  <2>8. p \in DOMAIN r
    BY <2>4, <2>5, <2>7, Zenon DEF Counts
  <2>9. DOMAIN r \subseteq Pairs
    BY <1>2, <2>5, Zenon
  <2>10. Counts(strs', refs')
    <3>1. Counts([u EXCEPT ![s] = p], [r EXCEPT ![p] = @ + 1])
      BY <2>5, <2>7, <2>8, <2>9, MoreCounts, Zenon
    <3> QED
      BY <2>4, <2>7, <3>1, Zenon
  <2>11. DOMAIN refs' = DOMAIN r
    BY <2>4, Zenon
  <2>12. DOMAIN refs' \cap (DOMAIN mem.size \ DOMAIN refs) = {}
    BY <2>5, <2>11, Zenon
  <2> QED
    BY <2>4, <2>5, <2>10, <2>11, <2>12, StrChange, Zenon
<1>7. ASSUME autostr_destroy(s) PROVE Inv'
  <2>1. /\ strs[s] # None /\ mem' = Dropped(mem, refs, strs[s]) /\ refs' = Less(refs, strs[s])
        /\ strs' = [strs EXCEPT ![s] = None] /\ UNCHANGED <<held, leaked, bufs>>
    BY <1>7, Zenon DEF autostr_destroy
  <2>2. /\ MemOK(mem') /\ Counts(strs', refs') /\ DOMAIN refs' \subseteq DOMAIN refs
        /\ DOMAIN mem'.size = (DOMAIN mem.size \ DOMAIN refs) \cup DOMAIN refs'
        /\ \A q \in DOMAIN mem.size \ DOMAIN refs : mem'.size[q] = mem.size[q]
    BY <1>5, <2>1, Zenon
  <2>3. DOMAIN refs' \cap (DOMAIN mem.size \ DOMAIN refs) = {}
    BY <2>2, Zenon
  <2> QED
    BY <2>1, <2>2, <2>3, StrChange, Zenon
<1> QED
  BY <1>3, <1>4, <1>6, <1>7, Zenon DEF Strings

-----------------------------------------------------------------------------
(* The results *)

\* kore_mem_init leaves no block in use.
LEMMA InitInv ==
  Init => Inv
<1> SUFFICES ASSUME Init PROVE Inv
  BY Zenon
<1>1. PICK n : n = [c \in 0 .. Heap |-> IF c = Heap THEN MaxElms ELSE Prealloc[c]]
  BY Zenon
<1>2. /\ mem.free = [c \in 0 .. Heap |-> {<<c, i>> : i \in 1 .. n[c]}]
      /\ mem.elms = n /\ mem.size = [p \in {} |-> 0]
  BY <1>1, Zenon DEF Init
<1>3. n \in [0 .. Heap -> Nat]
  BY <1>1, MemoryAssumption DEF Heap, Class
<1>4. DOMAIN mem.size = {}
  BY <1>2, Zenon
<1>5. ASSUME NEW c \in 0 .. Heap
      PROVE  mem.free[c] \subseteq Pairs /\ \A p \in mem.free[c] : p[1] = c /\ p[2] \in 1 .. mem.elms[c]
  <2>1. mem.free[c] = {<<c, i>> : i \in 1 .. n[c]} /\ mem.elms[c] = n[c] /\ n[c] \in Nat
    BY <1>2, <1>3, Zenon
  <2> QED
    BY <2>1 DEF Pairs
<1>6. mem.free \in [0 .. Heap -> SUBSET Pairs]
  <2>1. mem.free = [c \in 0 .. Heap |-> mem.free[c]]
    BY <1>2, Zenon
  <2> QED
    BY <1>5, <2>1, Zenon
<1>7. MemOK(mem)
  BY <1>2, <1>3, <1>4, <1>5, <1>6, Zenon DEF MemOK, MemType, Apart
<1>8. Objects
  BY Zenon DEF Init, Objects, BufOK
<1>9. DOMAIN refs = {} /\ held = {} /\ leaked = {} /\ DOMAIN Own = Bufs /\ \A b \in Bufs : Own[b] = {}
  BY Zenon DEF Init, Own, Of
<1>10. Parts(DOMAIN mem.size, held, leaked, DOMAIN refs, Own)
  BY <1>4, <1>9, Zenon DEF Parts
<1>11. Counts(strs, refs)
  BY <1>9, Zenon DEF Init, Counts
<1> QED
  BY <1>7, <1>8, <1>10, <1>11, Zenon DEF Inv

\* Every operation of callers, buffers and autostr keeps the invariant.
LEMMA NextInv ==
  Inv /\ [Next]_vars => Inv'
<1> SUFFICES ASSUME Inv, [Next]_vars PROVE Inv'
  BY Zenon
<1>1. CASE Next
  BY <1>1, HeapsKeep, BuffersKeep, StringsKeep, Zenon DEF Next
<1>2. CASE UNCHANGED vars
  <2>1. mem' = mem /\ held' = held /\ leaked' = leaked /\ bufs' = bufs /\ strs' = strs /\ refs' = refs
    BY <1>2, Zenon DEF vars
  <2>2. Own' = Own /\ (Objects => Objects')
    BY <2>1, Zenon DEF Own, Objects
  <2> QED
    BY <2>1, <2>2, Zenon DEF Inv
<1> QED
  BY <1>1, <1>2, Zenon

\* kore_malloc never hands out a block that is in use, and kore_free returns every block
\* to the pool it came from, whatever the size classes are and however the pools grow.
THEOREM AllocatorSound ==
  Spec => []BlocksApart
<1>1. Inv => BlocksApart
  BY Zenon DEF Inv, MemOK, Apart, BlocksApart
<1> QED
  BY <1>1, InitInv, NextInv, PTL DEF Spec

\* A block in use is counted once by OneOwner.
LEMMA OwnerFound ==
  ASSUME Inv, NEW p \in DOMAIN mem.size
  PROVE  Cardinality(Owners(p)) + Cardinality({p} \cap held) + Cardinality({p} \cap leaked)
           + Cardinality({p} \cap DOMAIN refs) = 1
<1>1. p # None
  BY PairsReal, Zenon DEF Inv, MemOK, MemType
<1>2. \A b \in Bufs : b \in Owners(p) <=> p \in Of(bufs[b])
  BY <1>1, Zenon DEF Owners, Of
<1>3. Owners(p) \subseteq Bufs
  BY Zenon DEF Owners
<1>4. \A b \in Bufs : p \in Of(bufs[b]) <=> p \in Own[b]
  BY Zenon DEF Own
<1>5. Parts(DOMAIN mem.size, held, leaked, DOMAIN refs, Own)
  BY Zenon DEF Inv
<1>6. Cardinality({p}) = 1 /\ Cardinality({}) = 0
  BY FS_Singleton, FS_EmptySet, Zenon
<1>7. CASE p \in held \cup leaked \cup DOMAIN refs
  <2>1. Owners(p) = {}
    BY <1>2, <1>3, <1>4, <1>5, <1>7, Zenon DEF Parts
  <2>2. \/ {p} \cap held = {p} /\ {p} \cap leaked = {} /\ {p} \cap DOMAIN refs = {}
        \/ {p} \cap held = {} /\ {p} \cap leaked = {p} /\ {p} \cap DOMAIN refs = {}
        \/ {p} \cap held = {} /\ {p} \cap leaked = {} /\ {p} \cap DOMAIN refs = {p}
    BY <1>5, <1>7 DEF Parts
  <2> QED
    BY <1>6, <2>1, <2>2
<1>8. CASE p \notin held \cup leaked \cup DOMAIN refs
  <2>1. PICK b \in Bufs : p \in Own[b]
    BY <1>5, <1>8 DEF Parts
  <2>2. \A c \in Bufs : p \in Own[c] => c = b
    BY <1>5, <2>1, Zenon DEF Parts
  <2>3. Owners(p) = {b}
    BY <1>2, <1>3, <1>4, <2>1, <2>2, Zenon
  <2>4. Cardinality(Owners(p)) = 1
    BY <2>3, FS_Singleton, Zenon
  <2>5. {p} \cap held = {} /\ {p} \cap leaked = {} /\ {p} \cap DOMAIN refs = {}
    BY <1>8, Zenon
  <2> QED
    BY <1>6, <2>4, <2>5
<1> QED
  BY <1>7, <1>8, Zenon

\* Buffers stay inside their blocks, every block in use has exactly one owner, and a
\* shared text lives as long as a variable that shares it, for any number of buffers and
\* variables and every order of kore_buf_append, _replace_string, _release, _free, move
\* assignments, copies, assignments and destructors.
THEOREM MemoryHeldSound ==
  Spec => []HeldSound
<1>1. Inv => HeldSound
  <2> SUFFICES ASSUME Inv PROVE BufFits /\ OneOwner
    BY Zenon DEF HeldSound
  <2>1. BufFits
    BY Zenon DEF Inv, Objects, BufOK, BufFits
  <2>2. \A b \in Bufs : bufs[b] # None => {bufs[b].head, bufs[b].data} \ {None} \subseteq DOMAIN mem.size
    BY OwnBlocks, Zenon DEF Of
  <2>3. held \cup leaked \cup DOMAIN refs \subseteq DOMAIN mem.size
    BY Zenon DEF Inv, Parts
  <2>4. /\ \A p \in DOMAIN refs : refs[p] = Cardinality({s \in Strs : strs[s] = p})
        /\ \A s \in Strs : strs[s] # None => strs[s] \in DOMAIN refs
    BY Zenon DEF Inv, Counts
  <2> QED
    BY <2>1, <2>2, <2>3, <2>4, OwnerFound, Zenon DEF OneOwner
<1> QED
  BY <1>1, InitInv, NextInv, PTL DEF Spec
=============================================================================
