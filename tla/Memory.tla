------------------------------- MODULE Memory -------------------------------
(***************************************************************************)
(* The allocator and what is built on it: the pools of base/kore/pool.c,   *)
(* the size classes of mem.c, the growing buffers of buf.c with their      *)
(* C++ face sparc::buffer, and the reference counted autostr of util.cpp.  *)
(*                                                                         *)
(* A pool element is <<class, number>>; the class after the last is calloc *)
(* of the C library.  Which free element comes first is left open.  Of the *)
(* contents of memory only lengths are kept.                               *)
(***************************************************************************)
EXTENDS Integers, FiniteSets

CONSTANTS Classes,   \* KORE_MEM_BLOCKS
          BlockSize, \* the largest length of each class, 8 << i
          Prealloc,  \* elements kore_mem_init gives each class
          HeadLen,   \* sizeof(struct kore_buf)
          Bufs, Strs, \* names for buffers and for autostr variables
          Lengths,   \* the lengths asked for
          MaxLength, \* bound: the length of a buffer
          MaxElms,   \* bound: elements of a class
          MaxInUse   \* bound: blocks in use when one more is asked for

Class == 0 .. Classes - 1
Heap == Classes

ASSUME MemoryAssumption ==
  /\ Classes \in Nat \ {0} /\ BlockSize \in [Class -> Nat \ {0}]
  /\ \A c, d \in Class : c < d => BlockSize[c] < BlockSize[d]
  /\ Prealloc \in [Class -> Nat \ {0}]
  /\ Lengths \subseteq Nat \ {0} /\ MaxLength \in Nat /\ HeadLen \in Nat \ {0}
  /\ MaxElms \in Nat /\ MaxInUse \in Nat
  /\ IsFiniteSet(Bufs) /\ IsFiniteSet(Strs)

VARIABLES
  mem,   \* [free, elms, size]: the free lists, the elements of each pool, and the
         \* length stored in front of every block in use
  held,  \* the blocks plain callers of kore_malloc hold
  leaked, \* the blocks nobody can reach any more
  bufs,  \* the buffers: [head, data, length, offset], or None
  strs,  \* the autostr variables: the counter each one shares, or None
  refs   \* the counters in use: *ref of each

vars == <<mem, held, leaked, bufs, strs, refs>>

None == <<>>

-----------------------------------------------------------------------------
(* pool.c and mem.c                                                        *)

\* memblock_index: the first class that is large enough.
memblock_index(len) == CHOOSE c \in Class : /\ len <= BlockSize[c]
                                            /\ \A d \in Class : len <= BlockSize[d] => c <= d

\* Where kore_malloc takes a block of this length from.
ClassOf(len) == IF len <= BlockSize[Classes - 1] THEN memblock_index(len) ELSE Heap

\* Mutant: the elements of a new region are numbered from the last one of the old.
GrownOverlapping(m, c) ==
  IF c = Heap \/ m.free[c] # {} THEN m
  ELSE [free |-> [m.free EXCEPT ![c] = {<<c, i>> : i \in m.elms[c] .. 2 * m.elms[c]}],
        elms |-> [m.elms EXCEPT ![c] = 2 * m.elms[c]], size |-> m.size]

\* pool_region_create when a pool is exhausted: as many elements again.
Grown(m, c) ==
  IF c = Heap \/ m.free[c] # {} THEN m
  ELSE [free |-> [m.free EXCEPT ![c] = {<<c, i>> : i \in m.elms[c] + 1 .. 2 * m.elms[c]}],
        elms |-> [m.elms EXCEPT ![c] = 2 * m.elms[c]], size |-> m.size]

\* The blocks kore_malloc(len) may return.
Candidates(m, len) == Grown(m, ClassOf(len)).free[ClassOf(len)]

\* The memory after kore_malloc(len) returned p: kore_pool_get, and the length
\* stored in front of the block.
Malloc(m, len, p) ==
  LET g == Grown(m, ClassOf(len))
  IN [free |-> [g.free EXCEPT ![ClassOf(len)] = g.free[ClassOf(len)] \ {p}],
      elms |-> g.elms,
      size |-> [q \in DOMAIN m.size \cup {p} |-> IF q = p THEN len ELSE m.size[q]]]

\* kore_free: kore_pool_put to the class of the stored length, or free().
Free(m, p) ==
  LET c == ClassOf(m.size[p])
  IN [free |-> [m.free EXCEPT ![c] = m.free[c] \cup {p}],
      elms |-> m.elms,
      size |-> [q \in DOMAIN m.size \ {p} |-> m.size[q]]]

\* kore_realloc of a block: a new block, a copy, and the old block is freed.
Realloc(m, p, len, q) == Free(Malloc(m, len, q), p)

\* The bounds leave room for another block.
Room == /\ \A c \in Class : mem.elms[c] <= MaxElms
        /\ Cardinality(DOMAIN mem.size) < MaxInUse

\* kore_mem_init.  The C library's blocks are there from the start.
Init == /\ mem = LET n == [c \in 0 .. Heap |-> IF c = Heap THEN MaxElms ELSE Prealloc[c]]
                 IN [free |-> [c \in 0 .. Heap |-> {<<c, i>> : i \in 1 .. n[c]}],
                     elms |-> n, size |-> [p \in {} |-> 0]]
        /\ held = {} /\ leaked = {}
        /\ bufs = [b \in Bufs |-> None]
        /\ strs = [s \in Strs |-> None] /\ refs = [r \in {} |-> 0]

\* kore_malloc, kore_calloc and kore_strndup for a caller that keeps the block.
DoMalloc(len, p) == /\ Room /\ p \in Candidates(mem, len)
                    /\ mem' = Malloc(mem, len, p)
                    /\ held' = held \cup {p}
                    /\ UNCHANGED <<leaked, bufs, strs, refs>>

DoRealloc(len, p, q) == /\ Room /\ p \in held /\ q \in Candidates(mem, len)
                        /\ mem' = Realloc(mem, p, len, q)
                        /\ held' = (held \ {p}) \cup {q}
                        /\ UNCHANGED <<leaked, bufs, strs, refs>>

DoFree(p) == /\ p \in held
             /\ mem' = Free(mem, p)
             /\ held' = held \ {p}
             /\ UNCHANGED <<leaked, bufs, strs, refs>>

-----------------------------------------------------------------------------
(* buf.c and sparc::buffer                                                 *)

\* kore_buf_alloc with an initial length: the header, then the data.
buf_alloc(b, len, h, p) ==
  /\ Room /\ bufs[b] = None
  /\ h \in Candidates(mem, HeadLen)
  /\ LET m == Malloc(mem, HeadLen, h)
     IN p \in Candidates(m, len) /\ mem' = Malloc(m, len, p)
  /\ bufs' = [bufs EXCEPT ![b] = [head |-> h, data |-> p, length |-> len, offset |-> 0]]
  /\ UNCHANGED <<held, leaked, strs, refs>>

\* kore_buf_alloc(0): there is no data yet.
buf_alloc_empty(b, h) ==
  /\ Room /\ bufs[b] = None
  /\ h \in Candidates(mem, HeadLen)
  /\ mem' = Malloc(mem, HeadLen, h)
  /\ bufs' = [bufs EXCEPT ![b] = [head |-> h, data |-> None, length |-> 0, offset |-> 0]]
  /\ UNCHANGED <<held, leaked, strs, refs>>

\* The head of kore_buf_append and kore_buf_reserve: when the bytes do not fit, the
\* length grows by their number and the data move to a block p of that length.
RoomFor(b, len, p) ==
  LET o == bufs[b] IN
  IF o.offset + len <= o.length THEN p = o.data /\ mem' = mem
  ELSE IF o.data = None THEN p \in Candidates(mem, o.length + len) /\ mem' = Malloc(mem, o.length + len, p)
  ELSE p \in Candidates(mem, o.length + len) /\ mem' = Realloc(mem, o.data, o.length + len, p)

\* The buffer once there is room for len bytes and n of them are written.
Filled(o, len, n, p) ==
  [head |-> o.head, data |-> p,
   length |-> IF o.offset + len <= o.length THEN o.length ELSE o.length + len,
   offset |-> o.offset + n]

\* kore_buf_append (and appendf, appendv) writes all of the len bytes it makes room
\* for; buffer::bytes reserves three characters a byte and writes two, and a NUL.
Write(b, len, n, p) ==
  /\ Room /\ bufs[b] # None /\ bufs[b].length + len <= MaxLength
  /\ RoomFor(b, len, p)
  /\ bufs' = [bufs EXCEPT ![b] = Filled(bufs[b], len, n, p)]
  /\ UNCHANGED <<held, leaked, strs, refs>>

buf_append(b, len, p) == Write(b, len, len, p)
bytes(b, n, p) == Write(b, 3 * n, 2 * n, p)

\* kore_buf_stringify: a NUL is appended unless the last byte is one.  In an empty
\* buffer the byte looked at is the high byte of the length stored in front of the
\* data, always zero, so nothing is appended; without data the process faults.
stringify(b, p) ==
  /\ bufs[b] # None /\ bufs[b].data # None /\ bufs[b].offset > 0
  /\ Write(b, 1, 1, p)

\* kore_buf_reset.
buf_reset(b) == /\ bufs[b] # None
                /\ bufs' = [bufs EXCEPT ![b].offset = 0]
                /\ UNCHANGED <<mem, held, leaked, strs, refs>>

\* One round of kore_buf_replace_string: klen bytes found in the data make way for
\* len bytes, in a new block as long as the old contents and the len bytes.
buf_replace_string(b, klen, len, p) ==
  /\ Room /\ bufs[b] # None /\ klen <= bufs[b].offset
  /\ LET o == bufs[b] IN
       /\ o.offset + len <= MaxLength
       /\ p \in Candidates(mem, o.offset + len)
       /\ mem' = Realloc(mem, o.data, o.offset + len, p)
       /\ bufs' = [bufs EXCEPT ![b] = [head |-> o.head, data |-> p, length |-> o.offset + len,
                                       offset |-> o.offset - klen + len]]
  /\ UNCHANGED <<held, leaked, strs, refs>>

\* kore_buf_free, and the destructor of a sparc::buffer: the data, then the header.
buf_free(b) ==
  /\ bufs[b] # None
  /\ LET o == bufs[b]
         m == IF o.data = None THEN mem ELSE Free(mem, o.data)
     IN mem' = Free(m, o.head)
  /\ bufs' = [bufs EXCEPT ![b] = None]
  /\ UNCHANGED <<held, leaked, strs, refs>>

\* kore_buf_release: the caller keeps the data, the header is freed.
buf_release(b) ==
  /\ bufs[b] # None /\ bufs[b].data # None
  /\ mem' = Free(mem, bufs[b].head)
  /\ held' = held \cup {bufs[b].data}
  /\ bufs' = [bufs EXCEPT ![b] = None]
  /\ UNCHANGED <<leaked, strs, refs>>

\* The move assignment b = std::move(c) of a sparc::buffer: what b had is not freed.
move_assign(b, c) ==
  /\ b # c
  /\ bufs' = [bufs EXCEPT ![b] = bufs[c], ![c] = None]
  /\ leaked' = leaked \cup (IF bufs[b] = None THEN {} ELSE {bufs[b].head, bufs[b].data} \ {None})
  /\ UNCHANGED <<mem, held, strs, refs>>

-----------------------------------------------------------------------------
(* auto_obj and autostr: a counter is named by the text it guards          *)

\* The destructor of autostr and of auto_obj: the last one out frees text and counter.
Dropped(m, r, p) == IF r[p] = 1 THEN Free(m, p) ELSE m
Less(r, p) == IF r[p] = 1 THEN [q \in DOMAIN r \ {p} |-> r[q]] ELSE [r EXCEPT ![p] = r[p] - 1]

autostr_new(s, len, p) ==
  /\ Room /\ strs[s] = None /\ p \in Candidates(mem, len)
  /\ mem' = Malloc(mem, len, p)
  /\ strs' = [strs EXCEPT ![s] = p]
  /\ refs' = [q \in DOMAIN refs \cup {p} |-> IF q = p THEN 1 ELSE refs[q]]
  /\ UNCHANGED <<held, leaked, bufs>>

autostr_copy(s, t) ==
  /\ strs[s] = None /\ strs[t] # None
  /\ strs' = [strs EXCEPT ![s] = strs[t]]
  /\ refs' = [refs EXCEPT ![strs[t]] = @ + 1]
  /\ UNCHANGED <<mem, held, leaked, bufs>>

\* Mutant: the old text is given up after the new one is counted, but the counter of
\* the new one is not raised.
autostr_assignUncounted(s, t) ==
  /\ s # t /\ strs[s] # None /\ strs[t] # None
  /\ mem' = Dropped(mem, refs, strs[s])
  /\ refs' = Less(refs, strs[s])
  /\ strs' = [strs EXCEPT ![s] = strs[t]]
  /\ UNCHANGED <<held, leaked, bufs>>

\* autostr::operator=: the destructor of the old value, then a share of the new one.
autostr_assign(s, t) ==
  /\ s # t /\ strs[s] # None /\ strs[t] # None
  /\ mem' = Dropped(mem, refs, strs[s])
  /\ LET r == Less(refs, strs[s])
     IN refs' = [r EXCEPT ![strs[t]] = @ + 1]
  /\ strs' = [strs EXCEPT ![s] = strs[t]]
  /\ UNCHANGED <<held, leaked, bufs>>

autostr_destroy(s) ==
  /\ strs[s] # None
  /\ mem' = Dropped(mem, refs, strs[s])
  /\ refs' = Less(refs, strs[s])
  /\ strs' = [strs EXCEPT ![s] = None]
  /\ UNCHANGED <<held, leaked, bufs>>

-----------------------------------------------------------------------------
Blocks == {<<c, i>> : c \in 0 .. Heap, i \in 1 .. 2 * MaxElms}

Heaps == \/ \E len \in Lengths, p \in Blocks : DoMalloc(len, p)
         \/ \E len \in Lengths, p \in held, q \in Blocks : DoRealloc(len, p, q)
         \/ \E p \in held : DoFree(p)

Buffers(b) == \/ \E len \in Lengths, h, p \in Blocks : buf_alloc(b, len, h, p)
              \/ \E h \in Blocks : buf_alloc_empty(b, h)
              \/ \E len \in Lengths, p \in Blocks : buf_append(b, len, p)
              \/ \E n \in Lengths, p \in Blocks : bytes(b, n, p)
              \/ \E p \in Blocks : stringify(b, p)
              \/ buf_reset(b)
              \/ \E klen, len \in Lengths, p \in Blocks : buf_replace_string(b, klen, len, p)
              \/ buf_free(b)
              \/ buf_release(b)
              \/ \E c \in Bufs : move_assign(b, c)

Strings(s) == \/ \E len \in Lengths, p \in Blocks : autostr_new(s, len, p)
              \/ \E t \in Strs : autostr_copy(s, t)
              \/ \E t \in Strs : autostr_assign(s, t)
              \/ autostr_destroy(s)

Next == \/ Heaps
        \/ \E b \in Bufs : Buffers(b)
        \/ \E s \in Strs : Strings(s)

Spec == Init /\ [][Next]_vars

-----------------------------------------------------------------------------
(* Properties                                                              *)

Owners(p) == {b \in Bufs : bufs[b] # None /\ bufs[b].head = p}
             \cup {b \in Bufs : bufs[b] # None /\ bufs[b].data = p}

\* A block is free or in use, never both, and carries the length of its own class, so
\* that kore_free returns it to the pool it came from.
BlocksApart ==
  /\ \A c \in 0 .. Heap : \A p \in mem.free[c] : p[1] = c /\ p[2] \in 1 .. mem.elms[c]
  /\ \A p \in DOMAIN mem.size : /\ p[1] = ClassOf(mem.size[p])
                                /\ p[2] \in 1 .. mem.elms[p[1]]
                                /\ p \notin mem.free[p[1]]

\* Every write of a buffer lands in its block: what is written never passes the
\* length, and the length is the one kore_malloc was asked for.
BufFits == \A b \in Bufs : bufs[b] # None =>
             /\ bufs[b].offset <= bufs[b].length
             /\ bufs[b].data # None => mem.size[bufs[b].data] = bufs[b].length
             /\ bufs[b].data = None => bufs[b].length = 0

\* Every block in use has one owner: a caller, a buffer, the variables that share an
\* autostr, or nobody once a move assignment dropped it; and a shared text lives as
\* long as a variable that shares it, the counter telling how many do.
OneOwner ==
  /\ \A p \in DOMAIN mem.size :
       Cardinality(Owners(p)) + Cardinality({p} \cap held) + Cardinality({p} \cap leaked)
         + Cardinality({p} \cap DOMAIN refs) = 1
  /\ \A b \in Bufs : bufs[b] # None => {bufs[b].head, bufs[b].data} \ {None} \subseteq DOMAIN mem.size
  /\ held \cup leaked \cup DOMAIN refs \subseteq DOMAIN mem.size
  /\ \A p \in DOMAIN refs : refs[p] = Cardinality({s \in Strs : strs[s] = p})
  /\ \A s \in Strs : strs[s] # None => strs[s] \in DOMAIN refs
\* Memory in use is used as it was given: buffers stay inside their blocks, and each
\* block has one owner, however buffers are moved, released, grown and freed and
\* however the variables of an autostr come and go.
HeldSound == BufFits /\ OneOwner
=============================================================================
