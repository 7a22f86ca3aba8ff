-------------------------- MODULE WebsocketProofs --------------------------
(***************************************************************************)
(* The receive buffer and the send queue of an upgraded connection, for    *)
(* every set of frames, every way the network cuts the stream, whatever    *)
(* the socket takes and every size constant.                               *)
(***************************************************************************)
EXTENDS Websocket, SequenceTheorems, WellFoundedInduction, TLAPS

\* A frame that uses the shortest encoding of its length.
Shortest(f) ==
  /\ f.enc = 1 => f.len >= EXTEND_1
  /\ f.enc = 2 => f.len >= EXTEND_2

\* The lengths a header declares are natural numbers.
LEMMA Lengths ==
  ASSUME NEW f \in Frames
  PROVE  LengthByte(f) \in Nat /\ LengthBytes(f) \in Nat /\ Total(f) \in Nat
  BY SizesAssumption DEF LengthByte, LengthBytes, Total, EXTEND_1, EXTEND_2,
     WEBSOCKET_FRAME_HDR, WEBSOCKET_MASK_LEN

\* What websocket_recv_opcode asks for after the header of a frame in the
\* shortest encoding ends inside that frame, although it counts the length
\* bytes 126 and 127 as payload: no byte of the next frame is read with it.
THEOREM FirstReadWithinFrame ==
  ASSUME NEW f \in Frames, Shortest(f)
  PROVE  WEBSOCKET_FRAME_HDR + OpcodeExpand(f) <= Total(f)
<1>1. f.enc \in 0 .. 2 /\ f.len \in Nat
  BY SizesAssumption, Zenon
<1> QED
  BY <1>1, SizesAssumption DEF Shortest, OpcodeExpand, LengthByte, LengthBytes, Total,
     EXTEND_1, EXTEND_2, WEBSOCKET_FRAME_HDR, WEBSOCKET_MASK_LEN

-----------------------------------------------------------------------------
\* The receive buffer as the worker leaves it: the fields are numbers, the
\* buffer is large enough, and it is full only once the handler has failed.
RnbOK ==
  /\ rnb \in [start : Nat, s_off : Nat, b_len : Nat, m_len : Nat,
              cb : {"websocket_recv_opcode", "websocket_recv_frame"}]
  /\ rnb.s_off <= rnb.b_len /\ rnb.b_len <= rnb.m_len
  /\ state = "established" \/ pc = "recv" => rnb.s_off < rnb.b_len

\* The inductive invariant of the receiving side.
IInv ==
  /\ sent \in Seq(Frames)
  /\ arrived \in Int
  /\ RnbOK

\* An expansion by at least one byte leaves room to read (net_recv_expand).
LEMMA Expand ==
  ASSUME NEW nb \in [start : Nat, s_off : Nat, b_len : Nat, m_len : Nat,
                     cb : {"websocket_recv_opcode", "websocket_recv_frame"}],
         nb.s_off = nb.b_len, NEW n \in Nat \ {0},
         rnb' = net_recv_expand(nb, n, "websocket_recv_frame")
  PROVE  RnbOK'
  BY DEF RnbOK, net_recv_expand

\* So does a reset (net_recv_reset).
LEMMA Reset ==
  ASSUME NEW nb \in [start : Nat, s_off : Nat, b_len : Nat, m_len : Nat,
                     cb : {"websocket_recv_opcode", "websocket_recv_frame"}],
         rnb' = net_recv_reset(nb)
  PROVE  RnbOK'
  BY SizesAssumption DEF RnbOK, net_recv_reset, WEBSOCKET_FRAME_HDR

\* A full buffer is left only by a handler that failed and disconnects.
LEMMA Fail ==
  ASSUME NEW nb \in [start : Nat, s_off : Nat, b_len : Nat, m_len : Nat,
                     cb : {"websocket_recv_opcode", "websocket_recv_frame"}],
         nb.s_off = nb.b_len, nb.b_len <= nb.m_len, rnb' = nb, HandleFails
  PROVE  RnbOK'
  BY DEF RnbOK, HandleFails, kore_connection_disconnect

\* The two callbacks of the receive buffer keep it in order.
LEMMA Callbacks ==
  ASSUME NEW nb \in [start : Nat, s_off : Nat, b_len : Nat, m_len : Nat,
                     cb : {"websocket_recv_opcode", "websocket_recv_frame"}],
         nb.s_off = nb.b_len, nb.b_len <= nb.m_len,
         NEW f \in Frames, NEW i,
         websocket_recv_opcode(nb, f) \/ websocket_recv_frame(nb, i, f)
  PROVE  RnbOK'
<1>1. CASE websocket_recv_opcode(nb, f)
  <2>1. CASE HeaderBad(f)
    BY <1>1, <2>1, Fail, Zenon DEF websocket_recv_opcode
  <2>2. CASE ~HeaderBad(f)
    <3>1. OpcodeExpand(f) \in Nat \ {0}
      BY Lengths DEF OpcodeExpand, WEBSOCKET_MASK_LEN
    <3> QED
      BY <1>1, <2>2, <3>1, Expand, Zenon DEF websocket_recv_opcode
  <2> QED
    BY <2>1, <2>2, Zenon
<1>2. CASE websocket_recv_frame(nb, i, f)
  <2>1. CASE HandleFails /\ rnb' = nb
    BY <2>1, Fail, Zenon
  <2>2. CASE Total(f) > nb.b_len
             /\ rnb' = net_recv_expand(nb, Total(f) - nb.b_len, "websocket_recv_frame")
    <3>1. Total(f) - nb.b_len \in Nat \ {0}
      BY <2>2, Lengths
    <3> QED
      BY <2>2, <3>1, Expand, Zenon
  <2>3. CASE Dispatch(nb, i, f)
    BY <2>3, Reset, Zenon DEF Dispatch
  <2> QED
    BY <1>2, <2>1, <2>2, <2>3, Zenon DEF websocket_recv_frame
<1> QED
  BY <1>1, <1>2, Zenon

\* What net_recv_flush reads fills the buffer up to b_len and no further, and a
\* full buffer goes to a callback.
LEMMA Flush ==
  ASSUME IInv, net_recv_flush
  PROVE  IInv'
<1> DEFINE wanted == rnb.b_len - rnb.s_off
           avail == arrived - rnb.start - rnb.s_off
           r == IF avail < wanted THEN avail ELSE wanted
           nb == [rnb EXCEPT !.s_off = @ + r]
<1>1. /\ rnb \in [start : Nat, s_off : Nat, b_len : Nat, m_len : Nat,
                  cb : {"websocket_recv_opcode", "websocket_recv_frame"}]
      /\ rnb.s_off < rnb.b_len /\ rnb.b_len <= rnb.m_len
      /\ arrived \in Int /\ arrived > rnb.start + rnb.s_off
  BY Zenon DEF IInv, RnbOK, net_recv_flush
<1>2. r \in Nat \ {0} /\ rnb.s_off + r <= rnb.b_len
  BY <1>1
<1>3. /\ nb \in [start : Nat, s_off : Nat, b_len : Nat, m_len : Nat,
                 cb : {"websocket_recv_opcode", "websocket_recv_frame"}]
      /\ nb.s_off <= nb.b_len /\ nb.b_len <= nb.m_len
  BY <1>1, <1>2
<1>4. RnbOK'
  <2>1. CASE nb.s_off < nb.b_len
    <3>1. rnb' = nb
      BY <2>1, Zenon DEF net_recv_flush
    <3> QED
      BY <1>3, <2>1, <3>1, Zenon DEF RnbOK
  <2>2. CASE ~(nb.s_off < nb.b_len)
    <3>1. nb.s_off = nb.b_len
      BY <1>3, <2>2
    <3>2. PICK h \in HeaderAt(nb.start) :
            \/ websocket_recv_opcode(nb, h[2])
            \/ websocket_recv_frame(nb, h[1], h[2])
      BY <2>2, Zenon DEF net_recv_flush
    <3>3. h[2] \in Frames
      BY DEF IInv, HeaderAt
    <3> QED
      BY <1>3, <3>1, <3>2, <3>3, Callbacks, Zenon
  <2> QED
    BY <2>1, <2>2, Zenon
<1> QED
  BY <1>4, Zenon DEF IInv, net_recv_flush, peer

\* Every step keeps the receive buffer in order.
LEMMA Step ==
  IInv /\ [Next]_vars => IInv'
<1> SUFFICES ASSUME IInv, [Next]_vars PROVE IInv'
  BY Zenon
<1>1. CASE ClientSends
  BY <1>1 DEF IInv, RnbOK, ClientSends
<1>2. CASE net_recv_flush
  BY <1>2, Flush, Zenon
<1>3. CASE Arrive
  BY <1>3 DEF IInv, RnbOK, Arrive
<1>4. CASE ClientShutsDown \/ ClientResets \/ Drain
  BY <1>4, Zenon DEF IInv, RnbOK, ClientShutsDown, ClientResets, Drain, peer
<1>5. CASE EventError \/ IdleTimeout \/ ReadFails \/ WriteFails
  BY <1>5, Zenon DEF IInv, RnbOK, EventError, IdleTimeout, ReadFails, WriteFails, HandleFails,
     kore_connection_disconnect, peer, Flushing
<1>6. CASE kore_connection_handle \/ ReadAgain
  BY <1>6, Zenon DEF IInv, RnbOK, kore_connection_handle, ReadAgain, peer
<1>7. CASE ReadEndOfStream
  BY <1>7, Zenon DEF IInv, RnbOK, ReadEndOfStream, HandleFails, kore_connection_disconnect, peer
<1>8. CASE net_send \/ WriteAgain \/ FlushDone
  BY <1>8, Zenon DEF IInv, RnbOK, net_send, WriteAgain, FlushDone, Flushing, peer
<1>9. CASE kore_websocket_broadcast \/ SendOutside \/ kore_connection_remove
  BY <1>9, Zenon DEF IInv, RnbOK, kore_websocket_broadcast, SendOutside, kore_connection_remove,
     peer
<1>10. CASE UNCHANGED vars
  BY <1>10, Zenon DEF IInv, RnbOK, vars
<1> QED
  BY <1>1, <1>2, <1>3, <1>4, <1>5, <1>6, <1>7, <1>8, <1>9, <1>10, Zenon DEF Next

\* The receive buffer never holds more than was allocated for it, and the worker
\* never issues a read of zero bytes, however the stream is cut and whatever
\* frames it holds (net_recv_flush, websocket_recv_opcode, websocket_recv_frame).
THEOREM ReceiveBufferFits ==
  Spec => []RecvFits
<1>1. Init => IInv
  BY DEF Init, IInv, RnbOK, WEBSOCKET_FRAME_HDR
<1>2. IInv => RecvFits
  BY Zenon DEF IInv, RnbOK, RecvFits
<1> QED
  BY <1>1, <1>2, Step, PTL DEF Spec

-----------------------------------------------------------------------------
(* The positions of the frames and the bytes of the buffers. *)

\* A nonempty set of natural numbers has a least element.
LEMMA Least ==
  ASSUME NEW T \in SUBSET Nat, T # {}
  PROVE  \E m \in T : \A n \in T : m <= n
<1>1. PICK m \in T : \A n \in T : ~(<<n, m>> \in OpToRel(<, Nat))
  BY WFMin, NatLessThanWellFounded, Zenon
<1>2. m \in Nat /\ \A n \in T : n \in Nat /\ ~(n < m)
  BY <1>1, Zenon DEF OpToRel
<1>3. \A n \in T : m <= n
  BY <1>2
<1> QED
  BY <1>3, Zenon

\* Induction over 0 .. n.
LEMMA Upto ==
  ASSUME NEW n \in Nat, NEW T, 0 \in T,
         \A i \in 0 .. n - 1 : i \in T => i + 1 \in T
  PROVE  \A i \in 0 .. n : i \in T
<1> DEFINE U == {i \in 0 .. n : i \notin T}
<1>1. SUFFICES ASSUME U # {} PROVE FALSE
  BY Zenon
<1>2. U \in SUBSET Nat
  OBVIOUS
<1> HIDE DEF U
<1>3. PICK m \in U : \A k \in U : m <= k
  BY <1>1, <1>2, Least, Zenon
<1>4. m \in 0 .. n /\ m \notin T
  BY Zenon DEF U
<1>5. m - 1 \in 0 .. n - 1
  BY <1>4
<1>6. m - 1 \in T
  BY <1>3, <1>5 DEF U
<1> QED
  BY <1>4, <1>5, <1>6

\* A frame takes at least its header on the wire.
LEMMA WireLength ==
  ASSUME NEW f \in Frames
  PROVE  WireLen(f) \in Nat \ {0}
  BY SizesAssumption DEF WireLen, LengthBytes, Total, WEBSOCKET_FRAME_HDR, WEBSOCKET_MASK_LEN

\* There is a function that adds up the lengths of frames, so Ends is it.
LEMMA EndsDef ==
  ASSUME NEW s \in Seq(Frames)
  PROVE  /\ Ends(s) \in [0 .. Len(s) -> Nat]
         /\ Ends(s)[0] = 0
         /\ \A k \in 1 .. Len(s) : Ends(s)[k] = Ends(s)[k - 1] + WireLen(s[k])
<1> DEFINE Sums(g, n) == /\ g \in [0 .. n -> Nat]
                         /\ g[0] = 0
                         /\ \A k \in 1 .. n : g[k] = g[k - 1] + WireLen(s[k])
           T == {n \in 0 .. Len(s) : \E g : Sums(g, n)}
<1>1. 0 \in T
  <2>1. Sums([k \in 0 .. 0 |-> 0], 0)
    OBVIOUS
  <2> HIDE DEF Sums
  <2> QED
    BY <2>1
<1>2. ASSUME NEW n \in 0 .. Len(s) - 1, n \in T PROVE n + 1 \in T
  <2>1. PICK g : Sums(g, n)
    BY <1>2, Zenon
  <2> DEFINE h == [k \in 0 .. n + 1 |-> IF k = n + 1 THEN g[n] + WireLen(s[n + 1]) ELSE g[k]]
  <2>2. WireLen(s[n + 1]) \in Nat /\ g[n] \in Nat
    BY <2>1, WireLength
  <2>3. h \in [0 .. n + 1 -> Nat]
    BY <2>1, <2>2
  <2>4. h[0] = 0
    BY <2>1
  <2>5. ASSUME NEW k \in 1 .. n + 1 PROVE h[k] = h[k - 1] + WireLen(s[k])
    <3>1. CASE k = n + 1
      BY <3>1
    <3>2. CASE k # n + 1
      <4>1. k \in 1 .. n /\ k - 1 \in 0 .. n /\ k - 1 # n + 1
        BY <3>2
      <4> QED
        BY <2>1, <4>1
    <3> QED
      BY <3>1, <3>2, Zenon
  <2> HIDE DEF h
  <2>6. Sums(h, n + 1)
    BY <2>3, <2>4, <2>5, Zenon
  <2> HIDE DEF Sums
  <2> QED
    BY <2>6
<1>3. PICK g : Sums(g, Len(s))
  <2> HIDE DEF Sums
  <2>1. \A i \in 0 .. Len(s) : i \in T
    <3> HIDE DEF T
    <3> QED
      BY <1>1, <1>2, Upto
  <2>2. Len(s) \in T
    BY <2>1
  <2> QED
    BY <2>2, Zenon
<1> DEFINE F(e) == [k \in 0 .. Len(s) |-> IF k = 0 THEN 0 ELSE e[k - 1] + WireLen(s[k])]
<1>4. g = F(g)
  BY <1>3
<1>5. Ends(s) = CHOOSE e : e = F(e)
  BY Zenon DEF Ends
<1>6. Ends(s) = F(Ends(s))
  <2> HIDE DEF F
  <2> QED
    BY <1>4, <1>5, Zenon
<1> DEFINE E == Ends(s)
<1> HIDE DEF E
<1>7. E = F(E)
  BY <1>6, Zenon DEF E
<1>8. E[0] = 0 /\ \A k \in 1 .. Len(s) : E[k] = E[k - 1] + WireLen(s[k])
  BY <1>7
<1>9. \A k \in 0 .. Len(s) : E[k] \in Nat
  <2> DEFINE V == {k \in 0 .. Len(s) : E[k] \in Nat}
  <2>1. 0 \in V
    BY <1>8
  <2>2. ASSUME NEW k \in 0 .. Len(s) - 1, k \in V PROVE k + 1 \in V
    <3>1. s[k + 1] \in Frames /\ k + 1 \in 1 .. Len(s)
      OBVIOUS
    <3>2. E[k + 1] = E[k] + WireLen(s[k + 1])
      BY <1>8, <3>1
    <3> QED
      BY <2>2, <3>1, <3>2, WireLength
  <2>3. \A k \in 0 .. Len(s) : k \in V
    <3> HIDE DEF V
    <3> QED
      BY <2>1, <2>2, Upto
  <2> QED
    BY <2>3, Zenon
<1>10. E \in [0 .. Len(s) -> Nat]
  BY <1>7, <1>9, Zenon
<1> QED
  BY <1>8, <1>10, Zenon DEF E

\* Frames begin one behind the other: no two at the same position.
LEMMA EndsIncrease ==
  ASSUME NEW s \in Seq(Frames), NEW i \in 0 .. Len(s), NEW j \in 0 .. Len(s), i < j
  PROVE  Ends(s)[i] < Ends(s)[j]
<1> DEFINE E == Ends(s)
           V == {k \in 0 .. Len(s) : i < k => E[i] < E[k]}
<1>1. /\ E \in [0 .. Len(s) -> Nat]
      /\ \A k \in 1 .. Len(s) : E[k] = E[k - 1] + WireLen(s[k])
  BY EndsDef, Zenon
<1> HIDE DEF E
<1>2. 0 \in V
  OBVIOUS
<1>3. ASSUME NEW k \in 0 .. Len(s) - 1, k \in V PROVE k + 1 \in V
  <2>1. s[k + 1] \in Frames /\ k + 1 \in 1 .. Len(s) /\ E[k] \in Nat /\ E[i] \in Nat
    BY <1>1
  <2>2. E[k + 1] = E[k] + WireLen(s[k + 1]) /\ WireLen(s[k + 1]) \in Nat \ {0}
    BY <1>1, <2>1, WireLength
  <2>3. i < k + 1 => E[i] < E[k + 1]
    BY <1>3, <2>1, <2>2
  <2> QED
    BY <2>1, <2>3
<1>4. \A k \in 0 .. Len(s) : k \in V
  <2>1. Len(s) \in Nat
    OBVIOUS
  <2> HIDE DEF V
  <2> QED
    BY <1>2, <1>3, <2>1, Upto, Zenon
<1> QED
  BY <1>4, Zenon DEF E

\* A frame sent later moves no earlier one.
LEMMA EndsAppend ==
  ASSUME NEW s \in Seq(Frames), NEW f \in Frames, NEW i \in 0 .. Len(s)
  PROVE  Ends(Append(s, f))[i] = Ends(s)[i]
<1> DEFINE E == Ends(s)
           t == Append(s, f)
           D == Ends(t)
           V == {k \in 0 .. Len(s) : D[k] = E[k]}
<1>0. t \in Seq(Frames) /\ Len(t) = Len(s) + 1 /\ \A k \in 1 .. Len(s) : t[k] = s[k]
  OBVIOUS
<1>1. E[0] = 0 /\ \A k \in 1 .. Len(s) : E[k] = E[k - 1] + WireLen(s[k])
  BY EndsDef, Zenon
<1> HIDE DEF E, t
<1>2. D[0] = 0 /\ \A k \in 1 .. Len(t) : D[k] = D[k - 1] + WireLen(t[k])
  BY <1>0, EndsDef, Zenon
<1> HIDE DEF D
<1>3. 0 \in V
  BY <1>1, <1>2
<1>4. ASSUME NEW k \in 0 .. Len(s) - 1, k \in V PROVE k + 1 \in V
  <2>1. k + 1 \in 1 .. Len(s) /\ k + 1 \in 1 .. Len(t) /\ (k + 1) - 1 = k
    BY <1>0
  <2>2. D[k + 1] = D[k] + WireLen(t[k + 1]) /\ E[k + 1] = E[k] + WireLen(s[k + 1])
    BY <1>1, <1>2, <2>1, Zenon
  <2> QED
    BY <1>0, <1>4, <2>1, <2>2
<1>5. \A k \in 0 .. Len(s) : k \in V
  <2> HIDE DEF V
  <2> QED
    BY <1>3, <1>4, Upto, SMTT(30)
<1> QED
  BY <1>5, Zenon DEF E, D, t

\* A struct netbuf of the send queue.
Netbufs == [buf : Seq(Nat), s_off : Nat, m_len : Nat]

\* The bytes z + 1 .. z + n, and a buffer of consecutive bytes of which y is the last.
Bytes(z, n) == [i \in 1 .. n |-> z + i]
Run(s, y) == s \in Seq(Nat) /\ \A j \in 1 .. Len(s) : s[j] = y - Len(s) + j

\* The last byte of a buffer.
LastByte(nb) == nb.buf[Len(nb.buf)]

\* The buffers of q hold the bytes a + 1 .. z, of which only the first buffer has
\* some that are written already, in front of them.
Chained(q, a, k) ==
  /\ q[k].s_off < Len(q[k].buf) /\ Len(q[k].buf) <= q[k].m_len
  /\ k > 1 => q[k].s_off = 0
  /\ Run(q[k].buf, LastByte(q[k]))
  /\ LastByte(q[k]) = (IF k = 1 THEN a ELSE LastByte(q[k - 1])) + Len(q[k].buf) - q[k].s_off

\* The queue q carries the bytes behind a up to z.
Chain(q, a, z) ==
  /\ q \in Seq(Netbufs)
  /\ \A k \in 1 .. Len(q) : Chained(q, a, k)
  /\ z = IF q = <<>> THEN a ELSE LastByte(q[Len(q)])

\* Bytes are a run.
LEMMA BytesRun ==
  ASSUME NEW z \in Nat, NEW n \in Nat
  PROVE  Bytes(z, n) \in Seq(Nat) /\ Len(Bytes(z, n)) = n /\ Run(Bytes(z, n), z + n)
<1>1. Bytes(z, n) \in Seq(Nat) /\ Len(Bytes(z, n)) = n /\ \A j \in 1 .. n : Bytes(z, n)[j] = z + j
  BY DEF Bytes
<1> QED
  BY <1>1 DEF Run

\* The bytes that follow a run lengthen it.
LEMMA RunConcat ==
  ASSUME NEW s, NEW y \in Nat, Run(s, y), NEW n \in Nat
  PROVE  Run(s \o Bytes(y, n), y + n) /\ Len(s \o Bytes(y, n)) = Len(s) + n
<1> DEFINE t == Bytes(y, n)
           u == s \o t
<1>1. s \in Seq(Nat) /\ Len(s) \in Nat /\ \A j \in 1 .. Len(s) : s[j] = y - Len(s) + j
  BY DEF Run
<1>2. t \in Seq(Nat) /\ Len(t) = n /\ \A j \in 1 .. n : t[j] = y + j
  BY DEF Bytes
<1> HIDE DEF t
<1>0. /\ u \in Seq(Nat) /\ Len(u) = Len(s) + Len(t)
      /\ \A i \in 1 .. Len(s) + Len(t) : u[i] = IF i <= Len(s) THEN s[i] ELSE t[i - Len(s)]
  BY <1>1, <1>2, ConcatProperties, Zenon
<1>3. /\ u \in Seq(Nat) /\ Len(u) = Len(s) + n
      /\ \A i \in 1 .. Len(s) + n : u[i] = IF i <= Len(s) THEN s[i] ELSE t[i - Len(s)]
  BY <1>0, <1>2, Zenon
<1> HIDE DEF u
<1>4. ASSUME NEW j \in 1 .. Len(s) + n PROVE u[j] = y + n - (Len(s) + n) + j
  <2>1. CASE j <= Len(s)
    BY <1>1, <1>3, <2>1, SMTT(30)
  <2>2. CASE ~(j <= Len(s))
    <3>1. j - Len(s) \in 1 .. n /\ u[j] = t[j - Len(s)]
      BY <1>1, <1>3, <2>2
    <3> QED
      BY <1>1, <1>2, <3>1
  <2> QED
    BY <2>1, <2>2, Zenon
<1>5. Run(u, y + n)
  BY <1>3, <1>4 DEF Run
<1> QED
  BY <1>3, <1>5, Zenon DEF u, t

\* A run ends in its last byte, which is determined by any byte of it.
LEMMA RunLast ==
  ASSUME NEW s, NEW y \in Int, Run(s, y), Len(s) > 0
  PROVE  s[Len(s)] = y
  BY DEF Run

\* Two parts of the bytes.
LEMMA BytesSplit ==
  ASSUME NEW z \in Nat, NEW n \in Nat, NEW k \in 0 .. n
  PROVE  /\ SubSeq(Bytes(z, n), 1, k) = Bytes(z, k)
         /\ SubSeq(Bytes(z, n), k + 1, n) = Bytes(z + k, n - k)
<1>1. PICK d : d = Bytes(z, n)
  BY Zenon
<1>2. d \in Seq(Nat) /\ Len(d) = n /\ \A j \in 1 .. n : d[j] = z + j
  BY <1>1 DEF Bytes
<1>3. SubSeq(d, 1, k) = [j \in 1 .. k |-> z + j]
  BY <1>2
<1>4. SubSeq(d, k + 1, n) = [j \in 1 .. n - k |-> (z + k) + j]
  BY <1>2
<1> QED
  BY <1>1, <1>3, <1>4, Zenon DEF Bytes

\* A new buffer carries the chain on.
LEMMA ChainAppend ==
  ASSUME NEW q, NEW a \in Nat, NEW z \in Nat, Chain(q, a, z), NEW n \in Nat \ {0}
  PROVE  Chain(Append(q, NewNetbuf(Bytes(z, n))), a, z + n)
<1> DEFINE nb == NewNetbuf(Bytes(z, n))
           p == Append(q, nb)
<1>1. Bytes(z, n) \in Seq(Nat) /\ Len(Bytes(z, n)) = n /\ Run(Bytes(z, n), z + n)
  BY BytesRun, Zenon
<1>2. nb.buf = Bytes(z, n) /\ nb.s_off = 0 /\ nb.m_len \in Nat /\ n <= nb.m_len /\ nb \in Netbufs
  BY <1>1, SizesAssumption DEF NewNetbuf, Netbufs
<1>3. LastByte(nb) = z + n
  BY <1>1, <1>2, RunLast DEF LastByte
<1> HIDE DEF nb
<1>4. q \in Seq(Netbufs)
  BY Zenon DEF Chain
<1>5. /\ p \in Seq(Netbufs) /\ Len(p) = Len(q) + 1 /\ p # <<>>
      /\ p[Len(q) + 1] = nb /\ \A k \in 1 .. Len(q) : p[k] = q[k]
  BY <1>2, <1>4
<1> HIDE DEF p
<1>6. ASSUME NEW k \in 1 .. Len(p) PROVE Chained(p, a, k)
  <2>1. CASE k = Len(q) + 1
    <3>1. p[k] = nb
      BY <1>5, <2>1, Zenon
    <3>2. (IF k = 1 THEN a ELSE LastByte(p[k - 1])) = z
      <4>1. CASE q = <<>>
        BY <2>1, <4>1 DEF Chain
      <4>2. CASE q # <<>>
        <5>1. k # 1 /\ k - 1 = Len(q) /\ p[k - 1] = q[Len(q)]
          BY <1>4, <1>5, <2>1, <4>2
        <5> QED
          BY <4>2, <5>1, Zenon DEF Chain
      <4> QED
        BY <4>1, <4>2, Zenon
    <3> QED
      BY <1>1, <1>2, <1>3, <3>1, <3>2 DEF Chained
  <2>2. CASE k # Len(q) + 1
    <3>1. k \in 1 .. Len(q) /\ p[k] = q[k] /\ (k # 1 => p[k - 1] = q[k - 1])
      BY <1>4, <1>5, <2>2
    <3> QED
      BY <3>1, Zenon DEF Chain, Chained
  <2> QED
    BY <2>1, <2>2, Zenon
<1>7. z + n = IF p = <<>> THEN a ELSE LastByte(p[Len(p)])
  BY <1>3, <1>5, Zenon
<1> QED
  BY <1>5, <1>6, <1>7, Zenon DEF Chain, p, nb

\* Replacing the first or the last buffer of a chain by one that fits in its place.
LEMMA ChainReplace ==
  ASSUME NEW q \in Seq(Netbufs), NEW a \in Nat, NEW b \in Nat, NEW m \in 1 .. Len(q), NEW mb \in Netbufs,
         \A k \in 1 .. Len(q) : Chained(q, a, k),
         m = 1 \/ a = b,
         m = Len(q) \/ LastByte(mb) = LastByte(q[m]),
         mb.s_off < Len(mb.buf), Len(mb.buf) <= mb.m_len, m > 1 => mb.s_off = 0,
         Run(mb.buf, LastByte(mb)),
         LastByte(mb) = (IF m = 1 THEN b ELSE LastByte(q[m - 1])) + Len(mb.buf) - mb.s_off
  PROVE  Chain([q EXCEPT ![m] = mb], b, IF m = Len(q) THEN LastByte(mb) ELSE LastByte(q[Len(q)]))
<1> DEFINE p == [q EXCEPT ![m] = mb]
<1>1. /\ p \in Seq(Netbufs) /\ Len(p) = Len(q) /\ p # <<>> /\ Len(q) \in Nat \ {0}
      /\ p[m] = mb /\ \A k \in 1 .. Len(q) : k # m => p[k] = q[k]
  OBVIOUS
<1> HIDE DEF p
<1>2. ASSUME NEW k \in 1 .. Len(p) PROVE Chained(p, b, k)
  <2>1. CASE k = m
    <3>1. p[k] = mb /\ (k # 1 => p[k - 1] = q[k - 1])
      BY <1>1, <2>1
    <3> QED
      BY <2>1, <3>1, Zenon DEF Chained
  <2>2. CASE k # m
    <3>1. k \in 1 .. Len(q) /\ p[k] = q[k] /\ Chained(q, a, k)
      BY <1>1, <2>2, Zenon
    <3>2. (IF k = 1 THEN b ELSE LastByte(p[k - 1])) = (IF k = 1 THEN a ELSE LastByte(q[k - 1]))
      <4>1. CASE k = 1
        BY <1>1, <2>2, <4>1, Zenon
      <4>2. CASE k # 1 /\ k - 1 = m
        BY <1>1, <2>2, <3>1, <4>2
      <4>3. CASE k # 1 /\ k - 1 # m
        <5>1. k - 1 \in 1 .. Len(q)
          BY <3>1, <4>3
        <5> QED
          BY <1>1, <4>3, <5>1, Zenon
      <4> QED
        BY <4>1, <4>2, <4>3, Zenon
    <3> QED
      BY <3>1, <3>2, Zenon DEF Chained
  <2> QED
    BY <2>1, <2>2, Zenon
<1>3. (IF m = Len(q) THEN LastByte(mb) ELSE LastByte(q[Len(q)])) = LastByte(p[Len(p)])
  BY <1>1
<1> QED
  BY <1>1, <1>2, <1>3, Zenon DEF Chain, p

\* What a chain says of a buffer of its own.
LEMMA ChainMember ==
  ASSUME NEW q, NEW a \in Nat, NEW z, Chain(q, a, z), NEW k \in 1 .. Len(q)
  PROVE  /\ q[k] \in Netbufs
         /\ q[k].buf \in Seq(Nat) /\ q[k].s_off \in Nat /\ q[k].m_len \in Nat
         /\ q[k].s_off < Len(q[k].buf) /\ Len(q[k].buf) <= q[k].m_len /\ (k > 1 => q[k].s_off = 0)
         /\ Run(q[k].buf, LastByte(q[k])) /\ LastByte(q[k]) \in Nat
         /\ LastByte(q[k]) = (IF k = 1 THEN a ELSE LastByte(q[k - 1])) + Len(q[k].buf) - q[k].s_off
<1>1. q[k] \in Netbufs /\ Chained(q, a, k)
  BY DEF Chain
<1>2. q[k].buf \in Seq(Nat) /\ q[k].s_off \in Nat /\ q[k].m_len \in Nat
  BY <1>1, Zenon DEF Netbufs
<1>3. PICK b \in Seq(Nat) : b = q[k].buf
  BY <1>2, Zenon
<1>4. Len(b) \in 1 .. Len(b)
  BY <1>1, <1>2, <1>3 DEF Chained
<1>5. b[Len(b)] \in Nat
  BY <1>4
<1>6. LastByte(q[k]) \in Nat
  BY <1>3, <1>5, Zenon DEF LastByte
<1> QED
  BY <1>1, <1>2, <1>6, Zenon DEF Chained

\* The last buffer carries the chain on as far as it has room.
LEMMA ChainFill ==
  ASSUME NEW q, NEW a \in Nat, NEW z \in Nat, Chain(q, a, z), q # <<>>, NEW n \in Nat \ {0},
         n <= q[Len(q)].m_len - Len(q[Len(q)].buf)
  PROVE  Chain([q EXCEPT ![Len(q)].buf = @ \o Bytes(z, n)], a, z + n)
<1>1. PICK m \in Nat \ {0} : m = Len(q)
  BY DEF Chain
<1>2. q \in Seq(Netbufs) /\ m \in 1 .. Len(q) /\ z = LastByte(q[m]) /\ \A k \in 1 .. Len(q) : Chained(q, a, k)
  BY <1>1 DEF Chain
<1>3. /\ q[m] \in Netbufs
      /\ q[m].buf \in Seq(Nat) /\ q[m].s_off \in Nat /\ q[m].m_len \in Nat
      /\ q[m].s_off < Len(q[m].buf) /\ Len(q[m].buf) <= q[m].m_len /\ (m > 1 => q[m].s_off = 0)
      /\ Run(q[m].buf, z)
      /\ z = (IF m = 1 THEN a ELSE LastByte(q[m - 1])) + Len(q[m].buf) - q[m].s_off
  BY <1>2, ChainMember, Zenon
<1>15. PICK b \in Seq(Nat), so \in Nat, ml \in Nat : b = q[m].buf /\ so = q[m].s_off /\ ml = q[m].m_len
  BY <1>3, Zenon
<1>16. /\ so < Len(b) /\ Len(b) <= ml /\ (m > 1 => so = 0) /\ Run(b, z)
       /\ z = (IF m = 1 THEN a ELSE LastByte(q[m - 1])) + Len(b) - so
  BY <1>3, <1>15, Zenon
<1>4. PICK c : c = b \o Bytes(z, n)
  BY Zenon
<1>5. PICK mb : mb = [buf |-> c, s_off |-> so, m_len |-> ml]
  BY Zenon
<1>6. Run(c, z + n) /\ Len(c) = Len(b) + n /\ c \in Seq(Nat)
  <2>1. Run(b \o Bytes(z, n), z + n) /\ Len(b \o Bytes(z, n)) = Len(b) + n
    BY <1>16, RunConcat, Zenon
  <2> QED
    BY <1>4, <2>1, Zenon DEF Run
<1>7. Len(b) \in Nat /\ Len(c) > 0
  BY <1>6
<1>8. c[Len(c)] = z + n
  <2>1. z + n \in Int
    OBVIOUS
  <2> QED
    BY <1>6, <1>7, <2>1, RunLast, Zenon
<1>9. mb \in Netbufs /\ mb.buf = c /\ mb.s_off = so /\ mb.m_len = ml /\ LastByte(mb) = z + n
  BY <1>5, <1>6, <1>8, Zenon DEF Netbufs, LastByte
<1>10. [q EXCEPT ![Len(q)].buf = @ \o Bytes(z, n)] = [q EXCEPT ![m] = mb]
  <2>1. q[m].buf = b
    BY <1>15, Zenon
  <2>3. q[m] = [buf |-> b, s_off |-> so, m_len |-> ml]
    BY <1>3, <1>15, Zenon DEF Netbufs
  <2>2. [q[m] EXCEPT !.buf = c] = mb
    BY <1>5, <2>3
  <2> QED
    BY <1>1, <1>4, <2>1, <2>2, Zenon
<1>11. PICK e \in Int : e = (IF m = 1 THEN a ELSE LastByte(q[m - 1]))
  <2>1. CASE m = 1
    BY <2>1
  <2>2. CASE m # 1
    <3>1. m - 1 \in 1 .. Len(q)
      BY <1>1, <2>2
    <3>2. LastByte(q[m - 1]) \in Nat
      BY <3>1, ChainMember, Zenon
    <3> QED
      BY <2>2, <3>2
  <2> QED
    BY <2>1, <2>2, Zenon
<1>12. z + n = e + Len(c) - so
  <2>1. z = e + Len(b) - so
    BY <1>11, <1>16, Zenon
  <2> QED
    BY <1>6, <1>7, <2>1
<1>13. so < Len(c) /\ Len(c) <= ml
  <2>1. n <= ml - Len(b)
    BY <1>1, <1>15, Zenon
  <2>2. so < Len(b)
    BY <1>16, Zenon
  <2> QED
    BY <1>6, <1>7, <2>1, <2>2
<1>14. Chain([q EXCEPT ![m] = mb], a, IF m = Len(q) THEN LastByte(mb) ELSE LastByte(q[Len(q)]))
  <2>1. /\ m = 1 \/ a = a
        /\ m = Len(q) \/ LastByte(mb) = LastByte(q[m])
        /\ mb.s_off < Len(mb.buf) /\ Len(mb.buf) <= mb.m_len /\ (m > 1 => mb.s_off = 0)
        /\ Run(mb.buf, LastByte(mb))
        /\ LastByte(mb) = (IF m = 1 THEN a ELSE LastByte(q[m - 1])) + Len(mb.buf) - mb.s_off
    BY <1>1, <1>6, <1>9, <1>11, <1>12, <1>13, <1>16, Zenon
  <2> QED
    BY <1>2, <1>9, <2>1, ChainReplace, Zenon
<1> QED
  BY <1>1, <1>9, <1>10, <1>14, Zenon

\* net_send_queue carries the chain on, whatever room the last buffer has.
LEMMA QueueGrows ==
  ASSUME NEW q, NEW a \in Nat, NEW z \in Nat, Chain(q, a, z), NEW n \in Nat \ {0}
  PROVE  Chain(net_send_queue(q, Bytes(z, n)), a, z + n)
<1>1. PICK d : d = Bytes(z, n)
  BY Zenon
<1>2. d \in Seq(Nat) /\ Len(d) = n /\ Run(d, z + n)
  BY <1>1, BytesRun, Zenon
<1>3. PICK avail : avail = IF q = <<>> THEN 0 ELSE q[Len(q)].m_len - Len(q[Len(q)].buf)
  BY Zenon
<1>4. CASE avail = 0
  <2>1. net_send_queue(q, d) = Append(q, NewNetbuf(d))
    BY <1>3, <1>4 DEF net_send_queue
  <2> QED
    BY <1>1, <2>1, ChainAppend, Zenon
<1>5. CASE avail # 0
  <2>1. q # <<>> /\ avail = q[Len(q)].m_len - Len(q[Len(q)].buf) /\ Len(q) \in 1 .. Len(q)
    BY <1>3, <1>5 DEF Chain
  <2>2. avail \in Nat \ {0}
    <3>1. /\ q[Len(q)].buf \in Seq(Nat) /\ q[Len(q)].m_len \in Nat
          /\ Len(q[Len(q)].buf) <= q[Len(q)].m_len
      BY <2>1, ChainMember, Zenon
    <3> QED
      BY <1>5, <2>1, <3>1
  <2>3. CASE avail > Len(d)
    <3>1. net_send_queue(q, d) = [q EXCEPT ![Len(q)].buf = @ \o d]
      BY <1>3, <1>5, <2>3, Zenon DEF net_send_queue
    <3>2. n <= q[Len(q)].m_len - Len(q[Len(q)].buf)
      BY <1>2, <2>1, <2>2, <2>3
    <3>3. Chain([q EXCEPT ![Len(q)].buf = @ \o Bytes(z, n)], a, z + n)
      BY <2>1, <3>2, ChainFill, Zenon
    <3> QED
      BY <1>1, <3>1, <3>3, Zenon
  <2>4. CASE ~(avail > Len(d))
    <3>1. PICK rest : rest = SubSeq(d, avail + 1, Len(d))
      BY Zenon
    <3>2. PICK filled : filled = [q EXCEPT ![Len(q)].buf = @ \o SubSeq(d, 1, avail)]
      BY Zenon
    <3>3. net_send_queue(q, d) = IF rest = <<>> THEN filled ELSE Append(filled, NewNetbuf(rest))
      BY <1>3, <1>5, <2>4, <3>1, <3>2, Zenon DEF net_send_queue
    <3>4. avail <= n /\ n - avail \in Nat /\ z + avail \in Nat /\ z + n \in Nat
      BY <1>2, <2>2, <2>4
    <3>11. avail \in 0 .. n
      BY <2>2, <3>4
    <3>5. SubSeq(d, 1, avail) = Bytes(z, avail)
      BY <1>1, <3>11, BytesSplit, Zenon
    <3>6. rest = Bytes(z + avail, n - avail)
      <4>1. SubSeq(Bytes(z, n), avail + 1, n) = Bytes(z + avail, n - avail)
        BY <3>11, BytesSplit, Zenon
      <4> QED
        BY <1>1, <1>2, <3>1, <4>1, Zenon
    <3>7. Chain(filled, a, z + avail)
      <4>1. avail <= q[Len(q)].m_len - Len(q[Len(q)].buf)
        BY <2>1, <2>2
      <4> QED
        BY <2>1, <2>2, <3>2, <3>5, <4>1, ChainFill, Zenon
    <3>8. Len(rest) = n - avail
      BY <3>4, <3>6, BytesRun, Zenon
    <3>9. CASE avail = n
      <4>1. rest = <<>>
        BY <3>6, <3>9 DEF Bytes
      <4> QED
        BY <1>1, <3>3, <3>7, <3>9, <4>1, Zenon
    <3>10. CASE avail # n
      <4>1. n - avail \in Nat \ {0} /\ (z + avail) + (n - avail) = z + n
        BY <2>2, <3>4, <3>10
      <4>2. rest # <<>>
        BY <3>8, <4>1, Zenon
      <4>3. Chain(Append(filled, NewNetbuf(Bytes(z + avail, n - avail))), a, (z + avail) + (n - avail))
        BY <3>4, <3>7, <4>1, ChainAppend, Zenon
      <4> QED
        BY <1>1, <3>3, <3>6, <4>1, <4>2, <4>3, Zenon
    <3> QED
      BY <3>9, <3>10, Zenon
  <2> QED
    BY <2>3, <2>4, Zenon
<1> QED
  BY <1>4, <1>5, Zenon

\* A part of a buffer.
Piece(b, lo, hi) == SubSeq(b, lo, hi)

\* A piece of a run.
LEMMA RunPiece ==
  ASSUME NEW b \in Seq(Nat), NEW y \in Nat, Run(b, y), NEW s \in Nat, NEW r \in Nat, NEW x \in Nat,
         NEW lo \in Nat, lo = s + 1, NEW hi \in Nat, hi = s + r, hi <= Len(b), x = y - Len(b) + s
  PROVE  Piece(b, lo, hi) = Bytes(x, r)
<1>1. Len(b) \in Nat /\ \A j \in 1 .. Len(b) : b[j] = y - Len(b) + j
  BY DEF Run
<1>2. SubSeq(b, lo, hi) = [k \in 1 .. r |-> b[s + k]]
  OBVIOUS
<1>3. ASSUME NEW k \in 1 .. r PROVE b[s + k] = x + k
  <2>1. s + k \in 1 .. Len(b)
    BY <1>1
  <2>2. b[s + k] = y - Len(b) + (s + k)
    BY <1>1, <2>1, Zenon
  <2> QED
    BY <1>1, <2>2
<1> QED
  BY <1>2, <1>3, Zenon DEF Bytes, Piece

\* Bytes that follow each other.
LEMMA BytesConcat ==
  ASSUME NEW a \in Nat, NEW m \in Nat, NEW n \in Nat
  PROVE  Bytes(a, m) \o Bytes(a + m, n) = Bytes(a, m + n)
<1>1. PICK s : s = Bytes(a, m)
  BY Zenon
<1>2. PICK t : t = Bytes(a + m, n)
  BY Zenon
<1>3. s \in Seq(Nat) /\ Len(s) = m /\ \A j \in 1 .. m : s[j] = a + j
  BY <1>1 DEF Bytes
<1>4. t \in Seq(Nat) /\ Len(t) = n /\ \A j \in 1 .. n : t[j] = (a + m) + j
  BY <1>2 DEF Bytes
<1>5. PICK u : u = s \o t
  BY Zenon
<1>6. /\ u \in Seq(Nat) /\ Len(u) = Len(s) + Len(t)
      /\ \A i \in 1 .. Len(s) + Len(t) : u[i] = IF i <= Len(s) THEN s[i] ELSE t[i - Len(s)]
  BY <1>3, <1>4, <1>5, ConcatProperties, Zenon
<1>7. u \in Seq(Nat) /\ Len(u) = m + n /\ \A i \in 1 .. m + n : u[i] = a + i
  BY <1>3, <1>4, <1>6
<1>8. PICK v : v = Bytes(a, m + n)
  BY Zenon
<1>9. v \in Seq(Nat) /\ Len(v) = m + n /\ \A j \in 1 .. m + n : v[j] = a + j
  BY <1>8 DEF Bytes
<1>10. u = v
  BY <1>7, <1>9
<1> QED
  BY <1>1, <1>2, <1>5, <1>8, <1>10, Zenon

\* net_send takes the next bytes from the first buffer of the chain, and frees the buffer
\* behind its last byte.
LEMMA QueueSent ==
  ASSUME NEW q, NEW a \in Nat, NEW z \in Nat, Chain(q, a, z), q # <<>>,
         NEW r \in Nat \ {0}, r <= Len(q[1].buf) - q[1].s_off
  PROVE  /\ SubSeq(q[1].buf, q[1].s_off + 1, q[1].s_off + r) = Bytes(a, r)
         /\ Chain(IF q[1].s_off + r = Len(q[1].buf) THEN Tail(q) ELSE [q EXCEPT ![1].s_off = @ + r],
                  a + r, z)
<1>1. q \in Seq(Netbufs) /\ Len(q) \in Nat \ {0} /\ 1 \in 1 .. Len(q) /\ \A k \in 1 .. Len(q) : Chained(q, a, k)
  BY DEF Chain
<1>2. /\ q[1] \in Netbufs
      /\ q[1].buf \in Seq(Nat) /\ q[1].s_off \in Nat /\ q[1].m_len \in Nat
      /\ q[1].s_off < Len(q[1].buf) /\ Len(q[1].buf) <= q[1].m_len
      /\ Run(q[1].buf, LastByte(q[1])) /\ LastByte(q[1]) \in Nat
      /\ LastByte(q[1]) = a + Len(q[1].buf) - q[1].s_off
  BY <1>1, ChainMember, Zenon
<1>3. PICK b \in Seq(Nat), so \in Nat, ml \in Nat, y \in Nat :
        b = q[1].buf /\ so = q[1].s_off /\ ml = q[1].m_len /\ y = LastByte(q[1])
  BY <1>2, Zenon
<1>4. so < Len(b) /\ Len(b) <= ml /\ Run(b, y) /\ y = a + Len(b) - so /\ so + r <= Len(b) /\ Len(b) \in Nat
  <2>1. so < Len(b) /\ Len(b) <= ml /\ Run(b, y) /\ y = a + Len(b) - so
    BY <1>2, <1>3, Zenon
  <2>2. so + r <= Len(b)
    BY <1>3
  <2>3. Len(b) \in Nat
    BY <1>3
  <2> QED
    BY <2>1, <2>2, <2>3, Zenon
<1>5. SubSeq(b, so + 1, so + r) = Bytes(a, r)
  <2>1. a = y - Len(b) + so
    BY <1>4
  <2>2. PICK lo \in Nat : lo = so + 1
    OBVIOUS
  <2>3. PICK hi \in Nat : hi = so + r
    OBVIOUS
  <2>5. hi <= Len(b) /\ r \in Nat
    BY <1>4, <2>3, Zenon
  <2>4. Piece(b, lo, hi) = Bytes(a, r)
    BY <1>4, <2>1, <2>2, <2>3, <2>5, RunPiece
  <2> QED
    BY <2>2, <2>3, <2>4, Zenon DEF Piece
<1>6. CASE so + r = Len(b)
  <2>1. a + r = y
    <3>1. a \in Int /\ r \in Int /\ so \in Int /\ Len(b) \in Int /\ y \in Int /\ y = a + Len(b) - so
          /\ so + r = Len(b)
      BY <1>4, <1>6
    <3> QED
      BY <3>1, SMTT(30)
  <2>2. PICK p : p = Tail(q)
    BY Zenon
  <2>3. p \in Seq(Netbufs) /\ Len(p) = Len(q) - 1 /\ \A k \in 1 .. Len(q) - 1 : p[k] = q[k + 1]
    BY <1>1, <2>2
  <2>4. ASSUME NEW k \in 1 .. Len(p) PROVE Chained(p, a + r, k)
    <3>1. k + 1 \in 1 .. Len(q) /\ p[k] = q[k + 1] /\ Chained(q, a, k + 1)
      BY <1>1, <2>3
    <3>2. (IF k = 1 THEN a + r ELSE LastByte(p[k - 1])) = LastByte(q[k])
      <4>1. CASE k = 1
        BY <1>3, <2>1, <4>1, Zenon
      <4>2. CASE k # 1
        <5>1. k - 1 \in 1 .. Len(q) - 1 /\ (k - 1) + 1 = k
          BY <1>1, <2>3, <4>2
        <5> QED
          BY <2>3, <4>2, <5>1, Zenon
      <4> QED
        BY <4>1, <4>2, Zenon
    <3>3. k + 1 > 1 /\ (k + 1) - 1 = k /\ k + 1 # 1
      OBVIOUS
    <3> QED
      BY <3>1, <3>2, <3>3, Zenon DEF Chained
  <2>5. z = IF p = <<>> THEN a + r ELSE LastByte(p[Len(p)])
    <3>1. z = LastByte(q[Len(q)])
      BY Zenon DEF Chain
    <3>2. CASE p = <<>>
      <4>1. Len(q) = 1
        BY <1>1, <2>3, <3>2
      <4> QED
        BY <1>3, <2>1, <3>1, <3>2, <4>1, Zenon
    <3>3. CASE p # <<>>
      <4>1. Len(p) \in 1 .. Len(q) - 1 /\ Len(p) + 1 = Len(q)
        BY <1>1, <2>3, <3>3
      <4>2. p[Len(p)] = q[Len(q)]
        BY <2>3, <4>1, Zenon
      <4> QED
        BY <3>1, <3>3, <4>2, Zenon
    <3> QED
      BY <3>2, <3>3, Zenon
  <2>6. Chain(p, a + r, z)
    BY <2>3, <2>4, <2>5, Zenon DEF Chain
  <2> QED
    BY <1>3, <1>5, <1>6, <2>2, <2>6, Zenon
<1>7. CASE so + r # Len(b)
  <2>1. PICK mb : mb = [buf |-> b, s_off |-> so + r, m_len |-> ml]
    BY Zenon
  <2>2. mb \in Netbufs /\ mb.buf = b /\ mb.s_off = so + r /\ mb.m_len = ml
    BY <2>1 DEF Netbufs
  <2>3. LastByte(mb) = LastByte(q[1]) /\ LastByte(mb) = y
    BY <1>3, <2>2, Zenon DEF LastByte
  <2>4. so + r < Len(b) /\ y = (a + r) + Len(b) - (so + r)
    BY <1>4, <1>7
  <2>5. [q EXCEPT ![1].s_off = @ + r] = [q EXCEPT ![1] = mb]
    <3>1. [q[1] EXCEPT !.s_off = @ + r] = mb
      <4>1. PICK nb \in Netbufs : nb = q[1]
        BY <1>2, Zenon
      <4>2. nb = [buf |-> b, s_off |-> so, m_len |-> ml]
        BY <1>3, <4>1, Zenon DEF Netbufs
      <4>3. [nb EXCEPT !.s_off = @ + r] = [buf |-> b, s_off |-> so + r, m_len |-> ml]
        BY <4>2
      <4> QED
        BY <2>1, <4>1, <4>3, Zenon
    <3> QED
      BY <1>1, <3>1, Zenon
  <2>6. /\ 1 = Len(q) \/ LastByte(mb) = LastByte(q[1])
        /\ mb.s_off < Len(mb.buf) /\ Len(mb.buf) <= mb.m_len
        /\ 1 > 1 => mb.s_off = 0
        /\ 1 = 1 \/ a = a + r
        /\ Run(mb.buf, LastByte(mb))
        /\ LastByte(mb) = (IF 1 = 1 THEN a + r ELSE LastByte(q[1 - 1])) + Len(mb.buf) - mb.s_off
        /\ a + r \in Nat
    BY <1>4, <2>2, <2>3, <2>4
  <2>7. Chain([q EXCEPT ![1] = mb], a + r, IF 1 = Len(q) THEN LastByte(mb) ELSE LastByte(q[Len(q)]))
    BY <1>1, <2>2, <2>6, ChainReplace, Zenon
  <2>8. z = IF 1 = Len(q) THEN LastByte(mb) ELSE LastByte(q[Len(q)])
    BY <2>3, Zenon DEF Chain
  <2> QED
    BY <1>3, <1>5, <1>7, <2>5, <2>7, <2>8, Zenon
<1> QED
  BY <1>6, <1>7, Zenon

\* The last of the bytes of the first k buffers of a chain that begins behind a.
Upper(q, a, k) == IF k = 0 THEN a ELSE LastByte(q[k])

\* Each buffer of a chain ends behind a, and holds the bytes behind the one before it.
LEMMA ChainBytes ==
  ASSUME NEW q, NEW a \in Nat, NEW z \in Nat, Chain(q, a, z)
  PROVE  /\ \A k \in 0 .. Len(q) : Upper(q, a, k) \in Nat /\ Upper(q, a, k) >= a
         /\ \A k \in 1 .. Len(q) :
              /\ Upper(q, a, k) - Upper(q, a, k - 1) \in Nat
              /\ Piece(q[k].buf, q[k].s_off + 1, Len(q[k].buf))
                   = Bytes(Upper(q, a, k - 1), Upper(q, a, k) - Upper(q, a, k - 1))
<1>1. q \in Seq(Netbufs) /\ Len(q) \in Nat
  BY DEF Chain
<1>2. ASSUME NEW k \in 0 .. Len(q) PROVE Upper(q, a, k) \in Nat
  BY ChainMember DEF Upper
<1>3. ASSUME NEW k \in 1 .. Len(q)
      PROVE  /\ Upper(q, a, k) - Upper(q, a, k - 1) \in Nat
             /\ Piece(q[k].buf, q[k].s_off + 1, Len(q[k].buf))
                  = Bytes(Upper(q, a, k - 1), Upper(q, a, k) - Upper(q, a, k - 1))
  <2>1. /\ q[k].buf \in Seq(Nat) /\ q[k].s_off \in Nat
        /\ q[k].s_off < Len(q[k].buf)
        /\ Run(q[k].buf, LastByte(q[k])) /\ LastByte(q[k]) \in Nat
        /\ LastByte(q[k]) = (IF k = 1 THEN a ELSE LastByte(q[k - 1])) + Len(q[k].buf) - q[k].s_off
    BY ChainMember, Zenon
  <2>2. PICK x \in Nat : x = Upper(q, a, k - 1)
    BY <1>1, <1>2
  <2>3. PICK b \in Seq(Nat), s \in Nat, y \in Nat : b = q[k].buf /\ s = q[k].s_off /\ y = LastByte(q[k])
    BY <2>1, Zenon
  <2>4. Upper(q, a, k) = y /\ (IF k = 1 THEN a ELSE LastByte(q[k - 1])) = x
    BY <2>2, <2>3 DEF Upper
  <2>5. y = x + Len(b) - s /\ s < Len(b) /\ Run(b, y)
    BY <2>1, <2>3, <2>4, Zenon
  <2>6. PICK r \in Nat : r = Len(b) - s
    <3>1. Len(b) \in Nat /\ s < Len(b)
      BY <2>5
    <3> QED
      BY <3>1, SMTT(30)
  <2>7. PICK lo \in Nat : lo = s + 1
    OBVIOUS
  <2>8. PICK hi \in Nat : hi = Len(b)
    OBVIOUS
  <2>9. hi = s + r /\ hi <= Len(b) /\ x = y - Len(b) + s /\ y - x = r
    BY <2>5, <2>6, <2>8
  <2>10. Piece(b, lo, hi) = Bytes(x, r)
    BY <2>5, <2>7, <2>9, RunPiece, SMTT(30)
  <2> QED
    BY <2>2, <2>3, <2>4, <2>7, <2>8, <2>9, <2>10, Zenon
<1>4. \A k \in 0 .. Len(q) : Upper(q, a, k) >= a
  <2> DEFINE V == {k \in 0 .. Len(q) : Upper(q, a, k) >= a}
  <2>1. 0 \in V
    BY <1>1 DEF Upper
  <2>2. ASSUME NEW k \in 0 .. Len(q) - 1, k \in V PROVE k + 1 \in V
    <3>1. k + 1 \in 1 .. Len(q) /\ (k + 1) - 1 = k /\ k \in 0 .. Len(q) /\ k + 1 \in 0 .. Len(q)
      BY <1>1
    <3>2. Upper(q, a, k + 1) - Upper(q, a, k) \in Nat
      BY <1>3, <3>1, Zenon
    <3>3. Upper(q, a, k + 1) \in Nat /\ Upper(q, a, k) \in Nat
      BY <1>2, <3>1, Zenon
    <3> QED
      BY <2>2, <3>1, <3>2, <3>3
  <2>3. \A k \in 0 .. Len(q) : k \in V
    <3> HIDE DEF V
    <3> QED
      BY <1>1, <2>1, <2>2, Upto, Zenon
  <2> QED
    BY <2>3, Zenon
<1> QED
  BY <1>2, <1>3, <1>4, Zenon

\* What a chain has not written are the bytes from its first to its last.
LEMMA UnsentRun ==
  ASSUME NEW q, NEW a \in Nat, NEW z \in Nat, Chain(q, a, z)
  PROVE  z - a \in Nat /\ Unsent(q)[Len(q)] = Bytes(a, z - a)
<1>1. q \in Seq(Netbufs) /\ Len(q) \in Nat /\ z = Upper(q, a, Len(q))
  BY DEF Chain, Upper
<1>2. \A k \in 0 .. Len(q) : Upper(q, a, k) \in Nat /\ Upper(q, a, k) >= a
  BY ChainBytes, Zenon
<1> DEFINE U(k) == Upper(q, a, k)
           P(k) == Piece(q[k].buf, q[k].s_off + 1, Len(q[k].buf))
           g == [k \in 0 .. Len(q) |-> Bytes(a, U(k) - a)]
           F(e) == [k \in 0 .. Len(q) |-> IF k = 0 THEN <<>> ELSE e[k - 1] \o P(k)]
<1>3. ASSUME NEW k \in 1 .. Len(q) PROVE Bytes(a, U(k) - a) = Bytes(a, U(k - 1) - a) \o P(k)
  <2>1. k \in 0 .. Len(q) /\ k - 1 \in 0 .. Len(q)
    BY <1>1
  <2>2. PICK u \in Nat, v \in Nat : u = U(k) /\ v = U(k - 1) /\ u >= a /\ v >= a
    BY <1>2, <2>1, Zenon
  <2>3. u - v \in Nat /\ P(k) = Bytes(v, u - v)
    BY <2>2, ChainBytes, Zenon
  <2>4. v - a \in Nat /\ a + (v - a) = v /\ (v - a) + (u - v) = u - a
    BY <2>2, <2>3
  <2>5. Bytes(a, v - a) \o Bytes(a + (v - a), u - v) = Bytes(a, (v - a) + (u - v))
    BY <2>3, <2>4, BytesConcat, ZenonT(60)
  <2> QED
    BY <2>2, <2>3, <2>4, <2>5, Zenon
<1>4. Bytes(a, U(0) - a) = <<>>
  BY DEF Bytes, Upper
<1> HIDE DEF U, P
<1>5. g = F(g)
  <2>1. ASSUME NEW k \in 0 .. Len(q) PROVE g[k] = IF k = 0 THEN <<>> ELSE g[k - 1] \o P(k)
    <3>1. CASE k = 0
      BY <1>4, <3>1, Zenon
    <3>2. CASE k # 0
      <4>1. k \in 1 .. Len(q) /\ k - 1 \in 0 .. Len(q)
        BY <1>1, <3>2
      <4> QED
        BY <1>3, <3>2, <4>1, Zenon
    <3> QED
      BY <3>1, <3>2, Zenon
  <2> QED
    BY <2>1, Zenon
<1>6. Unsent(q) = CHOOSE e : e = F(e)
  BY Zenon DEF Unsent, P, Piece
<1>7. Unsent(q) = F(Unsent(q))
  <2> HIDE DEF F, g
  <2> QED
    BY <1>5, <1>6, Zenon
<1>8. PICK e : e = Unsent(q)
  BY Zenon
<1>9. e = F(e)
  BY <1>7, <1>8, Zenon
<1>10. e[0] = <<>> /\ \A k \in 1 .. Len(q) : e[k] = e[k - 1] \o P(k)
  <2>1. \A k \in 0 .. Len(q) : F(e)[k] = IF k = 0 THEN <<>> ELSE e[k - 1] \o P(k)
    BY Zenon
  <2> HIDE DEF F
  <2>2. \A k \in 0 .. Len(q) : e[k] = IF k = 0 THEN <<>> ELSE e[k - 1] \o P(k)
    BY <1>9, <2>1, Zenon
  <2>3. 0 \in 0 .. Len(q)
    BY <1>1
  <2>4. e[0] = <<>>
    BY <2>2, <2>3, Zenon
  <2>5. ASSUME NEW k \in 1 .. Len(q) PROVE e[k] = e[k - 1] \o P(k)
    <3>1. k \in 0 .. Len(q) /\ k # 0
      BY <1>1
    <3> QED
      BY <2>2, <3>1, Zenon
  <2> QED
    BY <2>4, <2>5, Zenon
<1>11. \A k \in 0 .. Len(q) : e[k] = Bytes(a, U(k) - a)
  <2> DEFINE V == {k \in 0 .. Len(q) : e[k] = Bytes(a, U(k) - a)}
  <2>1. 0 \in V
    BY <1>1, <1>4, <1>10
  <2>2. ASSUME NEW k \in 0 .. Len(q) - 1, k \in V PROVE k + 1 \in V
    <3>1. k + 1 \in 1 .. Len(q) /\ (k + 1) - 1 = k /\ k \in 0 .. Len(q) /\ k + 1 \in 0 .. Len(q)
      BY <1>1
    <3>2. e[k + 1] = e[k] \o P(k + 1)
      BY <1>10, <3>1, Zenon
    <3>3. Bytes(a, U(k + 1) - a) = Bytes(a, U(k) - a) \o P(k + 1)
      BY <1>3, <3>1, Zenon
    <3> QED
      BY <2>2, <3>1, <3>2, <3>3, Zenon
  <2>3. \A k \in 0 .. Len(q) : k \in V
    <3> HIDE DEF V
    <3> QED
      BY <1>1, <2>1, <2>2, Upto, Zenon
  <2> QED
    BY <2>3, Zenon
<1>12. Len(q) \in 0 .. Len(q) /\ U(Len(q)) = z
  BY <1>1 DEF U
<1>13. z >= a
  BY <1>1, <1>2
<1>14. e[Len(q)] = Bytes(a, z - a)
  BY <1>11, <1>12, Zenon
<1> QED
  BY <1>8, <1>13, <1>14

-----------------------------------------------------------------------------
(* The framing of the client's stream. *)

\* The state is what the code's types allow, and a connection that is removed is not in
\* the middle of a handler.
Typed ==
  /\ eof \in BOOLEAN /\ hup \in BOOLEAN /\ edge \in BOOLEAN /\ R \in BOOLEAN
  /\ W \in BOOLEAN /\ closer \in BOOLEAN /\ quiet \in BOOLEAN
  /\ obuf \in 0 .. SockBuf
  /\ state \in {"established", "disconnecting", "removed"}
  /\ pc \in {"idle", "recv", "send", "broadcast"}
  /\ state = "removed" => pc = "idle"

\* The message callback got the data frames before the c-th one, in order.
Given(m, c) ==
  /\ m \in Seq(Nat)
  /\ Range(m) = {i \in 1 .. c - 1 : sent[i].op = "text"}
  /\ \A i, j \in DOMAIN m : i < j => m[i] < m[j]

\* The receive buffer begins where the c-th frame does; it waits for more than the header
\* only of a frame that websocket_recv_opcode accepted, hence one that has a mask.
FramedAt(c) ==
  /\ Offset(c) = rnb.start
  /\ rnb.cb = "websocket_recv_frame" => c <= Len(sent) /\ sent[c].mask
  /\ Given(msgs, c)

\* Where the receive buffer is in the stream of the peer's frames.
Framing ==
  /\ arrived \in Nat /\ arrived <= Offset(Len(sent) + 1)
  /\ rnb.start + rnb.s_off <= arrived
  /\ \E c \in 1 .. Len(sent) + 1 : FramedAt(c)

\* What read leaves in the receive buffer.
Filled ==
  LET wanted == rnb.b_len - rnb.s_off
      avail == arrived - rnb.start - rnb.s_off
  IN  [rnb EXCEPT !.s_off = @ + (IF avail < wanted THEN avail ELSE wanted)]

\* A read that ends no frame, and one that does.
ReadsOn(c) ==
  /\ rnb'.start = rnb.start /\ rnb'.s_off = Filled.s_off
  /\ rnb'.cb = "websocket_recv_frame" => sent[c].mask
  /\ UNCHANGED <<state, closer, pc>> \/ HandleFails
  /\ UNCHANGED <<send_queue, queued, ghosts>>

\* A read that ends the c-th frame.
Completes(c) ==
  /\ Filled.start + Filled.s_off = Offset(c + 1)
  /\ Dispatch(Filled, c, sent[c])

\* Frames follow each other in the stream without a gap and without overlap.
LEMMA Offsets ==
  ASSUME sent \in Seq(Frames), NEW c \in 1 .. Len(sent)
  PROVE  /\ Offset(c) \in Nat /\ Offset(c + 1) = Offset(c) + WireLen(sent[c])
         /\ Offset(Len(sent) + 1) \in Nat /\ Offset(c) < Offset(Len(sent) + 1)
         /\ \A i \in 1 .. Len(sent) : Offset(i) = Offset(c) => i = c
<1>1. /\ Ends(sent) \in [0 .. Len(sent) -> Nat]
      /\ \A k \in 1 .. Len(sent) : Ends(sent)[k] = Ends(sent)[k - 1] + WireLen(sent[k])
  BY EndsDef, Zenon
<1>2. /\ c - 1 \in 0 .. Len(sent) /\ (c + 1) - 1 = c /\ (Len(sent) + 1) - 1 = Len(sent)
      /\ Len(sent) \in 0 .. Len(sent) /\ c - 1 < Len(sent)
  OBVIOUS
<1>3. Ends(sent)[c - 1] < Ends(sent)[Len(sent)]
  BY <1>2, EndsIncrease, Zenon
<1>4. ASSUME NEW i \in 1 .. Len(sent), Ends(sent)[i - 1] = Ends(sent)[c - 1] PROVE i = c
  <2>1. i - 1 \in 0 .. Len(sent)
    OBVIOUS
  <2>2. Ends(sent)[i - 1] \in Nat
    BY <1>1, <2>1, Zenon
  <2>3. ~(i - 1 < c - 1)
    BY <1>2, <1>4, <2>1, <2>2, EndsIncrease
  <2>4. ~(c - 1 < i - 1)
    BY <1>2, <1>4, <2>1, <2>2, EndsIncrease
  <2> QED
    BY <2>3, <2>4
<1> QED
  BY <1>1, <1>2, <1>3, <1>4, Zenon DEF Offset

\* The bytes at the beginning of a frame are read as that frame's header.
LEMMA HeaderOf ==
  ASSUME sent \in Seq(Frames), NEW c \in 1 .. Len(sent)
  PROVE  HeaderAt(Offset(c)) = {<<c, sent[c]>>}
<1>1. {i \in 1 .. Len(sent) : Offset(i) = Offset(c)} = {c}
  BY Offsets, Zenon
<1> QED
  BY <1>1, Zenon DEF HeaderAt

\* What a step of net_recv_flush does: it reads within the frame the buffer begins with,
\* and hands over that frame, complete, if it hands over any.
LEMMA Outcomes ==
  ASSUME IInv, Framing, net_recv_flush, NEW c \in 1 .. Len(sent) + 1, FramedAt(c)
  PROVE  /\ c \in 1 .. Len(sent) /\ Filled.start = rnb.start
         /\ Filled.s_off \in Nat /\ rnb.start + Filled.s_off <= arrived
         /\ ReadsOn(c) \/ Completes(c)
<1>1. /\ rnb \in [start : Nat, s_off : Nat, b_len : Nat, m_len : Nat,
                  cb : {"websocket_recv_opcode", "websocket_recv_frame"}]
      /\ rnb.s_off < rnb.b_len /\ arrived \in Nat /\ arrived > rnb.start + rnb.s_off
      /\ sent \in Seq(Frames) /\ arrived <= Offset(Len(sent) + 1) /\ Offset(c) = rnb.start
      /\ (rnb.cb = "websocket_recv_frame" => sent[c].mask)
  BY Zenon DEF IInv, RnbOK, Framing, FramedAt, net_recv_flush
<1>2. c \in 1 .. Len(sent)
  <2>1. c # Len(sent) + 1
    BY <1>1
  <2> QED
    BY <1>1, <2>1
<1>3. PICK nb : nb = Filled
  BY Zenon
<1>4. /\ nb.start = rnb.start /\ nb.b_len = rnb.b_len /\ nb.cb = rnb.cb
      /\ nb.s_off \in Nat /\ nb.s_off <= nb.b_len /\ nb.b_len \in Nat /\ rnb.start + nb.s_off <= arrived
  BY <1>1, <1>3, SMTT(30) DEF Filled
<1>5. sent[c] \in Frames
  BY <1>1, <1>2
<1>6. CASE nb.s_off < nb.b_len
  <2>1. rnb' = nb /\ UNCHANGED <<state, closer, pc, send_queue, queued, ghosts>>
    BY <1>3, <1>6, Zenon DEF net_recv_flush, Filled
  <2> QED
    BY <1>1, <1>2, <1>3, <1>4, <2>1, Zenon DEF ReadsOn
<1>7. CASE ~(nb.s_off < nb.b_len)
  <2>1. nb.s_off = nb.b_len
    BY <1>4, <1>7
  <2>2. \E h \in HeaderAt(nb.start) :
          IF nb.cb = "websocket_recv_opcode"
          THEN websocket_recv_opcode(nb, h[2])
          ELSE websocket_recv_frame(nb, h[1], h[2])
    BY <1>3, <1>7, Zenon DEF net_recv_flush, Filled
  <2>3. HeaderAt(nb.start) = {<<c, sent[c]>>}
    BY <1>1, <1>2, <1>4, HeaderOf, Zenon
  <2>4. IF nb.cb = "websocket_recv_opcode"
        THEN websocket_recv_opcode(nb, sent[c])
        ELSE websocket_recv_frame(nb, c, sent[c])
    BY <2>2, <2>3
  <2>5. CASE nb.cb = "websocket_recv_opcode"
    <3>1. websocket_recv_opcode(nb, sent[c])
      BY <2>4, <2>5, Zenon
    <3>2. CASE HeaderBad(sent[c])
      <4>1. HandleFails /\ rnb' = nb /\ UNCHANGED <<send_queue, queued, ghosts>>
        BY <3>1, <3>2, Zenon DEF websocket_recv_opcode
      <4> QED
        BY <1>2, <1>3, <1>4, <2>5, <4>1, Zenon DEF ReadsOn
    <3>3. CASE ~HeaderBad(sent[c])
      <4>1. /\ rnb' = net_recv_expand(nb, OpcodeExpand(sent[c]), "websocket_recv_frame")
            /\ UNCHANGED <<state, closer, pc, send_queue, queued, ghosts>>
        BY <3>1, <3>3, Zenon DEF websocket_recv_opcode
      <4>2. sent[c].mask
        BY <3>3, Zenon DEF HeaderBad
      <4>3. rnb'.start = nb.start /\ rnb'.s_off = nb.s_off
        BY <4>1, Zenon DEF net_recv_expand
      <4> QED
        BY <1>2, <1>3, <1>4, <4>1, <4>2, <4>3, Zenon DEF ReadsOn
    <3> QED
      BY <3>2, <3>3, Zenon
  <2>6. CASE nb.cb # "websocket_recv_opcode"
    <3>1. websocket_recv_frame(nb, c, sent[c]) /\ sent[c].mask
      BY <1>1, <1>4, <2>4, <2>6, Zenon
    <3>2. CASE HandleFails /\ rnb' = nb /\ UNCHANGED <<send_queue, queued, ghosts>>
      BY <1>2, <1>3, <1>4, <3>1, <3>2, Zenon DEF ReadsOn
    <3>3. CASE /\ rnb' = net_recv_expand(nb, Total(sent[c]) - nb.b_len, "websocket_recv_frame")
               /\ UNCHANGED <<state, closer, pc, send_queue, queued, ghosts>>
      <4>1. rnb'.start = nb.start /\ rnb'.s_off = nb.s_off
        BY <3>3, Zenon DEF net_recv_expand
      <4> QED
        BY <1>2, <1>3, <1>4, <3>1, <3>3, <4>1, Zenon DEF ReadsOn
    <3>4. CASE Total(sent[c]) = nb.b_len /\ Dispatch(nb, c, sent[c])
      <4>1. WireLen(sent[c]) = nb.s_off
        BY <2>1, <3>1, <3>4, Zenon DEF WireLen
      <4>2. nb.start + nb.s_off = Offset(c + 1)
        BY <1>1, <1>2, <1>4, <4>1, Offsets, Zenon
      <4> QED
        BY <1>2, <1>3, <1>4, <3>4, <4>2, Zenon DEF Completes
    <3> QED
      BY <3>1, <3>2, <3>3, <3>4, Zenon DEF websocket_recv_frame
  <2> QED
    BY <2>5, <2>6, Zenon
<1> QED
  BY <1>6, <1>7, Zenon

\* A data frame handed over continues what the message callback got.
LEMMA GivenNext ==
  ASSUME sent \in Seq(Frames), NEW c \in 1 .. Len(sent), NEW m, Given(m, c)
  PROVE  /\ sent[c].op = "text" => Given(Append(m, c), c + 1)
         /\ sent[c].op # "text" => Given(m, c + 1)
<1>1. m \in Seq(Nat) /\ c \in Nat
  BY DEF Given
<1>2. {i \in 1 .. (c + 1) - 1 : sent[i].op = "text"}
        = {i \in 1 .. c - 1 : sent[i].op = "text"} \cup (IF sent[c].op = "text" THEN {c} ELSE {})
  OBVIOUS
<1>3. CASE sent[c].op = "text"
  <2>1. PICK n : n = Append(m, c)
    BY Zenon
  <2>2. /\ n \in Seq(Nat) /\ Len(n) = Len(m) + 1 /\ n[Len(m) + 1] = c
        /\ \A i \in 1 .. Len(m) : n[i] = m[i]
    BY <1>1, <2>1
  <2>3. Range(n) = Range(m) \cup {c}
    <3>1. /\ Range(m) = {m[i] : i \in 1 .. Len(m)} /\ Range(n) = {n[i] : i \in 1 .. Len(m) + 1}
          /\ Len(m) \in Nat
      <4>1. DOMAIN m = 1 .. Len(m) /\ Len(m) \in Nat
        BY <1>1
      <4>2. DOMAIN n = 1 .. Len(m) + 1
        BY <2>2
      <4> QED
        BY <4>1, <4>2, Zenon DEF Range
    <3>2. \A x \in Range(n) : x \in Range(m) \cup {c}
      BY <2>2, <3>1, SMTT(30)
    <3>3. \A x \in Range(m) : x \in Range(n)
      BY <2>2, <3>1
    <3>4. c \in Range(n)
      BY <2>2, <3>1
    <3> QED
      BY <3>2, <3>3, <3>4, Zenon
  <2>4. \A i \in 1 .. Len(m) : m[i] \in Nat /\ m[i] < c
    BY <1>1, SMTT(30) DEF Given, Range
  <2>5. \A i, j \in DOMAIN n : i < j => n[i] < n[j]
    <3>1. SUFFICES ASSUME NEW i \in 1 .. Len(m) + 1, NEW j \in 1 .. Len(m) + 1, i < j
                   PROVE  n[i] < n[j]
      BY <1>1, <2>2
    <3>5. i \in 1 .. Len(m) /\ (j = Len(m) + 1 \/ j \in 1 .. Len(m))
      <4>1. Len(m) \in Nat
        BY <1>1
      <4> QED
        BY <3>1, <4>1
    <3>2. i \in 1 .. Len(m) /\ n[i] = m[i] /\ (j = Len(m) + 1 \/ j \in 1 .. Len(m))
      BY <2>2, <3>5, Zenon
    <3>3. CASE j = Len(m) + 1
      BY <2>2, <2>4, <3>2, <3>3, Zenon
    <3>4. CASE j \in 1 .. Len(m)
      <4>1. m[i] < m[j]
        BY <1>1, <3>1, <3>2, <3>4 DEF Given
      <4> QED
        BY <2>2, <3>2, <3>4, <4>1, Zenon
    <3> QED
      BY <3>2, <3>3, <3>4, Zenon
  <2>6. Range(n) = {i \in 1 .. (c + 1) - 1 : sent[i].op = "text"}
    BY <1>2, <1>3, <2>3, Zenon DEF Given
  <2> QED
    BY <1>3, <2>1, <2>2, <2>5, <2>6, Zenon DEF Given
<1>4. CASE sent[c].op # "text"
  BY <1>2, <1>4, Zenon DEF Given
<1> QED
  BY <1>3, <1>4, Zenon

\* The framing survives a read, whatever it reads.
LEMMA FramingRead ==
  ASSUME IInv, Framing, net_recv_flush
  PROVE  Framing'
<1>1. PICK c \in 1 .. Len(sent) + 1 : FramedAt(c)
  BY Zenon DEF Framing
<1>2. /\ c \in 1 .. Len(sent) /\ Filled.start = rnb.start
      /\ Filled.s_off \in Nat /\ rnb.start + Filled.s_off <= arrived
      /\ ReadsOn(c) \/ Completes(c)
  BY <1>1, Outcomes, Zenon
<1>3. sent' = sent /\ arrived' = arrived /\ sent \in Seq(Frames)
  BY Zenon DEF net_recv_flush, peer, IInv
<1>4. \A i : Offset(i)' = Offset(i)
  BY <1>3, Zenon DEF Offset
<1>5. arrived' \in Nat /\ arrived' <= Offset(Len(sent) + 1)'
  BY <1>3, <1>4, Zenon DEF Framing
<1>6. CASE ReadsOn(c)
  <2>1. rnb'.start = rnb.start /\ rnb'.s_off = Filled.s_off /\ msgs' = msgs
    BY <1>6, Zenon DEF ReadsOn, ghosts
  <2>2. FramedAt(c)'
    BY <1>1, <1>2, <1>3, <1>4, <1>6, <2>1 DEF FramedAt, Given, ReadsOn
  <2> QED
    BY <1>2, <1>3, <1>5, <2>1, <2>2, Zenon DEF Framing
<1>7. CASE Completes(c)
  <2>1. rnb' = net_recv_reset(Filled) /\ Dispatch(Filled, c, sent[c])
    BY <1>7, Zenon DEF Completes, Dispatch
  <2>2. /\ rnb'.start = Filled.start + Filled.s_off /\ rnb'.s_off = 0
        /\ rnb'.cb = "websocket_recv_opcode"
    BY <2>1, Zenon DEF net_recv_reset
  <2>3. rnb'.start = Offset(c + 1)'
    BY <1>4, <1>7, <2>2, Zenon DEF Completes
  <2>4. Given(msgs, c)
    BY <1>1, Zenon DEF FramedAt
  <2>5. msgs' = IF sent[c].op = "text" THEN Append(msgs, c) ELSE msgs
    BY <2>1, Zenon DEF Dispatch, on_websocket_message, ghosts
  <2>6. Given(msgs', c + 1)
    BY <1>2, <1>3, <2>4, <2>5, GivenNext, Zenon
  <2>7. Given(msgs, c + 1)'
    BY <1>3, <2>6, Zenon DEF Given
  <2>8. FramedAt(c + 1)'
    BY <2>2, <2>3, <2>7, Zenon DEF FramedAt
  <2>9. c + 1 \in 1 .. Len(sent) + 1
    BY <1>2
  <2>10. rnb'.start + rnb'.s_off <= arrived'
    BY <1>2, <1>3, <2>2 DEF IInv, RnbOK
  <2> QED
    BY <1>3, <1>5, <2>8, <2>9, <2>10, Zenon DEF Framing
<1> QED
  BY <1>2, <1>6, <1>7, Zenon

\* So it does what the client and the network do meanwhile.
LEMMA FramingStep ==
  ASSUME IInv, Framing, [Next]_vars
  PROVE  Framing'
<1>1. CASE net_recv_flush
  BY <1>1, FramingRead, Zenon
<1>2. CASE ClientSends
  <2>1. PICK f \in Frames : sent' = Append(sent, f)
    BY <1>2, Zenon DEF ClientSends
  <2>2. arrived' = arrived /\ rnb' = rnb /\ msgs' = msgs /\ arrived = Offset(Len(sent) + 1)
    BY <1>2, Zenon DEF ClientSends, ghosts
  <2>3. sent \in Seq(Frames) /\ sent' \in Seq(Frames) /\ Len(sent') = Len(sent) + 1 /\ Len(sent) \in Nat
    BY <2>1 DEF IInv
  <2>4. \A i \in 1 .. Len(sent) : sent'[i] = sent[i]
    BY <2>1, <2>3
  <2>5. ASSUME NEW i \in 1 .. Len(sent) + 1 PROVE Offset(i)' = Offset(i)
    <3>1. i - 1 \in 0 .. Len(sent)
      BY <2>3
    <3>2. Ends(Append(sent, f))[i - 1] = Ends(sent)[i - 1]
      BY <2>3, <3>1, EndsAppend, Zenon
    <3> QED
      BY <2>1, <3>2, Zenon DEF Offset
  <2>6. arrived' <= Offset(Len(sent) + 1)'
    <3>1. Len(sent) + 1 \in 1 .. Len(sent')
      BY <2>3
    <3>2. /\ Offset(Len(sent) + 1)' \in Nat
          /\ Ends(sent')[(Len(sent) + 1) - 1] < Ends(sent')[(Len(sent') + 1) - 1]
          /\ Ends(sent')[(Len(sent') + 1) - 1] \in Nat
      <4>1. /\ (Len(sent) + 1) - 1 \in 0 .. Len(sent') /\ (Len(sent') + 1) - 1 \in 0 .. Len(sent')
            /\ (Len(sent) + 1) - 1 < (Len(sent') + 1) - 1
        BY <2>3
      <4>2. Ends(sent') \in [0 .. Len(sent') -> Nat]
        BY <2>3, EndsDef, Zenon
      <4>3. (Len(sent) + 1)' = Len(sent') + 1 /\ Offset(Len(sent) + 1)' = Ends(sent')[(Len(sent') + 1) - 1]
        BY Zenon DEF Offset
      <4> QED
        BY <2>3, <4>1, <4>2, <4>3, EndsIncrease, Zenon
    <3>3. Ends(sent')[(Len(sent) + 1) - 1] = Ends(sent)[(Len(sent) + 1) - 1]
      <4>1. (Len(sent) + 1) - 1 \in 0 .. Len(sent)
        BY <2>3
      <4> QED
        BY <2>1, <2>3, <4>1, EndsAppend, Zenon
    <3>4. arrived \in Nat /\ arrived = Ends(sent)[(Len(sent) + 1) - 1]
      BY <2>2, Zenon DEF Framing, Offset
    <3>5. Offset(Len(sent) + 1)' = Ends(sent')[(Len(sent') + 1) - 1]
      BY Zenon DEF Offset
    <3> QED
      BY <2>2, <3>2, <3>3, <3>4, <3>5
  <2>7. PICK c \in 1 .. Len(sent) + 1 : FramedAt(c)
    BY Zenon DEF Framing
  <2>8. FramedAt(c)'
    <3>1. Offset(c)' = rnb'.start
      BY <2>2, <2>5, <2>7, Zenon DEF FramedAt
    <3>2. rnb'.cb = "websocket_recv_frame" => c <= Len(sent') /\ sent'[c].mask
      BY <2>2, <2>3, <2>4, <2>7 DEF FramedAt
    <3>3. {i \in 1 .. c - 1 : sent'[i].op = "text"} = {i \in 1 .. c - 1 : sent[i].op = "text"}
      BY <2>3, <2>4
    <3>4. Given(msgs, c)'
      BY <2>2, <2>7, <3>3, Zenon DEF FramedAt, Given
    <3> QED
      BY <3>1, <3>2, <3>4, Zenon DEF FramedAt
  <2>9. c \in 1 .. Len(sent') + 1
    BY <2>3
  <2> QED
    BY <2>2, <2>6, <2>8, <2>9, Zenon DEF Framing
<1>3. CASE Arrive
  <2>1. /\ sent' = sent /\ rnb' = rnb /\ msgs' = msgs
        /\ arrived' \in arrived + 1 .. Offset(Len(sent) + 1)
    BY <1>3, Zenon DEF Arrive, ghosts
  <2>2. \A i : Offset(i)' = Offset(i)
    BY <2>1, Zenon DEF Offset
  <2>3. arrived \in Nat /\ sent \in Seq(Frames) /\ rnb.start + rnb.s_off \in Nat
        /\ rnb.start + rnb.s_off <= arrived
    BY DEF Framing, IInv, RnbOK
  <2>4. Offset(Len(sent) + 1) \in Nat
    <3>1. (Len(sent) + 1) - 1 \in 0 .. Len(sent)
      BY <2>3
    <3> QED
      BY <2>3, <3>1, EndsDef, Zenon DEF Offset
  <2>5. /\ arrived' \in Nat /\ arrived' <= Offset(Len(sent) + 1) /\ rnb.start + rnb.s_off <= arrived'
    BY <2>1, <2>3, <2>4
  <2>6. PICK c \in 1 .. Len(sent) + 1 : FramedAt(c)
    BY Zenon DEF Framing
  <2>7. FramedAt(c)'
    BY <2>1, <2>2, <2>6, Zenon DEF FramedAt, Given
  <2> QED
    BY <2>1, <2>2, <2>5, <2>7, Zenon DEF Framing
<1>4. CASE UNCHANGED <<sent, arrived, rnb, msgs>>
  BY <1>4, Zenon DEF Framing, FramedAt, Given, Offset
<1>5. CASE ClientShutsDown \/ ClientResets \/ Drain \/ EventError \/ IdleTimeout \/ ReadFails \/ WriteFails
           \/ kore_connection_handle \/ ReadAgain \/ ReadEndOfStream
  BY <1>4, <1>5, Zenon DEF ClientShutsDown, ClientResets, Drain, EventError, IdleTimeout, ReadFails,
     WriteFails, kore_connection_handle, ReadAgain, ReadEndOfStream, peer, ghosts
<1>6. CASE net_send \/ WriteAgain \/ FlushDone \/ kore_websocket_broadcast \/ SendOutside
           \/ kore_connection_remove \/ UNCHANGED vars
  BY <1>4, <1>6, Zenon DEF net_send, WriteAgain, FlushDone, kore_websocket_broadcast, SendOutside,
     kore_connection_remove, vars, peer, ghosts
<1> QED
  BY <1>1, <1>2, <1>3, <1>5, <1>6, Zenon DEF Next

-----------------------------------------------------------------------------
(* The bytes on the wire. *)

\* The bytes written are the first ones that were queued, and the queue holds the others;
\* a connection that is removed has none.
Queue ==
  /\ queued \in Nat /\ queued <= MaxQueued
  /\ Len(out) \in Nat /\ out = Bytes(0, Len(out))
  /\ state = "removed" => send_queue = <<>>
  /\ state # "removed" => Chain(send_queue, Len(out), queued)

\* kore_websocket_send queues the bytes that come next.
LEMMA Sends ==
  ASSUME Queue, state # "removed", NEW len \in Nat, kore_websocket_send(len)
  PROVE  /\ queued' \in Nat /\ queued' <= MaxQueued
         /\ Chain(send_queue', Len(out), queued')
<1>1. PICK n : n = websocket_frame_build(len)
  BY Zenon
<1>2. n \in Nat \ {0}
  BY <1>1, SizesAssumption DEF websocket_frame_build, WEBSOCKET_FRAME_HDR
<1>3. /\ queued + n <= MaxQueued /\ queued' = queued + n
      /\ send_queue' = net_send_queue(send_queue, Bytes(queued, n))
  BY <1>1, Zenon DEF kore_websocket_send, Bytes
<1>4. queued \in Nat /\ Len(out) \in Nat /\ Chain(send_queue, Len(out), queued)
  BY Zenon DEF Queue
<1>5. Chain(net_send_queue(send_queue, Bytes(queued, n)), Len(out), queued + n)
  BY <1>2, <1>4, QueueGrows, Zenon
<1> QED
  BY <1>2, <1>3, <1>4, <1>5

\* net_send writes the bytes that come next, as many as the socket has room for.
LEMMA Writes ==
  ASSUME Typed, Queue, net_send
  PROVE  /\ obuf' \in 0 .. SockBuf
         /\ Len(out') \in Nat /\ out' = Bytes(0, Len(out'))
         /\ Chain(send_queue', Len(out'), queued)
<1>1. /\ queued \in Nat /\ Len(out) \in Nat /\ out = Bytes(0, Len(out))
      /\ Chain(send_queue, Len(out), queued) /\ send_queue # <<>> /\ obuf \in 0 .. SockBuf /\ obuf < SockBuf
  BY Zenon DEF Queue, Typed, net_send, Flushing
<1>2. send_queue \in Seq(Netbufs) /\ 1 \in 1 .. Len(send_queue) /\ Head(send_queue) = send_queue[1]
  BY <1>1 DEF Chain
<1>3. PICK q : q = send_queue
  BY Zenon
<1>4. PICK a \in Nat : a = Len(out)
  BY <1>1, Zenon
<1>5. /\ Chain(q, a, queued) /\ q # <<>>
      /\ q[1].buf \in Seq(Nat) /\ q[1].s_off \in Nat /\ q[1].s_off < Len(q[1].buf)
  BY <1>1, <1>2, <1>3, <1>4, ChainMember, Zenon
<1>6. PICK left \in Nat \ {0} : left = Len(q[1].buf) - q[1].s_off
  <2>1. Len(q[1].buf) \in Nat
    BY <1>5
  <2> QED
    BY <1>5, <2>1
<1>7. PICK len : len = IF left < PAYLOAD_MAX THEN left ELSE PAYLOAD_MAX
  BY Zenon
<1>8. len \in Nat \ {0} /\ len <= left
  BY <1>7, SizesAssumption
<1>9. PICK r : r = IF SockBuf - obuf < len THEN SockBuf - obuf ELSE len
  BY Zenon
<1>10. r \in Nat \ {0} /\ r <= left /\ obuf + r \in 0 .. SockBuf
  BY <1>1, <1>8, <1>9, SizesAssumption
<1>11. /\ out' = out \o SubSeq(q[1].buf, q[1].s_off + 1, q[1].s_off + r)
       /\ obuf' = obuf + r
       /\ send_queue' = IF q[1].s_off + r = Len(q[1].buf) THEN Tail(q) ELSE [q EXCEPT ![1].s_off = @ + r]
  BY <1>2, <1>3, <1>6, <1>7, <1>9, Zenon DEF net_send
<1>12. r <= Len(q[1].buf) - q[1].s_off
  BY <1>6, <1>10, Zenon
<1>13. /\ SubSeq(q[1].buf, q[1].s_off + 1, q[1].s_off + r) = Bytes(a, r)
       /\ Chain(IF q[1].s_off + r = Len(q[1].buf) THEN Tail(q) ELSE [q EXCEPT ![1].s_off = @ + r],
                a + r, queued)
  BY <1>1, <1>5, <1>10, <1>12, QueueSent, Zenon
<1>14. out' = Bytes(0, a) \o Bytes(0 + a, r)
  <2>1. PICK w : w = SubSeq(q[1].buf, q[1].s_off + 1, q[1].s_off + r)
    BY Zenon
  <2>2. out' = out \o w
    BY <1>11, <2>1, Zenon
  <2>3. w = Bytes(a, r)
    BY <1>13, <2>1, Zenon
  <2>4. 0 + a = a
    OBVIOUS
  <2> QED
    BY <1>1, <1>4, <2>2, <2>3, <2>4, Zenon
<1>15. out' = Bytes(0, a + r)
  <2>1. 0 \in Nat /\ r \in Nat
    BY <1>10, Zenon
  <2>2. Bytes(0, a) \o Bytes(0 + a, r) = Bytes(0, a + r)
    BY <2>1, BytesConcat, Zenon
  <2> QED
    BY <1>14, <2>2, Zenon
<1>16. Len(out') = a + r
  <2>1. a + r \in Nat /\ 0 \in Nat
    BY <1>10
  <2> QED
    BY <1>15, <2>1, BytesRun, Zenon
<1>17. Chain(send_queue', a + r, queued)
  BY <1>11, <1>13, Zenon
<1>18. a + r \in Nat /\ obuf' \in 0 .. SockBuf
  BY <1>10, <1>11
<1> QED
  BY <1>15, <1>16, <1>17, <1>18, Zenon

\* A handler leaves the types as they are.
LEMMA TypedStep ==
  ASSUME IInv, Framing, Typed, Queue, [Next]_vars
  PROVE  Typed'
<1>1. CASE net_recv_flush
  <2>1. PICK c \in 1 .. Len(sent) + 1 : FramedAt(c)
    BY Zenon DEF Framing
  <2>2. ReadsOn(c) \/ Completes(c)
    BY <1>1, <2>1, Outcomes, Zenon
  <2>3. UNCHANGED <<eof, hup, obuf, edge, R, W, quiet>> /\ pc = "recv"
    BY <1>1, Zenon DEF net_recv_flush, peer
  <2>4. \/ UNCHANGED <<state, closer, pc>>
        \/ /\ state' = "disconnecting" /\ pc' \in {pc, "idle"}
           /\ closer' \in BOOLEAN
    BY <2>2, Zenon DEF Typed, ReadsOn, Completes, Dispatch, on_websocket_message, HandleFails,
       kore_connection_disconnect
  <2> QED
    BY <2>3, <2>4, Zenon DEF Typed
<1>2. CASE ClientSends \/ Arrive \/ ClientShutsDown \/ ClientResets \/ Drain
  <2>1. CASE ClientSends \/ Arrive
    BY <2>1, Zenon DEF Typed, ClientSends, Arrive
  <2>2. CASE ClientShutsDown \/ ClientResets
    BY <2>2, Zenon DEF Typed, ClientShutsDown, ClientResets, peer
  <2>3. CASE Drain
    BY <2>3, SizesAssumption DEF Typed, Drain, peer
  <2> QED
    BY <1>2, <2>1, <2>2, <2>3, Zenon
<1>3. CASE EventError \/ IdleTimeout \/ ReadFails \/ WriteFails \/ ReadEndOfStream
  BY <1>3, Zenon DEF Typed, EventError, IdleTimeout, ReadFails, WriteFails, ReadEndOfStream, HandleFails,
     kore_connection_disconnect, Flushing, peer
<1>4. CASE kore_connection_handle \/ ReadAgain
  BY <1>4, Zenon DEF Typed, kore_connection_handle, ReadAgain, peer
<1>5. CASE net_send
  <2>1. obuf' \in 0 .. SockBuf
    BY <1>5, Writes, Zenon
  <2> QED
    BY <1>5, <2>1, Zenon DEF Typed, net_send, peer
<1>6. CASE WriteAgain \/ FlushDone \/ kore_websocket_broadcast \/ SendOutside
           \/ kore_connection_remove \/ UNCHANGED vars
  <2>1. CASE WriteAgain \/ FlushDone
    BY <2>1, Zenon DEF Typed, WriteAgain, FlushDone, Flushing, peer
  <2>2. CASE kore_websocket_broadcast \/ SendOutside
    BY <2>2, Zenon DEF Typed, kore_websocket_broadcast, SendOutside, peer
  <2>3. CASE kore_connection_remove \/ UNCHANGED vars
    BY <2>3, ZenonT(60) DEF Typed, kore_connection_remove, vars, peer
  <2> QED
    BY <1>6, <2>1, <2>2, <2>3, Zenon
<1> QED
  BY <1>1, <1>2, <1>3, <1>4, <1>5, <1>6, Zenon DEF Next

\* Whatever is queued and whatever is written, the wire and the queue stay one run.
LEMMA QueueStep ==
  ASSUME IInv, Framing, Typed, Queue, [Next]_vars
  PROVE  Queue'
<1>1. CASE /\ UNCHANGED <<send_queue, queued, out>>
           /\ state' = state \/ (state # "removed" /\ state' = "disconnecting")
  BY <1>1, Zenon DEF Queue
<1>2. CASE /\ UNCHANGED <<out, state>> /\ state # "removed"
           /\ \E n \in Nat : kore_websocket_send(n)
  <2>1. PICK n \in Nat : kore_websocket_send(n)
    BY <1>2, Zenon
  <2>2. queued' \in Nat /\ queued' <= MaxQueued /\ Chain(send_queue', Len(out), queued')
    BY <1>2, <2>1, Sends, Zenon
  <2> QED
    BY <1>2, <2>2, Zenon DEF Queue
<1>3. CASE net_recv_flush
  <2>1. PICK c \in 1 .. Len(sent) + 1 : FramedAt(c)
    BY Zenon DEF Framing
  <2>2. c \in 1 .. Len(sent) /\ (ReadsOn(c) \/ Completes(c))
    BY <1>3, <2>1, Outcomes, Zenon
  <2>3. out' = out /\ state # "removed"
    BY <1>3, Zenon DEF net_recv_flush, Typed
  <2>4. sent[c].len \in Nat
    BY <2>2, SizesAssumption DEF IInv
  <2>5. \/ /\ UNCHANGED <<send_queue, queued>> /\ state' \in {state, "disconnecting"}
        \/ UNCHANGED state /\ \E n \in Nat : kore_websocket_send(n)
    <3>1. CASE ReadsOn(c)
      BY <3>1, Zenon DEF ReadsOn, HandleFails, kore_connection_disconnect
    <3>2. CASE Completes(c)
      <4>1. \/ HandleFails /\ UNCHANGED <<send_queue, queued>>
            \/ on_websocket_message(c)
            \/ kore_connection_disconnect(TRUE) /\ UNCHANGED <<send_queue, queued>>
            \/ kore_websocket_send(sent[c].len) /\ UNCHANGED state
        BY <3>2, Zenon DEF Completes, Dispatch
      <4>2. CASE on_websocket_message(c)
        <5>1. \A n \in Replies : n \in Nat
          BY SizesAssumption, Zenon
        <5> QED
          BY <4>2, <5>1, Zenon DEF on_websocket_message, kore_connection_disconnect
      <4>3. CASE HandleFails /\ UNCHANGED <<send_queue, queued>>
        BY <4>3, Zenon DEF HandleFails, kore_connection_disconnect
      <4>4. CASE kore_connection_disconnect(TRUE) /\ UNCHANGED <<send_queue, queued>>
        BY <4>4, Zenon DEF kore_connection_disconnect
      <4>5. CASE kore_websocket_send(sent[c].len) /\ UNCHANGED state
        BY <2>4, <4>5, Zenon
      <4> QED
        BY <4>1, <4>2, <4>3, <4>4, <4>5, Zenon
    <3> QED
      BY <2>2, <3>1, <3>2, Zenon
  <2> QED
    BY <1>1, <1>2, <2>3, <2>5, Zenon
<1>4. CASE net_send
  <2>1. Len(out') \in Nat /\ out' = Bytes(0, Len(out')) /\ Chain(send_queue', Len(out'), queued)
    BY <1>4, Writes, Zenon
  <2>2. queued' = queued /\ state' = state /\ state # "removed"
    BY <1>4, Zenon DEF net_send, Flushing, Typed
  <2> QED
    BY <2>1, <2>2, Zenon DEF Queue
<1>5. CASE kore_websocket_broadcast \/ SendOutside
  <2>1. \A n \in Replies : n \in Nat
    BY SizesAssumption, Zenon
  <2>2. UNCHANGED <<out, state>> /\ state # "removed" /\ \E n \in Replies : kore_websocket_send(n)
    BY <1>5, Zenon DEF kore_websocket_broadcast, SendOutside
  <2> QED
    BY <1>2, <2>1, <2>2, Zenon
<1>6. CASE kore_connection_remove
  BY <1>6, Zenon DEF kore_connection_remove, Queue
<1>7. CASE ClientSends \/ Arrive \/ ClientShutsDown \/ ClientResets \/ Drain \/ UNCHANGED vars
  BY <1>1, <1>7, Zenon DEF ClientSends, Arrive, ClientShutsDown, ClientResets, Drain, vars
<1>8. CASE EventError \/ IdleTimeout \/ ReadFails \/ WriteFails \/ ReadEndOfStream
  BY <1>1, <1>8, Zenon DEF EventError, IdleTimeout, ReadFails, WriteFails, ReadEndOfStream,
     HandleFails, kore_connection_disconnect, Flushing, Typed
<1>9. CASE kore_connection_handle \/ ReadAgain \/ WriteAgain \/ FlushDone
  BY <1>1, <1>9, Zenon DEF kore_connection_handle, ReadAgain, WriteAgain, FlushDone
<1> QED
  BY <1>3, <1>4, <1>5, <1>6, <1>7, <1>8, <1>9, Zenon DEF Next

-----------------------------------------------------------------------------
(* The events and the disconnect. *)

\* net_recv_flush goes on behind a disconnect only when a frame caused it.
Late ==
  /\ pc = "recv" /\ state # "established" => closer
  /\ late # {} => closer

\* What the worker relies on when it waits for the next edge: a reset connection has one,
\* behind the reads everything that arrived was read, and behind the writes the socket is
\* full unless bytes were queued since.
Edges ==
  /\ hup /\ state = "established" => edge
  /\ state = "established" /\ pc \in {"idle", "send", "broadcast"} /\ ~edge
       => arrived = rnb.start + rnb.s_off
  /\ state = "established" /\ pc = "idle" /\ ~edge /\ send_queue # <<>> => ~W \/ quiet

\* A disconnect from outside the frames ends the handler, and one from a frame is noted.
LEMMA LateStep ==
  ASSUME IInv, Framing, Typed, Late, [Next]_vars
  PROVE  Late'
<1>1. CASE net_recv_flush
  <2>1. PICK c \in 1 .. Len(sent) + 1 : FramedAt(c)
    BY Zenon DEF Framing
  <2>2. ReadsOn(c) \/ Completes(c)
    BY <1>1, <2>1, Outcomes, Zenon
  <2>3. pc = "recv" /\ closer \in BOOLEAN
    BY <1>1, Zenon DEF net_recv_flush, Typed
  <2>4. CASE ReadsOn(c)
    BY <2>3, <2>4, SMTT(30) DEF Late, ReadsOn, HandleFails, kore_connection_disconnect, ghosts
  <2>5. CASE Completes(c)
    <3>1. \/ HandleFails /\ UNCHANGED ghosts
          \/ on_websocket_message(c) /\ UNCHANGED pc
          \/ kore_connection_disconnect(TRUE) /\ UNCHANGED <<pc, ghosts>>
          \/ UNCHANGED <<pc, state, closer, ghosts>>
      BY <2>5, Zenon DEF Completes, Dispatch
    <3>2. CASE on_websocket_message(c) /\ UNCHANGED pc
      BY <2>3, <3>2, Zenon DEF Late, on_websocket_message, kore_connection_disconnect
    <3>3. CASE HandleFails /\ UNCHANGED ghosts
      BY <2>3, <3>3, Zenon DEF Late, HandleFails, kore_connection_disconnect, ghosts
    <3>4. CASE kore_connection_disconnect(TRUE) /\ UNCHANGED <<pc, ghosts>>
      BY <2>3, <3>4, Zenon DEF Late, kore_connection_disconnect, ghosts
    <3> QED
      BY <3>1, <3>2, <3>3, <3>4, Zenon DEF Late, ghosts
  <2> QED
    BY <2>2, <2>4, <2>5, Zenon
<1>2. CASE ClientSends \/ Arrive \/ ClientShutsDown \/ ClientResets \/ Drain
  BY <1>2, Zenon DEF Late, ClientSends, Arrive, ClientShutsDown, ClientResets, Drain, ghosts
<1>3. CASE EventError \/ IdleTimeout \/ ReadFails \/ WriteFails \/ ReadEndOfStream
  BY <1>3, Zenon DEF Late, EventError, IdleTimeout, ReadFails, WriteFails, ReadEndOfStream, HandleFails,
     kore_connection_disconnect, Flushing, ghosts
<1>4. CASE kore_connection_handle \/ ReadAgain \/ WriteAgain \/ FlushDone \/ net_send
  BY <1>4, Zenon DEF Late, kore_connection_handle, ReadAgain, WriteAgain, FlushDone, net_send, ghosts
<1>5. CASE kore_websocket_broadcast \/ SendOutside \/ kore_connection_remove \/ UNCHANGED vars
  BY <1>5, Zenon DEF Late, kore_websocket_broadcast, SendOutside, kore_connection_remove, vars,
     ghosts
<1> QED
  BY <1>1, <1>2, <1>3, <1>4, <1>5, Zenon DEF Next

\* No step leaves the connection to an event that does not come.
LEMMA EdgesStep ==
  ASSUME IInv, Framing, Typed, Edges, [Next]_vars
  PROVE  Edges'
<1>1. CASE net_recv_flush
  <2>1. PICK c \in 1 .. Len(sent) + 1 : FramedAt(c)
    BY Zenon DEF Framing
  <2>2. ReadsOn(c) \/ Completes(c)
    BY <1>1, <2>1, Outcomes, Zenon
  <2>3. pc = "recv" /\ UNCHANGED <<hup, edge, W, quiet, arrived>>
    BY <1>1, Zenon DEF net_recv_flush, peer
  <2>4. (pc' = pc /\ state' = state) \/ state' = "disconnecting"
    BY <2>2, Zenon DEF ReadsOn, Completes, Dispatch, on_websocket_message, HandleFails, kore_connection_disconnect
  <2> QED
    BY <2>3, <2>4, Zenon DEF Edges
<1>2. CASE ClientSends \/ Arrive \/ ClientShutsDown
  <2>1. CASE ClientSends
    BY <2>1, Zenon DEF Edges, ClientSends
  <2>2. CASE Arrive
    BY <2>2, Zenon DEF Edges, Arrive
  <2>3. CASE ClientShutsDown
    BY <2>3, Zenon DEF Edges, ClientShutsDown
  <2> QED
    BY <1>2, <2>1, <2>2, <2>3, Zenon
<1>3. CASE ClientResets \/ Drain
  BY <1>3 DEF Edges, Typed, ClientResets, Drain, peer
<1>4. CASE EventError \/ IdleTimeout \/ ReadFails
  BY <1>4, Zenon DEF Edges, EventError, IdleTimeout, ReadFails, HandleFails,
     kore_connection_disconnect
<1>5. CASE WriteFails
  BY <1>5, Zenon DEF Edges, Typed, WriteFails, HandleFails, kore_connection_disconnect, Flushing,
     peer
<1>6. CASE ReadEndOfStream \/ ReadAgain
  BY <1>6 DEF Edges, ReadEndOfStream, ReadAgain, HandleFails, kore_connection_disconnect, peer
<1>7. CASE kore_connection_handle
  <2>1. UNCHANGED <<hup, state, arrived, rnb>> /\ ~hup /\ pc' \in {"recv", "send"}
    BY <1>7, Zenon DEF kore_connection_handle, peer
  <2>2. pc' = "send" => ~(arrived > rnb.start + rnb.s_off)
    BY <1>7, Zenon DEF kore_connection_handle
  <2>3. pc' = "send" => arrived = rnb.start + rnb.s_off
    BY <2>2 DEF Framing, IInv, RnbOK
  <2> QED
    BY <2>1, <2>3, Zenon DEF Edges
<1>8. CASE net_send \/ WriteAgain \/ FlushDone
  <2>1. CASE net_send
    <3>1. pc \in {"send", "broadcast"} /\ UNCHANGED <<hup, edge, state, pc, arrived, rnb>>
      BY <2>1, Zenon DEF net_send, Flushing, peer
    <3> QED
      BY <3>1, Zenon DEF Edges
  <2>2. CASE WriteAgain
    BY <2>2, Zenon DEF Edges, WriteAgain, Flushing, peer
  <2>3. CASE FlushDone
    BY <2>3, Zenon DEF Edges, FlushDone, peer
  <2> QED
    BY <1>8, <2>1, <2>2, <2>3, Zenon
<1>9. CASE kore_websocket_broadcast \/ SendOutside \/ kore_connection_remove \/ UNCHANGED vars
  BY <1>9 DEF Edges, kore_websocket_broadcast, SendOutside, kore_connection_remove, vars, peer
<1> QED
  BY <1>1, <1>2, <1>3, <1>4, <1>5, <1>6, <1>7, <1>8, <1>9, Zenon DEF Next

-----------------------------------------------------------------------------
\* The inductive invariant of the connection.
Inv == IInv /\ Framing /\ Typed /\ Queue /\ Late /\ Edges

\* A connection after its handshake satisfies it.
LEMMA InitInv ==
  Init => Inv
<1> SUFFICES ASSUME Init PROVE Inv
  BY Zenon
<1>1. IInv /\ Typed /\ Late /\ Edges
  <2>1. IInv
    BY DEF Init, IInv, RnbOK, WEBSOCKET_FRAME_HDR
  <2>4. obuf \in 0 .. SockBuf
    BY SizesAssumption DEF Init
  <2>2. Typed /\ Late
    BY <2>4, Zenon DEF Init, Typed, Late
  <2>3. Edges
    BY DEF Init, Edges
  <2> QED
    BY <2>1, <2>2, <2>3, Zenon
<1>2. sent \in Seq(Frames) /\ Len(sent) = 0 /\ msgs \in Seq(Nat) /\ DOMAIN msgs = {}
  BY DEF Init
<1>3. Offset(1) = 0
  <2>1. Ends(sent)[0] = 0
    BY <1>2, EndsDef, Zenon
  <2> QED
    BY <2>1 DEF Offset
<1>4. FramedAt(1)
  <2>1. Range(msgs) = {i \in 1 .. 1 - 1 : sent[i].op = "text"}
    BY <1>2 DEF Range
  <2> QED
    BY <1>2, <1>3, <2>1 DEF Init, FramedAt, Given
<1>5. Framing
  BY <1>2, <1>3, <1>4 DEF Init, Framing
<1>6. Queue
  <2>1. Len(out) = 0 /\ out = Bytes(0, 0)
    BY DEF Init, Bytes
  <2>2. Chain(send_queue, 0, 0)
    BY DEF Init, Chain
  <2> QED
    BY <2>1, <2>2, SizesAssumption DEF Init, Queue
<1> QED
  BY <1>1, <1>5, <1>6, Zenon DEF Inv

\* Every step keeps it.
LEMMA NextInv ==
  Inv /\ [Next]_vars => Inv'
  BY Step, FramingStep, TypedStep, QueueStep, LateStep, EdgesStep, Zenon DEF Inv

\* The invariant holds in every state of every behaviour.
LEMMA Always ==
  Spec => []Inv
  BY InitInv, NextInv, PTL DEF Spec

\* However the network cuts the stream and whatever frames the client sends, the receive
\* buffer begins at the beginning of a frame and the message callback got exactly the data
\* frames before it, each once and in order; and every buffer holds what it has room for
\* (net_recv_flush, websocket_recv_opcode, websocket_recv_frame, net_send_queue).
THEOREM FramingKept ==
  Spec => []FramesIntact
<1>1. ASSUME Inv PROVE FramesIntact
  <2>1. RecvFits
    BY <1>1, Zenon DEF Inv, IInv, RnbOK, RecvFits
  <2>2. \E c \in 1 .. Len(sent) + 1 :
          /\ Offset(c) = rnb.start
          /\ Range(msgs) = {i \in 1 .. c - 1 : sent[i].op = "text"}
          /\ \A i, j \in DOMAIN msgs : i < j => msgs[i] < msgs[j]
    BY <1>1, Zenon DEF Inv, Framing, FramedAt, Given
  <2>3. TypeOK
    <3>1. \A i \in DOMAIN send_queue :
            send_queue[i].s_off \in 0 .. Len(send_queue[i].buf) - 1
            /\ Len(send_queue[i].buf) \in 1 .. send_queue[i].m_len
      <4>1. CASE state = "removed"
        BY <1>1, <4>1 DEF Inv, Queue
      <4>2. CASE state # "removed"
        <5>1. Chain(send_queue, Len(out), queued) /\ Len(out) \in Nat
          BY <1>1, <4>2, Zenon DEF Inv, Queue
        <5>2. ASSUME NEW i \in DOMAIN send_queue
              PROVE  /\ send_queue[i].s_off \in 0 .. Len(send_queue[i].buf) - 1
                     /\ Len(send_queue[i].buf) \in 1 .. send_queue[i].m_len
          <6>1. i \in 1 .. Len(send_queue)
            BY <5>1 DEF Chain
          <6>2. /\ send_queue[i].buf \in Seq(Nat) /\ send_queue[i].s_off \in Nat /\ send_queue[i].m_len \in Nat
                /\ send_queue[i].s_off < Len(send_queue[i].buf)
                /\ Len(send_queue[i].buf) <= send_queue[i].m_len
            BY <5>1, <6>1, ChainMember, Zenon
          <6>3. Len(send_queue[i].buf) \in Nat
            BY <6>2
          <6> QED
            BY <6>2, <6>3
        <5> QED
          BY <5>2, Zenon
      <4> QED
        BY <4>1, <4>2, Zenon
    <3>2. Offset(Len(sent) + 1) \in Nat
      <4>1. sent \in Seq(Frames) /\ (Len(sent) + 1) - 1 \in 0 .. Len(sent)
        BY <1>1 DEF Inv, IInv
      <4> QED
        BY <4>1, EndsDef, Zenon DEF Offset
    <3>3. sent \in Seq(Frames) /\ arrived \in 0 .. Offset(Len(sent) + 1)
      BY <1>1, <3>2 DEF Inv, IInv, Framing
    <3>4. queued \in 0 .. MaxQueued
      BY <1>1, SizesAssumption DEF Inv, Queue
    <3>5. {eof, hup, edge, R, W, closer, quiet} \subseteq BOOLEAN
      BY <1>1, Zenon DEF Inv, Typed
    <3> QED
      BY <1>1, <3>1, <3>3, <3>4, <3>5, Zenon DEF Inv, Typed, TypeOK
  <2> QED
    BY <2>1, <2>2, <2>3, Zenon DEF FramesIntact
<1> QED
  BY <1>1, Always, PTL

\* Whatever the socket takes at a time and whenever more is queued, the bytes written and
\* the bytes still queued are those handed to net_send_queue, in order, none lost, none
\* twice (net_send_queue, net_send).
THEOREM BytesInOrder ==
  Spec => []WireInOrder
<1>1. ASSUME Inv, state # "removed"
      PROVE  out \o Unsent(send_queue)[Len(send_queue)] = [i \in 1 .. queued |-> i]
  <2>1. /\ queued \in Nat /\ Len(out) \in Nat /\ out = Bytes(0, Len(out))
        /\ Chain(send_queue, Len(out), queued)
    BY <1>1, Zenon DEF Inv, Queue
  <2>2. PICK a \in Nat : a = Len(out)
    BY <2>1, Zenon
  <2>3. queued - a \in Nat /\ Unsent(send_queue)[Len(send_queue)] = Bytes(a, queued - a)
    BY <2>1, <2>2, UnsentRun, Zenon
  <2>4. 0 \in Nat /\ 0 + a = a /\ a + (queued - a) = queued
    BY <2>1
  <2>5. Bytes(0, a) \o Bytes(0 + a, queued - a) = Bytes(0, a + (queued - a))
    BY <2>3, <2>4, BytesConcat, Zenon
  <2>6. out \o Unsent(send_queue)[Len(send_queue)] = Bytes(0, queued)
    BY <2>1, <2>2, <2>3, <2>4, <2>5, Zenon
  <2>7. Bytes(0, queued) = [i \in 1 .. queued |-> i]
    BY <2>1 DEF Bytes
  <2> QED
    BY <2>6, <2>7, Zenon
<1>2. Inv => WireInOrder
  BY <1>1, Zenon DEF WireInOrder
<1> QED
  BY <1>2, Always, PTL

\* Edge-triggered events suffice: an idle connection without an event has nothing to read,
\* and bytes to write only when the socket is full or they were queued outside the handler
\* (kore_connection_handle, net_recv_flush, net_send_flush).
THEOREM EdgesSuffice ==
  Spec => []NothingStranded
<1>1. Inv => NothingStranded
  BY Zenon DEF Inv, Edges, NothingStranded
<1> QED
  BY <1>1, Always, PTL

\* The message callback runs after the disconnect callback only behind a frame that
\* disconnected the connection (net_recv_flush does not look at c->state).
THEOREM LateCallbacks ==
  Spec => []LateOnlyBehindClose
<1>1. Inv => LateOnlyBehindClose
  BY Zenon DEF Inv, Late, LateOnlyBehindClose
<1> QED
  BY <1>1, Always, PTL

=============================================================================
