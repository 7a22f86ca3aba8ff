----------------------------- MODULE Websocket -----------------------------
(***************************************************************************)
(* One upgraded connection of a worker: the receive buffer (rnb) and the   *)
(* send queue of src/base/kore/net.c, the frame parser of websocket.c, the *)
(* event handler of connection.c, under the edge-triggered epoll of        *)
(* linux.c.                                                                *)
(*                                                                         *)
(* A step is the code between two system calls on the connection; the      *)
(* client and the network move between the steps.  The client's bytes are  *)
(* positions of the stream of the frames it sent; the server's bytes are   *)
(* numbered in the order in which they are queued.  CONN_CLOSE_EMPTY is    *)
(* never set on an upgraded connection (http.c:1412).                      *)
(***************************************************************************)
EXTENDS Integers, Sequences, Functions

CONSTANTS
  Frames,             \* the frames a client may send: [op, fin, mask, enc, len]
  MaxFrames,          \* bound: frames the client sends
  Cuts,               \* bound: where in a frame the network may cut the stream
  Replies,            \* payload lengths the application sends
  MaxQueued,          \* bound: bytes the server queues
  PAYLOAD_SINGLE,     \* 125 in websocket.c:30
  USHRT_MAX,          \* 65535
  MaxFrame,           \* kore_websocket_maxframe
  PAYLOAD_MAX,        \* NETBUF_SEND_PAYLOAD_MAX, 8192 in kore.h:86
  SockBuf             \* bytes the socket's send buffer holds

ASSUME SizesAssumption ==
  /\ PAYLOAD_SINGLE \in Nat /\ USHRT_MAX \in Nat /\ MaxFrame \in Nat
  /\ PAYLOAD_MAX \in Nat \ {0} /\ SockBuf \in Nat \ {0}
  /\ Frames \subseteq [op : {"cont", "text", "close", "ping", "unknown"},
                       fin : BOOLEAN, mask : BOOLEAN, enc : 0 .. 2, len : Nat]
  /\ \A f \in Frames : f.enc = 0 => f.len <= PAYLOAD_SINGLE
  /\ Replies \subseteq Nat /\ Cuts \subseteq Nat /\ MaxFrames \in Nat /\ MaxQueued \in Nat

VARIABLES
  sent,         \* the frames the client sent, in order
  arrived,      \* how many of their bytes reached the socket
  eof,          \* the client shut its side down
  hup,          \* the connection was reset
  obuf,         \* bytes in the socket's send buffer
  edge,         \* an event of the connection waits in epoll
  state,        \* c->state, or "removed"
  R, W,         \* CONN_READ_POSSIBLE, CONN_WRITE_POSSIBLE
  pc,           \* where the worker is in the code of this connection
  rnb,          \* c->rnb: [start, s_off, b_len, m_len, cb]
  send_queue,   \* c->send_queue: a sequence of [buf, s_off, m_len]
  queued,       \* bytes handed to net_send_queue so far
  out,          \* the bytes written to the socket, in order
  msgs,         \* the frames given to the message callback, in order
  late,         \* those given to it after the disconnect callback
  closer,       \* the disconnect came from the processing of a frame
  quiet         \* bytes were queued outside the handler and not flushed since

peer == <<sent, arrived, eof>>
ghosts == <<msgs, late>>
vars == <<sent, arrived, eof, hup, obuf, edge, state, R, W, pc, rnb, send_queue,
          queued, out, msgs, late, closer, quiet>>

WEBSOCKET_FRAME_HDR == 2
WEBSOCKET_MASK_LEN == 4
EXTEND_1 == PAYLOAD_SINGLE + 1
EXTEND_2 == PAYLOAD_SINGLE + 2

\* The length field of a frame's second byte, and how many length bytes follow.
LengthByte(f) == CASE f.enc = 0 -> f.len [] f.enc = 1 -> EXTEND_1 [] f.enc = 2 -> EXTEND_2
LengthBytes(f) == CASE f.enc = 0 -> 0 [] f.enc = 1 -> 2 [] f.enc = 2 -> 8

\* websocket_recv_frame's total: the length of the whole frame.
Total(f) == f.len + LengthBytes(f) + WEBSOCKET_FRAME_HDR + WEBSOCKET_MASK_LEN

\* A frame without a mask is shorter by the mask.
WireLen(f) == IF f.mask THEN Total(f) ELSE Total(f) - WEBSOCKET_MASK_LEN

\* Where each of the frames s ends in the stream, and where the i-th one sent begins.
Ends(s) == LET end[k \in 0 .. Len(s)] == IF k = 0 THEN 0 ELSE end[k - 1] + WireLen(s[k])
           IN  end
Offset(i) == Ends(sent)[i - 1]

\* What the bytes at a position read as: a frame's header at its beginning,
\* anything elsewhere.
HeaderAt(p) ==
  LET at == {i \in 1 .. Len(sent) : Offset(i) = p}
  IN  IF at = {} THEN {<<0, f>> : f \in Frames} ELSE {<<i, sent[i]>> : i \in at}

-----------------------------------------------------------------------------
(* The send queue (net.c). *)

NewNetbuf(d) ==
  [buf |-> d, s_off |-> 0,
   m_len |-> IF Len(d) < PAYLOAD_MAX THEN PAYLOAD_MAX ELSE Len(d)]

\* Mutant: the part that filled the last buffer is queued again.
SendQueueTwice(q, d) ==
  LET n == Len(q)
      avail == IF q = <<>> THEN 0 ELSE q[n].m_len - Len(q[n].buf)
  IN  CASE avail = 0 -> Append(q, NewNetbuf(d))
        [] avail > Len(d) -> [q EXCEPT ![n].buf = @ \o d]
        [] OTHER -> Append([q EXCEPT ![n].buf = @ \o SubSeq(d, 1, avail)], NewNetbuf(d))

\* Append data to the last buffer as far as it has room, the rest to a new one.
net_send_queue(q, d) ==
  LET n == Len(q)
      avail == IF q = <<>> THEN 0 ELSE q[n].m_len - Len(q[n].buf)
      rest == SubSeq(d, avail + 1, Len(d))
  IN  CASE avail = 0 -> Append(q, NewNetbuf(d))
        [] avail > Len(d) -> [q EXCEPT ![n].buf = @ \o d]
        [] OTHER -> LET filled == [q EXCEPT ![n].buf = @ \o SubSeq(d, 1, avail)]
                    IN  IF rest = <<>> THEN filled ELSE Append(filled, NewNetbuf(rest))

\* websocket_frame_build: the bytes a payload of len bytes takes.
websocket_frame_build(len) ==
  len + WEBSOCKET_FRAME_HDR +
    (CASE len <= PAYLOAD_SINGLE -> 0
       [] len > PAYLOAD_SINGLE /\ len < USHRT_MAX -> 2
       [] OTHER -> 8)

\* kore_websocket_send: build the frame and queue it, without a flush.
kore_websocket_send(len) ==
  LET n == websocket_frame_build(len)
  IN  /\ queued + n <= MaxQueued
      /\ send_queue' = net_send_queue(send_queue, [i \in 1 .. n |-> queued + i])
      /\ queued' = queued + n

-----------------------------------------------------------------------------
(* The receive buffer (net.c). *)

net_recv_expand(nb, n, f) ==
  [start |-> nb.start, s_off |-> nb.s_off, b_len |-> nb.b_len + n,
   m_len |-> nb.b_len + n, cb |-> f]

\* The bytes read so far are dropped: the buffer begins behind them.
net_recv_reset(nb) ==
  [start |-> nb.start + nb.s_off, s_off |-> 0, b_len |-> WEBSOCKET_FRAME_HDR,
   m_len |-> IF WEBSOCKET_FRAME_HDR <= nb.m_len /\ 2 * nb.m_len < PAYLOAD_MAX
             THEN nb.m_len ELSE WEBSOCKET_FRAME_HDR,
   cb |-> "websocket_recv_opcode"]

-----------------------------------------------------------------------------
(* A connection after its handshake: nothing read, the socket writable. *)
Init ==
  /\ sent = <<>> /\ arrived = 0 /\ eof = FALSE /\ hup = FALSE
  /\ obuf = 0 /\ edge = FALSE
  /\ state = "established" /\ R = FALSE /\ W = TRUE /\ pc = "idle"
  /\ rnb = [start |-> 0, s_off |-> 0, b_len |-> WEBSOCKET_FRAME_HDR,
            m_len |-> WEBSOCKET_FRAME_HDR, cb |-> "websocket_recv_opcode"]
  /\ send_queue = <<>> /\ queued = 0 /\ out = <<>>
  /\ msgs = <<>> /\ late = {} /\ closer = FALSE /\ quiet = FALSE

-----------------------------------------------------------------------------
(* The client and the network. *)

\* The next frame is chosen when the bytes of the last have arrived: a segment
\* with bytes of both is two segments with no step of the server between them.
ClientSends ==
  /\ Len(sent) < MaxFrames /\ ~eof /\ ~hup /\ state # "removed"
  /\ arrived = Offset(Len(sent) + 1)
  /\ \E f \in Frames : sent' = Append(sent, f)
  /\ UNCHANGED <<arrived, eof, hup, obuf, edge, state, R, W, pc, rnb, send_queue,
                 queued, out, ghosts, closer, quiet>>

\* A segment of the stream reaches the socket.
Arrive ==
  /\ ~hup /\ state # "removed" /\ sent # <<>>
  /\ arrived' \in {Offset(Len(sent)) + n : n \in Cuts} \cup {Offset(Len(sent) + 1)}
  /\ arrived' \in arrived + 1 .. Offset(Len(sent) + 1)
  /\ edge' = TRUE
  /\ UNCHANGED <<sent, eof, hup, obuf, state, R, W, pc, rnb, send_queue, queued, out,
                 ghosts, closer, quiet>>

\* The client shuts down its side once everything it sent has arrived.
ClientShutsDown ==
  /\ ~eof /\ ~hup /\ state # "removed" /\ arrived = Offset(Len(sent) + 1)
  /\ eof' = TRUE /\ edge' = TRUE
  /\ UNCHANGED <<sent, arrived, hup, obuf, state, R, W, pc, rnb, send_queue, queued,
                 out, ghosts, closer, quiet>>

ClientResets ==
  /\ ~hup /\ state # "removed"
  /\ hup' = TRUE /\ edge' = TRUE
  /\ UNCHANGED <<peer, obuf, state, R, W, pc, rnb, send_queue, queued, out, ghosts,
                 closer, quiet>>

\* The client reads; a writer that found the buffer full gets an event.
Drain ==
  /\ obuf > 0 /\ ~hup /\ state # "removed"
  /\ obuf' = 0 /\ edge' = (edge \/ ~W)
  /\ UNCHANGED <<peer, hup, state, R, W, pc, rnb, send_queue, queued, out, ghosts,
                 closer, quiet>>

-----------------------------------------------------------------------------
(* The event handler. *)

\* kore_connection_disconnect; websocket_disconnect runs on_websocket_disconnect,
\* which deletes the WebSocketImpl that c->data[0] still names.
kore_connection_disconnect(frame) ==
  /\ state' = "disconnecting"
  /\ closer' = (closer \/ (frame /\ state = "established"))

\* Mutant: net_recv_flush goes on after a callback that failed.
FailContinues ==
  kore_connection_disconnect(FALSE) /\ pc' = pc

\* The callback of the receive buffer, or a system call, failed: the handler
\* returns KORE_RESULT_ERROR and the event loop disconnects the connection.
HandleFails ==
  kore_connection_disconnect(FALSE) /\ pc' = "idle"

EventError ==
  /\ edge /\ hup /\ state = "established" /\ pc = "idle"
  /\ edge' = FALSE
  /\ HandleFails
  /\ UNCHANGED <<peer, hup, obuf, R, W, rnb, send_queue, queued, out, ghosts, quiet>>

\* The event loop notes what is possible and calls kore_connection_handle.
kore_connection_handle ==
  /\ edge /\ ~hup /\ state = "established" /\ pc = "idle"
  /\ edge' = FALSE
  /\ R' = (R \/ arrived > rnb.start + rnb.s_off \/ eof)
  /\ W' = (W \/ obuf < SockBuf)
  /\ pc' = IF R' THEN "recv" ELSE "send"
  /\ UNCHANGED <<peer, hup, obuf, state, rnb, send_queue, queued, out, ghosts, closer,
                 quiet>>

\* websocket_recv_opcode's checks of the two header bytes.
HeaderBad(f) ==
  \/ ~f.mask
  \/ f.op = "unknown"
  \/ f.op \in {"close", "ping"} /\ (LengthByte(f) > PAYLOAD_SINGLE \/ ~f.fin)

\* How much websocket_recv_opcode expands the buffer by: for a frame with an
\* extended length the length byte is 126 or 127, counted as if it were payload.
OpcodeExpand(f) == LengthByte(f) + LengthBytes(f) + WEBSOCKET_MASK_LEN

websocket_recv_opcode(nb, f) ==
  \/ /\ HeaderBad(f)
     /\ HandleFails /\ rnb' = nb
     /\ UNCHANGED <<send_queue, queued, ghosts>>
  \/ /\ ~HeaderBad(f)
     /\ rnb' = net_recv_expand(nb, OpcodeExpand(f), "websocket_recv_frame")
     /\ UNCHANGED <<state, closer, pc, send_queue, queued, ghosts>>

\* on_websocket_message: the application's handler may send, or broadcast to
\* the other connections of all workers, which ends in a disconnect.
on_websocket_message(i) ==
  /\ msgs' = Append(msgs, i)
  /\ late' = IF state = "established" THEN late ELSE late \cup {i}
  /\ \/ UNCHANGED <<send_queue, queued, state, closer>>
     \/ (\E n \in Replies : kore_websocket_send(n)) /\ UNCHANGED <<state, closer>>
     \/ kore_connection_disconnect(TRUE) /\ UNCHANGED <<send_queue, queued>>

\* The frame is complete: dispatch on its opcode.
Dispatch(nb, i, f) ==
  /\ rnb' = net_recv_reset(nb)
  /\ \/ /\ f.op = "cont"
        /\ HandleFails /\ UNCHANGED <<send_queue, queued, ghosts>>
     \/ /\ f.op = "text"
        /\ on_websocket_message(i) /\ UNCHANGED pc
     \/ /\ f.op = "close"
        /\ kore_connection_disconnect(TRUE)
        /\ UNCHANGED <<pc, send_queue, queued, ghosts>>
     \/ /\ f.op = "ping"
        /\ kore_websocket_send(f.len) /\ UNCHANGED <<pc, state, closer, ghosts>>

\* Mutant: a buffer that holds more than the frame is accepted.
RecvFrameLax(nb, i, f) ==
  \/ /\ f.len <= MaxFrame /\ Total(f) > nb.b_len
     /\ rnb' = net_recv_expand(nb, Total(f) - nb.b_len, "websocket_recv_frame")
     /\ UNCHANGED <<state, closer, pc, send_queue, queued, ghosts>>
  \/ f.len <= MaxFrame /\ Total(f) <= nb.b_len /\ Dispatch(nb, i, f)

websocket_recv_frame(nb, i, f) ==
  \/ /\ f.len > MaxFrame
     /\ HandleFails /\ rnb' = nb
     /\ UNCHANGED <<send_queue, queued, ghosts>>
  \/ /\ f.len <= MaxFrame /\ Total(f) > nb.b_len
     /\ rnb' = net_recv_expand(nb, Total(f) - nb.b_len, "websocket_recv_frame")
     /\ UNCHANGED <<state, closer, pc, send_queue, queued, ghosts>>
  \/ /\ f.len <= MaxFrame /\ Total(f) < nb.b_len
     /\ HandleFails /\ rnb' = nb
     /\ UNCHANGED <<send_queue, queued, ghosts>>
  \/ f.len <= MaxFrame /\ Total(f) = nb.b_len /\ Dispatch(nb, i, f)

\* net_recv_flush: read once; call the callback when the buffer is full.
net_recv_flush ==
  /\ pc = "recv" /\ ~hup /\ arrived > rnb.start + rnb.s_off
  /\ LET wanted == rnb.b_len - rnb.s_off
         avail == arrived - rnb.start - rnb.s_off
         nb == [rnb EXCEPT !.s_off = @ + (IF avail < wanted THEN avail ELSE wanted)]
     IN  IF nb.s_off < nb.b_len
         THEN rnb' = nb /\ UNCHANGED <<state, closer, pc, send_queue, queued, ghosts>>
         ELSE \E h \in HeaderAt(nb.start) :
                IF nb.cb = "websocket_recv_opcode"
                THEN websocket_recv_opcode(nb, h[2])
                ELSE websocket_recv_frame(nb, h[1], h[2])
  /\ UNCHANGED <<peer, hup, obuf, edge, R, W, out, quiet>>

\* Mutant: a short read ends the loop as well.
ReadShort ==
  /\ pc = "recv" /\ ~hup /\ ~eof
  /\ R' = FALSE /\ pc' = "send"
  /\ UNCHANGED <<peer, hup, obuf, edge, state, W, rnb, send_queue, queued, out, ghosts,
                 closer, quiet>>

\* net_read found nothing (EAGAIN): the handler goes on to send.
ReadAgain ==
  /\ pc = "recv" /\ ~hup /\ ~eof /\ arrived = rnb.start + rnb.s_off
  /\ R' = FALSE /\ pc' = "send"
  /\ UNCHANGED <<peer, hup, obuf, edge, state, W, rnb, send_queue, queued, out, ghosts,
                 closer, quiet>>

\* read returned 0: net_read looks at errno, which the call did not set.  With
\* EAGAIN left there the connection stays; with EINTR the loop reads again;
\* with anything else the handler fails.
ReadEndOfStream ==
  /\ pc = "recv" /\ ~hup /\ eof /\ arrived = rnb.start + rnb.s_off
  /\ \/ R' = FALSE /\ pc' = "send" /\ UNCHANGED <<state, closer>>
     \/ HandleFails /\ UNCHANGED R
  /\ UNCHANGED <<peer, hup, obuf, edge, W, rnb, send_queue, queued, out, ghosts, quiet>>

ReadFails ==
  /\ pc = "recv" /\ hup
  /\ HandleFails
  /\ UNCHANGED <<peer, hup, obuf, edge, R, W, rnb, send_queue, queued, out, ghosts, quiet>>

-----------------------------------------------------------------------------
(* net_send_flush, called by the handler and by a broadcast. *)

Flushing == pc \in {"send", "broadcast"} /\ W /\ send_queue # <<>>

\* net_send and net_write: what the socket takes of the first buffer.
net_send ==
  LET nb == Head(send_queue)
      left == Len(nb.buf) - nb.s_off
      len == IF left < PAYLOAD_MAX THEN left ELSE PAYLOAD_MAX
      r == IF SockBuf - obuf < len THEN SockBuf - obuf ELSE len
  IN  /\ Flushing /\ ~hup /\ obuf < SockBuf
      /\ out' = out \o SubSeq(nb.buf, nb.s_off + 1, nb.s_off + r)
      /\ obuf' = obuf + r
      /\ send_queue' = IF nb.s_off + r = Len(nb.buf) THEN Tail(send_queue)
                       ELSE [send_queue EXCEPT ![1].s_off = @ + r]
      /\ UNCHANGED <<peer, hup, edge, state, R, W, pc, rnb, queued, ghosts, closer, quiet>>

WriteAgain ==
  /\ Flushing /\ ~hup /\ obuf = SockBuf
  /\ W' = FALSE
  /\ UNCHANGED <<peer, hup, obuf, edge, state, R, pc, rnb, send_queue, queued, out,
                 ghosts, closer, quiet>>

\* A write that fails ends the handler; a broadcast ignores it.
WriteFails ==
  /\ Flushing /\ hup
  /\ IF pc = "send" THEN HandleFails
     ELSE pc' = "idle" /\ UNCHANGED <<state, closer>>
  /\ UNCHANGED <<peer, hup, obuf, edge, R, W, rnb, send_queue, queued, out, ghosts, quiet>>

FlushDone ==
  /\ pc \in {"send", "broadcast"} /\ ~(W /\ send_queue # <<>>)
  /\ pc' = "idle" /\ quiet' = FALSE
  /\ UNCHANGED <<peer, hup, obuf, edge, state, R, W, rnb, send_queue, queued, out,
                 ghosts, closer>>

-----------------------------------------------------------------------------
(* The rest of the worker, between two events of this connection. *)

\* kore_websocket_broadcast from another connection of this worker, or
\* msg_type_websocket for one of another worker: queue and flush.
kore_websocket_broadcast ==
  /\ state = "established" /\ pc = "idle"
  /\ \E n \in Replies : kore_websocket_send(n)
  /\ pc' = "broadcast"
  /\ UNCHANGED <<peer, hup, obuf, edge, state, R, W, rnb, out, ghosts, closer, quiet>>

\* WebSocketImpl::send from outside the connection's events (a timer, say).
SendOutside ==
  /\ state = "established" /\ pc = "idle"
  /\ \E n \in Replies : kore_websocket_send(n)
  /\ quiet' = TRUE
  /\ UNCHANGED <<peer, hup, obuf, edge, state, R, W, pc, rnb, out, ghosts, closer>>

\* kore_connection_check_timeout finds the connection idle.
IdleTimeout ==
  /\ state = "established" /\ pc = "idle"
  /\ HandleFails
  /\ UNCHANGED <<peer, hup, obuf, edge, R, W, rnb, send_queue, queued, out, ghosts, quiet>>

\* kore_connection_prune: the connection and its buffers are freed.
kore_connection_remove ==
  /\ state = "disconnecting" /\ pc = "idle"
  /\ state' = "removed" /\ edge' = FALSE /\ send_queue' = <<>>
  /\ UNCHANGED <<peer, hup, obuf, R, W, pc, rnb, queued, out, ghosts, closer, quiet>>

Next ==
  \/ ClientSends \/ Arrive \/ ClientShutsDown \/ ClientResets \/ Drain
  \/ EventError \/ kore_connection_handle
  \/ net_recv_flush \/ ReadAgain \/ ReadEndOfStream \/ ReadFails
  \/ net_send \/ WriteAgain \/ WriteFails \/ FlushDone
  \/ kore_websocket_broadcast \/ SendOutside \/ IdleTimeout \/ kore_connection_remove

Spec == Init /\ [][Next]_vars

-----------------------------------------------------------------------------
(* Properties. *)

\* The types of the state; a send buffer never holds more than was allocated for
\* it (net_send_queue), and none that is sent completely stays in the queue.
TypeOK ==
  /\ sent \in Seq(Frames) /\ arrived \in 0 .. Offset(Len(sent) + 1)
  /\ {eof, hup, edge, R, W, closer, quiet} \subseteq BOOLEAN
  /\ obuf \in 0 .. SockBuf /\ queued \in 0 .. MaxQueued
  /\ state \in {"established", "disconnecting", "removed"}
  /\ pc \in {"idle", "recv", "send", "broadcast"}
  /\ \A i \in DOMAIN send_queue :
       LET nb == send_queue[i]
       IN  nb.s_off \in 0 .. Len(nb.buf) - 1 /\ Len(nb.buf) \in 1 .. nb.m_len

\* The receive buffer never holds, nor waits for, more bytes than were allocated
\* for it (net_recv_expand, net_recv_reset), and whenever net_recv_flush reads it
\* asks for at least one byte: read would return 0 for none, which net_read
\* takes for an error with whatever errno an earlier call left.
RecvFits ==
  /\ rnb.s_off <= rnb.b_len /\ rnb.b_len <= rnb.m_len
  /\ pc = "recv" => rnb.s_off < rnb.b_len

\* The buffers hold what they have room for, and however the network cuts the
\* stream, the receive buffer begins at the
\* beginning of a frame, and the message callback got exactly the data frames
\* before it, each once and in order (websocket_recv_opcode,
\* websocket_recv_frame and net_recv_flush never lose the framing).
FramesIntact ==
  /\ TypeOK /\ RecvFits
  /\ \E c \in 1 .. Len(sent) + 1 :
       /\ Offset(c) = rnb.start
       /\ Range(msgs) = {i \in 1 .. c - 1 : sent[i].op = "text"}
       /\ \A i, j \in DOMAIN msgs : i < j => msgs[i] < msgs[j]

\* The bytes of the first k buffers of the queue that are not written yet.
Unsent(q) == LET bytes[k \in 0 .. Len(q)] ==
                   IF k = 0 THEN <<>>
                   ELSE bytes[k - 1] \o SubSeq(q[k].buf, q[k].s_off + 1, Len(q[k].buf))
             IN  bytes

\* The bytes written and the bytes still queued are the bytes handed to
\* net_send_queue, in order, none lost and none twice, whatever the socket
\* takes of a buffer at a time and whenever more is queued.
WireInOrder ==
  state # "removed" =>
    out \o Unsent(send_queue)[Len(send_queue)] = [i \in 1 .. queued |-> i]

\* Edge-triggered events suffice: when the worker is done with the connection
\* and no event waits, every byte that arrived was read, and bytes are left in
\* the queue only because the socket was full, or because they were queued by
\* kore_websocket_send outside the connection's own events, which flushes nothing.
NothingStranded ==
  state = "established" /\ pc = "idle" /\ ~edge =>
    /\ arrived = rnb.start + rnb.s_off
    /\ send_queue # <<>> => ~W \/ quiet

\* The message callback runs after the disconnect callback, which deleted the
\* WebSocketImpl, only when a frame (a close, or a message whose handler
\* disconnects) disconnected the connection and more frames were already there:
\* net_recv_flush does not look at c->state between two frames.
LateOnlyBehindClose ==
  late # {} => closer

=============================================================================
