------------------------------ MODULE Messages ------------------------------
(***************************************************************************)
(* The messages between the processes of the server (base/kore/msg.c, with *)
(* the access log of accesslog.c and the global broadcast of websocket.c). *)
(* Every worker shares a socket pair with the parent; a message of one     *)
(* worker to others goes to the parent, which relays it.                   *)
(*                                                                         *)
(* A message is a header and a body, which the sender queues one after the *)
(* other and the receiver reads one after the other: these two parts are   *)
(* the units of a stream, and a write stops between any two of them.  A    *)
(* message is named by its place in sent, the history of what was sent.    *)
(***************************************************************************)
EXTENDS Lists

CONSTANTS N,           \* worker_count
          MaxMessages, \* bound: messages sent
          MaxEnds,     \* bound: processes that end
          Sends        \* what is sent: <<worker, type, destination>>

Ids == 0 .. N - 1
PARENT == 1000  \* KORE_MSG_PARENT
ALL == 1001     \* KORE_MSG_WORKER_ALL

\* The ids of workers are none of the two, and a line of the access log is for the parent
\* (kore_accesslog).
ASSUME MessagesAssumption ==
  /\ N \in 1 .. PARENT /\ MaxMessages \in Nat /\ MaxEnds \in Nat
  /\ \A s \in Sends : /\ s[1] \in Ids /\ s[3] \in Ids \cup {PARENT, ALL}
                      /\ s[2] = "accesslog" => s[3] = PARENT

VARIABLES
  sent,           \* history: the messages, in the order of kore_msg_send
  up, inc,        \* is a worker "up", "dead" (to be restarted) or "gone"; its incarnation
  parentUp,       \* does the parent run
  connections,    \* the parent's list of message connections, by worker
  wqueue, uppipe, pneed,  \* to the parent: send_queue, socket, the header the reader has
  pqueue, dnpipe, wneed,  \* to the worker: the same
  handled,        \* history: messages given to a callback of a worker
  logged,         \* history: lines given to the access log, and whether they were written
  holders,        \* the processes that hold the parent's end of a worker's socket pair
  ends

vars == <<sent, up, inc, parentUp, connections, wqueue, uppipe, pneed, pqueue, dnpipe, wneed, handled,
          logged, holders, ends>>
upward == <<wqueue, uppipe, pneed>>
downward == <<pqueue, dnpipe, wneed>>
processes == <<up, inc, parentUp, connections, holders, ends>>

NoHeader == 0

\* Mutant: a child closes the parent's ends it inherited.
InheritedNone == [w \in Ids |-> {PARENT}]

\* kore_worker_init: a child inherits every descriptor of the parent and closes
\* none, so it holds the parent's end of its own pair and of all earlier ones.
Inherited == [w \in Ids |-> {PARENT} \cup {v \in Ids : v >= w}]

Init == /\ sent = <<>>
        /\ up = [w \in Ids |-> "up"] /\ inc = [w \in Ids |-> 0] /\ parentUp = TRUE
        /\ connections = [i \in 1 .. N |-> i - 1]
        /\ wqueue = [w \in Ids |-> <<>>] /\ uppipe = [w \in Ids |-> <<>>]
        /\ pneed = [w \in Ids |-> NoHeader]
        /\ pqueue = [w \in Ids |-> <<>>] /\ dnpipe = [w \in Ids |-> <<>>]
        /\ wneed = [w \in Ids |-> NoHeader]
        /\ handled = [w \in Ids |-> <<>>] /\ logged = <<>>
        /\ holders = Inherited
        /\ ends = 0

-----------------------------------------------------------------------------
(* The stream of one direction of a socket pair                            *)

\* The two units of message m, addressed to dst.
Units(m, dst) == <<[m |-> m, part |-> "head", dst |-> dst], [m |-> m, part |-> "body", dst |-> dst]>>

\* net_send_flush: the first k units of the queue reach the socket.
Written(queue, k) == SubSeq(queue, 1, k)
Unwritten(queue, k) == SubSeq(queue, k + 1, Len(queue))

-----------------------------------------------------------------------------
(* A worker                                                                *)

\* kore_msg_send, for the access log (kore_accesslog), for a broadcast to the
\* websockets of all workers (kore_websocket_broadcast) and for an application.
Send(w, type, dst) == \E k \in 0 .. 4 :
  /\ up[w] = "up" /\ Len(sent) < MaxMessages
  /\ sent' = Append(sent, [src |-> w, dst |-> dst, type |-> type, inc |-> inc])
  /\ LET queue == wqueue[w] \o Units(Len(sent'), dst)
     IN /\ k <= Len(queue)
        /\ wqueue' = [wqueue EXCEPT ![w] = Unwritten(queue, k)]
        /\ uppipe' = [uppipe EXCEPT ![w] = @ \o Written(queue, k)]
  /\ UNCHANGED <<pneed, downward, handled, logged, processes>>

\* The socket of a worker is writable again: kore_connection_handle.
WorkerFlush(w) == \E k \in 1 .. Len(wqueue[w]) :
  /\ up[w] = "up"
  /\ wqueue' = [wqueue EXCEPT ![w] = Unwritten(@, k)]
  /\ uppipe' = [uppipe EXCEPT ![w] = @ \o Written(wqueue[w], k)]
  /\ UNCHANGED <<sent, pneed, downward, handled, logged, processes>>

\* msg_recv_packet and msg_recv_data in a worker.  The types of the workers are
\* registered there: the callback runs.
WorkerRecv(w) ==
  /\ up[w] = "up" /\ dnpipe[w] # <<>>
  /\ LET unit == Head(dnpipe[w])
     IN IF wneed[w] = NoHeader
        THEN wneed' = [wneed EXCEPT ![w] = unit.m] /\ UNCHANGED handled
        ELSE /\ wneed' = [wneed EXCEPT ![w] = NoHeader]
             /\ handled' = [handled EXCEPT ![w] = Append(@, unit.m)]
  /\ dnpipe' = [dnpipe EXCEPT ![w] = Tail(@)]
  /\ UNCHANGED <<sent, upward, pqueue, logged, processes>>

-----------------------------------------------------------------------------
(* The parent                                                              *)

\* Mutant: the test of the destination reads msg->dst, which the first copy has
\* already overwritten.
RelayedToFirst(w, dst) ==
  LET matching == SelectSeq(connections, LAMBDA v : v # w /\ (dst = ALL \/ v = dst))
  IN IF matching = <<>> THEN {} ELSE {matching[1]}

\* The connections msg_recv_data copies a message to: those of the other workers
\* it is for.
RelayedTo(w, dst) == {v \in Range(connections) : v # w /\ (dst = ALL \/ v = dst)}

\* kore_accesslog_write: the line is written, or the write fails and it is gone.
kore_accesslog_write(m) == \E written \in BOOLEAN : logged' = Append(logged, [m |-> m, written |-> written])

\* msg_recv_packet and msg_recv_data in the parent, which knows the type of the
\* access log and relays the others.  Each copy names its receiver, and is
\* written to the socket as far as it goes.
ParentRecv(w) ==
  /\ parentUp /\ w \in Range(connections) /\ uppipe[w] # <<>>
  /\ uppipe' = [uppipe EXCEPT ![w] = Tail(@)]
  /\ LET unit == Head(uppipe[w])
         m == unit.m
     IN \/ /\ pneed[w] = NoHeader
           /\ pneed' = [pneed EXCEPT ![w] = m]
           /\ UNCHANGED <<logged, pqueue, dnpipe>>
        \/ /\ pneed[w] # NoHeader
           /\ pneed' = [pneed EXCEPT ![w] = NoHeader]
           /\ sent[m].type = "accesslog"
           /\ kore_accesslog_write(m)
           /\ UNCHANGED <<pqueue, dnpipe>>
        \/ /\ pneed[w] # NoHeader
           /\ pneed' = [pneed EXCEPT ![w] = NoHeader]
           /\ sent[m].type # "accesslog"
           /\ LET copies == RelayedTo(w, unit.dst)
                  queue == [v \in Ids |-> pqueue[v] \o IF v \in copies THEN Units(m, v) ELSE <<>>]
              IN \E stuck \in SUBSET copies :
                   LET k == [v \in Ids |-> IF v \in copies \ stuck THEN Len(queue[v]) ELSE 0]
                   IN /\ pqueue' = [v \in Ids |-> Unwritten(queue[v], k[v])]
                      /\ dnpipe' = [v \in Ids |-> dnpipe[v] \o Written(queue[v], k[v])]
           /\ UNCHANGED logged
  /\ UNCHANGED <<sent, wqueue, wneed, handled, processes>>

\* The socket to a worker is writable again.
ParentFlush(w) == \E k \in 1 .. Len(pqueue[w]) :
  /\ parentUp /\ w \in Range(connections)
  /\ pqueue' = [pqueue EXCEPT ![w] = Unwritten(@, k)]
  /\ dnpipe' = [dnpipe EXCEPT ![w] = @ \o Written(pqueue[w], k)]
  /\ UNCHANGED <<sent, upward, wneed, handled, logged, processes>>

\* The descriptors of a restarted worker: those of the parent.
Inherit(w) == [v \in Ids |-> IF v = w THEN {PARENT, w} ELSE holders[v] \cup {w}]

\* kore_msg_parent_remove: the connection of worker w is off the list.
Removed(w) == Unlink(connections, w)

\* Mutant: the sockets of the dead worker are handed to the new one.
RestartOnOldPair(w) ==
  /\ parentUp /\ up[w] = "dead"
  /\ connections' = Append(Removed(w), w)
  /\ pqueue' = [pqueue EXCEPT ![w] = <<>>]
  /\ wneed' = [wneed EXCEPT ![w] = NoHeader]
  /\ pneed' = [pneed EXCEPT ![w] = NoHeader]
  /\ up' = [up EXCEPT ![w] = "up"] /\ inc' = [inc EXCEPT ![w] = @ + 1]
  /\ handled' = [handled EXCEPT ![w] = <<>>]
  /\ holders' = Inherit(w)
  /\ UNCHANGED <<sent, wqueue, uppipe, dnpipe, parentUp, logged, ends>>

\* The restart of kore_worker_wait: kore_msg_parent_remove closes the old pair
\* with all that is in it, kore_worker_spawn makes a new one, and
\* kore_msg_parent_add puts its connection at the end of the list.
Restart(w) ==
  /\ parentUp /\ up[w] = "dead"
  /\ connections' = Append(Removed(w), w)
  /\ uppipe' = [uppipe EXCEPT ![w] = <<>>] /\ pneed' = [pneed EXCEPT ![w] = NoHeader]
  /\ pqueue' = [pqueue EXCEPT ![w] = <<>>] /\ dnpipe' = [dnpipe EXCEPT ![w] = <<>>]
  /\ wneed' = [wneed EXCEPT ![w] = NoHeader]
  /\ up' = [up EXCEPT ![w] = "up"] /\ inc' = [inc EXCEPT ![w] = @ + 1]
  /\ handled' = [handled EXCEPT ![w] = <<>>]
  /\ holders' = Inherit(w)
  /\ UNCHANGED <<sent, wqueue, parentUp, logged, ends>>

-----------------------------------------------------------------------------
(* The ends of processes                                                   *)

\* What a process held is closed with it.
Closed(p) == [v \in Ids |-> holders[v] \ {p}]

\* A worker dies; what it had queued is lost.
Crash(w) == /\ up[w] = "up" /\ ends < MaxEnds
            /\ up' = [up EXCEPT ![w] = "dead"] /\ ends' = ends + 1
            /\ wqueue' = [wqueue EXCEPT ![w] = <<>>]
            /\ holders' = Closed(w)
            /\ UNCHANGED <<sent, inc, parentUp, connections, uppipe, pneed, downward, handled, logged>>

\* A worker ends cleanly: kore_connection_cleanup flushes what the socket takes.
\* The parent does not replace it and keeps its connection.
Quit(w) == \E k \in 0 .. Len(wqueue[w]) :
  /\ ends < MaxEnds /\ up[w] = "up"
  /\ up' = [up EXCEPT ![w] = "gone"] /\ ends' = ends + 1
  /\ wqueue' = [wqueue EXCEPT ![w] = <<>>]
  /\ uppipe' = [uppipe EXCEPT ![w] = @ \o Written(wqueue[w], k)]
  /\ holders' = Closed(w)
  /\ UNCHANGED <<sent, inc, parentUp, connections, pneed, downward, handled, logged>>

\* The parent is killed.
ParentDies == /\ ends < MaxEnds /\ parentUp
              /\ parentUp' = FALSE /\ ends' = ends + 1
              /\ connections' = <<>> /\ pqueue' = [w \in Ids |-> <<>>]
              /\ holders' = Closed(PARENT)
              /\ UNCHANGED <<sent, up, inc, upward, dnpipe, wneed, handled, logged>>

Next == \/ \E w \in Ids : \/ WorkerFlush(w) \/ WorkerRecv(w) \/ Crash(w) \/ Quit(w)
                          \/ ParentRecv(w) \/ ParentFlush(w) \/ Restart(w)
        \/ \E s \in Sends : Send(s[1], s[2], s[3])
        \/ ParentDies

\* Both ends of a socket pair are polled as long as their processes run.
Fairness == \A w \in Ids : /\ WF_vars(WorkerFlush(w)) /\ WF_vars(WorkerRecv(w))
                           /\ WF_vars(ParentRecv(w)) /\ WF_vars(ParentFlush(w)) /\ WF_vars(Restart(w))

Spec == Init /\ [][Next]_vars /\ Fairness

-----------------------------------------------------------------------------
(* Properties                                                              *)

\* Message m is for worker w: not its own, and sent to it or to all.
For(m, w) == sent[m].src # w /\ sent[m].dst \in {ALL, w}

\* The reader that has the header of m next reads the body of m: no crash, no
\* restart and no short write puts a stream out of step (msg_recv_packet trusts
\* the length it finds).
InStep(need, stream) ==
  /\ stream # <<>> => Head(stream).part = (IF need = NoHeader THEN "head" ELSE "body")
  /\ need # NoHeader /\ stream # <<>> => Head(stream).m = need
  /\ \A i \in 1 .. Len(stream) - 1 :
       stream[i].part = "head" => stream[i + 1].part = "body" /\ stream[i + 1].m = stream[i].m

\* Messages that worker w had, has or is about to get.
Arriving(w) == handled[w] \o [i \in 1 .. Len(dnpipe[w]) |-> dnpipe[w][i].m]

\* Two messages of one life of a worker.
SameLife(m, n) == /\ sent[m].src = sent[n].src
                  /\ sent[m].inc[sent[m].src] = sent[n].inc[sent[n].src]

\* Every stream stays in step.  A worker gets no message that is not for it, none
\* that an earlier life of its own sent and none under another worker's id (the
\* "incorrect worker" fatal of msg_recv_data); and before it gets a message it has
\* got every earlier one of the same sender that was for it, as far as both have
\* lived since.
OrderedWithoutGaps == \A w \in Ids :
  /\ InStep(pneed[w], uppipe[w] \o wqueue[w]) /\ InStep(wneed[w], dnpipe[w] \o pqueue[w])
  /\ \A m \in Range(Arriving(w)) : For(m, w)
  /\ \A u \in Range(dnpipe[w] \o pqueue[w]) : u.dst = w
  /\ \A i \in DOMAIN handled[w], m \in 1 .. Len(sent) :
       /\ For(m, w) /\ m < handled[w][i] /\ sent[m].inc[w] = inc[w]
       /\ SameLife(m, handled[w][i])
       => m \in Range(SubSeq(handled[w], 1, i - 1))

\* A running worker is itself a holder of the parent's end of its pair, so the
\* hang-up that "parent gone, shutting down" (msg_disconnected_parent) waits for
\* never comes, whoever else died.
OrphansNeverHangUp == \A w \in Ids : up[w] = "up" => holders[w] # {}

Lost(m, w) == \/ ~parentUp
              \/ \E p \in {sent[m].src, w} \ {PARENT} : up[p] # "up" \/ inc[p] # sent[m].inc[p]

\* A message reaches each worker it is for, and a line of the access log reaches
\* the parent, unless the parent, the sender or the receiver ends first.
Delivered == \A m \in 1 .. MaxMessages : m <= Len(sent) ~>
  /\ m <= Len(sent)
  /\ \A w \in Ids : For(m, w) => m \in Range(handled[w]) \/ Lost(m, w)
  /\ sent[m].type = "accesslog" => m \in {l.m : l \in Range(logged)} \/ Lost(m, PARENT)
=============================================================================
