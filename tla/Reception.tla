----------------------------- MODULE Reception ------------------------------
(***************************************************************************)
(* How http.c receives the body of a request: http_header_recv with what   *)
(* came behind the header, http_body_recv for the rest, and http_body_read *)
(* for the handler.  The client may write its next request before it has   *)
(* the answer, so more bytes than announced can be there.                  *)
(*                                                                         *)
(* Bodies stay in memory (http_body_disk_offload is 0 in this build).      *)
(* Only numbers of bytes are kept.                                         *)
(***************************************************************************)
EXTENDS Integers

CONSTANTS Announced,  \* values of the content-length header
          BodyMax,    \* http_body_max
          PayloadMax, \* NETBUF_SEND_PAYLOAD_MAX
          Word,       \* 2^64: what u_int64_t counts up to
          MaxBytes,   \* bound: bytes the client sends behind the header
          MaxRead     \* bound: bytes one read of the handler asks for

\* Nobody lives to see 2^64 bytes.
ASSUME ReceptionAssumption ==
  /\ Announced \subseteq Nat /\ BodyMax \in Nat /\ PayloadMax \in Nat \ {0} /\ Word \in Nat
  /\ MaxBytes \in Nat /\ MaxBytes < Word /\ MaxRead \in Nat

VARIABLES length, \* what the header announced
          coming, \* bytes the client has yet to send
          early,  \* bytes that came with the header
          rcv     \* [cb, b_len: the receive buffer; flag, content_length,
                  \*  http_body_length, stored, offset: the request]

rvars == <<length, coming, early, rcv>>

Smaller(x, y) == IF x < y THEN x ELSE y

\* The difference of two u_int64_t.
Minus(x, y) == IF x >= y THEN x - y ELSE x - y + Word

InitReception ==
  /\ length \in Announced /\ coming \in 0 .. MaxBytes /\ early = 0
  /\ rcv = [cb |-> "header", b_len |-> 0, flag |-> "new", content_length |-> 0,
            http_body_length |-> 0, stored |-> 0, offset |-> 0]

\* http_header_recv's start of the body: e bytes came with the header.
Began(e) ==
  LET left == Minus(length, e)
  IN IF left > 0
     THEN [cb |-> "body", b_len |-> Smaller(left, PayloadMax), flag |-> "sleeping",
           content_length |-> left, http_body_length |-> length, stored |-> e, offset |-> 0]
     ELSE [cb |-> "stale", b_len |-> 0, flag |-> "complete",
           content_length |-> length, http_body_length |-> length, stored |-> e, offset |-> 0]

\* http_header_recv of a request that expects a body.  A request without one to come is
\* complete; one that announces too much (or no number: 411) is answered and deleted, and
\* what it sends on is read as a header.
HeaderRecv(e) ==
  /\ rcv.cb = "header" /\ rcv.flag = "new"
  /\ coming' = coming - e /\ early' = e
  /\ rcv' = IF length = 0 THEN [rcv EXCEPT !.cb = "stale", !.flag = "complete"]
            ELSE IF length > BodyMax THEN [rcv EXCEPT !.flag = "delete"]
            ELSE Began(e)
  /\ UNCHANGED length

\* Mutant: the buffer for the next bytes is always as large as can be.
StoredWide(n) ==
  LET left == Minus(rcv.content_length, n)
  IN IF left = 0
     THEN [rcv EXCEPT !.cb = "header", !.b_len = 0, !.flag = "complete", !.stored = @ + n,
                      !.content_length = rcv.http_body_length]
     ELSE [rcv EXCEPT !.b_len = PayloadMax, !.stored = @ + n, !.content_length = left]

\* The request once http_body_recv stored n more bytes: complete, the next header
\* awaited, or with a buffer for what is left.
Stored(n) ==
  LET left == Minus(rcv.content_length, n)
  IN IF left = 0
     THEN [rcv EXCEPT !.cb = "header", !.b_len = 0, !.flag = "complete", !.stored = @ + n,
                      !.content_length = rcv.http_body_length]
     ELSE [rcv EXCEPT !.b_len = Smaller(left, PayloadMax), !.stored = @ + n, !.content_length = left]

\* http_body_recv of what net_recv_flush read, at most what the buffer has room for.
BodyRecv(n) ==
  /\ rcv.cb = "body" /\ n <= rcv.b_len
  /\ coming' = coming - n
  /\ rcv' = Stored(n)
  /\ UNCHANGED <<length, early>>

\* http_body_read for the handler of a complete request.
BodyRead(n) ==
  LET k == Smaller(rcv.http_body_length, n)
  IN /\ rcv.flag = "complete" /\ k > 0
     /\ rcv' = [rcv EXCEPT !.offset = @ + k, !.http_body_length = @ - k]
     /\ UNCHANGED <<length, coming, early>>

NextReception == \/ \E e \in 0 .. coming : HeaderRecv(e)
                 \/ \E n \in 1 .. coming : BodyRecv(n)
                 \/ \E n \in 1 .. MaxRead : BodyRead(n)

-----------------------------------------------------------------------------
(* Properties                                                              *)

\* However the bytes are cut: a request is complete only when exactly the announced body
\* is stored, the handler never reads past it, and the bytes it has read and has still to
\* read are all of it.  Of a request whose body is still received, what is stored and what
\* is awaited make up the announced length, and it sleeps; but when more came with the
\* header than was announced, the unsigned bytes_left (http.c:722) wraps, the request is
\* never complete, and everything the client sends after that goes to its body.
BodyWhole ==
  /\ rcv.flag = "complete" => /\ rcv.stored = length
                              /\ rcv.content_length = length
                              /\ rcv.offset + rcv.http_body_length = length
  /\ rcv.cb = "body" =>
       /\ rcv.flag = "sleeping"
       /\ \/ rcv.stored < length /\ rcv.stored + rcv.content_length = length
          \/ early > length /\ rcv.stored + rcv.content_length = length + Word
=============================================================================
