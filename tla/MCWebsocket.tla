---------------------------- MODULE MCWebsocket ----------------------------
(* An instance of Websocket: payloads up to 3 bytes take one length byte. *)
EXTENDS Websocket

Frame(op, mask, enc, len) ==
  [op |-> op, fin |-> TRUE, mask |-> mask, enc |-> enc, len |-> len]

\* Data frames at the edges of the three length encodings, shortest and longer
\* than needed, one over the limit; control frames, good and bad; bad headers.
MCFrames ==
  {Frame("text", TRUE, 0, 0), Frame("text", TRUE, 0, 3),
   Frame("text", TRUE, 1, 3), Frame("text", TRUE, 1, 4), Frame("text", TRUE, 1, 6),
   Frame("text", TRUE, 2, 5), Frame("text", TRUE, 1, 7),
   Frame("text", FALSE, 0, 1), Frame("cont", TRUE, 0, 1),
   Frame("close", TRUE, 0, 0), Frame("ping", TRUE, 0, 1)}

\* In and behind the header, in the length or the mask, in the payload.
MCCuts == {1, 2, 5, 12}

MCReplies == {1}
=============================================================================
