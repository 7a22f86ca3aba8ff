-------------------------------- MODULE App ---------------------------------
(***************************************************************************)
(* The way of one request through sparc::detail::App: App::handle, the     *)
(* "fidecs" (filters and codecs) that run before and after the handler of  *)
(* the route, the handler, its asynchronous states, the transformer and    *)
(* completeRequest (sparc/detail/app.cpp), and the HttpResponse they share *)
(* (sparc/detail/response.cpp).  What the callbacks of the application do  *)
(* is chosen freely.                                                       *)
(***************************************************************************)
EXTENDS Integers, Sequences

CONSTANTS Before, After,  \* what the fidecs match, in order; <<>> also stands for NULL
          Routes,         \* the prefixes of the routes, as sequences of characters
          Codes,          \* what the callbacks may return
          Halts           \* the statuses they may halt with

\* Return codes of sparc.h, and the statuses the code names.
ABORT == 0
CONTINUE == 1
SKIP_FLUSH == 2
ASYNC == 3
SWITCHING_PROTOCOLS == 101
OK == 200
FOUND == 302
NOT_MODIFIED == 304
BAD_REQUEST == 400
NOT_FOUND == 404
INTERNAL_ERROR == 500

ASSUME AppAssumption ==
  /\ Before \in Seq(Seq(STRING)) /\ After \in Seq(Seq(STRING)) /\ Routes \subseteq Seq(STRING)
  /\ Codes \subseteq Nat /\ {ABORT, SKIP_FLUSH} \subseteq Codes /\ Halts \subseteq Nat

VARIABLES pc, prefix,
          i,           \* where TAILQ_FOREACH is in the list of fidecs
          status,      \* the local of handle, callFidecs and completeRequest
          status_,     \* HttpResponse: status_
          ended_,      \* HttpResponse: ended_
          sent,        \* the statuses http_response was called with
          hdlr_extra,  \* the asynchronous query of the request
          recv,        \* the receive callback of the connection
          deleted,     \* how often the HttpRequest and the HttpResponse were deleted
          hret,        \* history: what the handler returned
          skipped,     \* history: the after fidecs asked not to flush
          halt,        \* history: the first status a callback halted with, or 0
          handshake    \* history: the handler answered with a handshake

resp == <<status_, ended_, sent, recv>>
hist == <<hret, skipped, halt, handshake>>
vars == <<pc, prefix, i, status, resp, hdlr_extra, deleted, hist>>

None == -1

Init == /\ pc = "new" /\ prefix \in Routes /\ i = 1 /\ status = OK
        /\ status_ = OK /\ ended_ = FALSE /\ sent = <<>> /\ hdlr_extra = FALSE
        /\ recv = "http" /\ deleted = [req |-> 0, resp |-> 0]
        /\ hret = None /\ skipped = FALSE /\ halt = 0 /\ handshake = FALSE

-----------------------------------------------------------------------------
(* HttpResponse                                                            *)

\* http_response: what is queued, and net_recv_reset to http_header_recv.
http_response(s) == sent' = Append(sent, s) /\ recv' = "http"

\* Mutant: end does not look at ended_.
EndAgain(s) == status_' = s /\ http_response(s) /\ ended_' = TRUE

end(s) == IF ended_ THEN UNCHANGED resp
          ELSE status_' = s /\ http_response(s) /\ ended_' = TRUE

\* status(s) sets nothing but errors and redirects.
NewStatus(s) == IF s > OK THEN s ELSE status_

\* A callback may set the status itself, or redirect.
MaySetStatus == status_' \in {status_, FOUND} /\ UNCHANGED <<ended_, sent, recv>>

-----------------------------------------------------------------------------
(* App::handle                                                             *)

\* A path with a dot in its last part is a static file.  The 404 of one that is
\* missing, and the response of one that is there, are sent at once.
HandleStatic == /\ pc = "new" /\ pc' = "flush"
                /\ \E s \in {NOT_FOUND, NOT_MODIFIED, OK} : end(s)
                /\ status' = ABORT
                /\ UNCHANGED <<prefix, i, hdlr_extra, deleted, hist>>

HandleNoRoute == /\ pc = "new" /\ pc' = "exit"
                 /\ end(NOT_FOUND)
                 /\ UNCHANGED <<prefix, i, status, hdlr_extra, deleted, hist>>

HandleRoute == /\ pc = "new" /\ pc' = "before"
               /\ i' = 1 /\ status' = CONTINUE
               /\ UNCHANGED <<prefix, resp, hdlr_extra, deleted, hist>>

-----------------------------------------------------------------------------
(* App::callFidecs, for before_ and for after_                             *)

InFidecs == pc \in {"before", "after"}

Fidecs == IF pc = "before" THEN Before ELSE After

Matches == /\ Len(Fidecs[i]) <= Len(prefix)
           /\ SubSeq(prefix, 1, Len(Fidecs[i])) = Fidecs[i]

FidecSkipped == /\ InFidecs /\ i <= Len(Fidecs) /\ ~Matches
                /\ i' = i + 1
                /\ UNCHANGED <<pc, prefix, status, resp, hdlr_extra, deleted, hist>>

FidecReturns == /\ InFidecs /\ i <= Len(Fidecs) /\ Matches
                /\ \E c \in Codes : status' = c
                /\ i' = IF status' = ABORT \/ ended_ THEN Len(Fidecs) + 1 ELSE i + 1
                /\ MaySetStatus
                /\ UNCHANGED <<pc, prefix, hdlr_extra, deleted, hist>>

HaltStatus(s) == IF s < OK THEN INTERNAL_ERROR ELSE s

FirstHalt(s) == IF halt = 0 /\ ~ended_ THEN s ELSE halt

\* Mutant: the halt only aborts.
HaltSilent(s) == status' = ABORT /\ halt' = FirstHalt(HaltStatus(s)) /\ UNCHANGED resp

\* catch (HaltException&), in callFidecs and in callRequestHandler.
CatchHalt(s) == status' = ABORT /\ halt' = FirstHalt(HaltStatus(s)) /\ end(HaltStatus(s))

\* The loop goes on.
FidecHalts == /\ InFidecs /\ i <= Len(Fidecs) /\ Matches
              /\ \E s \in Halts : CatchHalt(s)
              /\ i' = i + 1
              /\ UNCHANGED <<pc, prefix, hdlr_extra, deleted, hret, skipped, handshake>>

FidecThrows == /\ InFidecs /\ i <= Len(Fidecs) /\ Matches
               /\ status' = INTERNAL_ERROR
               /\ i' = Len(Fidecs) + 1
               /\ MaySetStatus
               /\ UNCHANGED <<pc, prefix, hdlr_extra, deleted, hist>>

BeforeDone == /\ pc = "before" /\ i > Len(Before)
              /\ pc' = IF status = ABORT THEN "flush" ELSE "handler"
              /\ UNCHANGED <<prefix, i, status, resp, hdlr_extra, deleted, hist>>

-----------------------------------------------------------------------------
(* App::callRequestHandler, and what handle does with its result           *)

HandlerReturns == /\ pc = "handler" /\ pc' = "transform"
                  /\ \E c \in Codes \ {ASYNC} : status' = c /\ hret' = c
                  /\ MaySetStatus
                  /\ UNCHANGED <<prefix, i, hdlr_extra, deleted, skipped, halt, handshake>>

HandlerHalts == /\ pc = "handler" /\ pc' = "transform"
                /\ \E s \in Halts : CatchHalt(s)
                /\ hret' = ABORT
                /\ UNCHANGED <<prefix, i, hdlr_extra, deleted, skipped, handshake>>

HandlerThrows == /\ pc = "handler" /\ pc' = "transform"
                 /\ status' = ABORT /\ hret' = ABORT
                 /\ MaySetStatus
                 /\ UNCHANGED <<prefix, i, hdlr_extra, deleted, skipped, halt, handshake>>

\* The handler of a webSocket route: kore_websocket_handshake answers by itself
\* and hands the connection to websocket_recv_opcode.
HandlerUpgrades == /\ pc = "handler" /\ pc' = "transform"
                   /\ \/ http_response(BAD_REQUEST)
                      \/ sent' = Append(sent, SWITCHING_PROTOCOLS) /\ recv' = "websocket"
                   /\ status' = SKIP_FLUSH /\ hret' = SKIP_FLUSH /\ handshake' = TRUE
                   /\ UNCHANGED <<prefix, i, status_, ended_, hdlr_extra, deleted, skipped, halt>>

\* $ASYNC with states: http_state_run starts them.
HandlerStartsQuery == /\ pc = "handler" /\ pc' = "async"
                      /\ hdlr_extra' = TRUE
                      /\ status' = ASYNC /\ hret' = ASYNC
                      /\ MaySetStatus
                      /\ UNCHANGED <<prefix, i, deleted, skipped, halt, handshake>>

\* $ASYNC without: the status is set, and nothing flushes it.
HandlerAsyncWithoutStates == /\ pc = "handler" /\ pc' = "exit"
                             /\ status' = ASYNC /\ hret' = ASYNC
                             /\ status_' = INTERNAL_ERROR /\ UNCHANGED <<ended_, sent, recv>>
                             /\ UNCHANGED <<prefix, i, hdlr_extra, deleted, skipped, halt,
                                            handshake>>

\* pgsql_async_done or pgsql_async_error, with the status of the query's callback
\* or the 500 it started with.
AsyncCompletes == /\ pc = "async" /\ pc' = "transform"
                  /\ hdlr_extra' = FALSE
                  /\ \E c \in Codes \cup {INTERNAL_ERROR} : status' = c
                  /\ MaySetStatus
                  /\ UNCHANGED <<prefix, i, deleted, hist>>

\* Mutant: nothing is cleaned up for a request that is gone.
DroppedQuietly == /\ pc = "async" /\ pc' = "dropped"
                  /\ hdlr_extra' = FALSE
                  /\ UNCHANGED <<prefix, i, status, resp, deleted, hist>>

\* The client is gone: http_request_free, pgsql_async_clean_up and asyncError,
\* which tests raw->data[0] a second time after it was cleared.
AsyncDropped == /\ pc = "async" /\ pc' = "dropped"
                /\ hdlr_extra' = FALSE
                /\ deleted' = [req |-> deleted.req + 1, resp |-> deleted.resp]
                /\ UNCHANGED <<prefix, i, status, resp, hist>>

-----------------------------------------------------------------------------
(* App::completeRequest                                                    *)

NoTransformer == /\ pc = "transform" /\ pc' = "after"
                 /\ status_' = NewStatus(status) /\ UNCHANGED <<ended_, sent, recv>>
                 /\ i' = 1 /\ status' = CONTINUE
                 /\ UNCHANGED <<prefix, hdlr_extra, deleted, hist>>

\* What the transformer returns replaces what the handler returned.  The route of
\* a webSocket has none.
Transform == /\ pc = "transform" /\ ~handshake
             /\ \E c \in Codes :
                  IF c = ABORT THEN /\ pc' = "flush" /\ status' = c
                                    /\ UNCHANGED <<status_, i>>
                  ELSE /\ pc' = "after" /\ status' = CONTINUE
                       /\ status_' = NewStatus(c) /\ i' = 1
             /\ UNCHANGED <<prefix, ended_, sent, recv, hdlr_extra, deleted, hist>>

AfterDone == /\ pc = "after" /\ i > Len(After)
             /\ status_' = IF status \in {CONTINUE, SKIP_FLUSH} THEN status_
                           ELSE IF status >= OK THEN NewStatus(status)
                           ELSE NewStatus(INTERNAL_ERROR)
             /\ pc' = IF status = SKIP_FLUSH THEN "exit" ELSE "flush"
             /\ skipped' = (status = SKIP_FLUSH)
             /\ UNCHANGED <<prefix, i, status, ended_, sent, recv, hdlr_extra, deleted, hret, halt,
                            handshake>>

flush == /\ pc = "flush" /\ pc' = "exit"
         /\ end(status_)
         /\ UNCHANGED <<prefix, i, status, hdlr_extra, deleted, hist>>

Exit == /\ pc = "exit" /\ pc' = "done"
        /\ deleted' = [req |-> deleted.req + 1, resp |-> deleted.resp + 1]
        /\ UNCHANGED <<prefix, i, status, resp, hdlr_extra, hist>>

Next == \/ HandleStatic \/ HandleNoRoute \/ HandleRoute
        \/ FidecSkipped \/ FidecReturns \/ FidecHalts \/ FidecThrows \/ BeforeDone
        \/ HandlerReturns \/ HandlerHalts \/ HandlerThrows \/ HandlerUpgrades
        \/ HandlerStartsQuery \/ HandlerAsyncWithoutStates
        \/ AsyncCompletes \/ AsyncDropped
        \/ NoTransformer \/ Transform \/ AfterDone \/ flush \/ Exit

Spec == Init /\ [][Next]_vars

-----------------------------------------------------------------------------
(* Properties                                                              *)

\* The types of the state; callFidecs never runs past the end of its list.
TypeOK == /\ pc \in {"new", "before", "handler", "transform", "async", "after", "flush", "exit",
                     "done", "dropped"}
          /\ prefix \in Routes /\ i \in Nat \ {0} /\ (InFidecs => i <= Len(Fidecs) + 1)
          /\ status \in Nat /\ status_ \in Nat /\ ended_ \in BOOLEAN /\ sent \in Seq(Nat)
          /\ hdlr_extra \in BOOLEAN /\ recv \in {"http", "websocket"}
          /\ deleted \in [req : Nat, resp : Nat]
          /\ hret \in Codes \cup {None, ASYNC} /\ skipped \in BOOLEAN /\ halt \in Nat
          /\ handshake \in BOOLEAN

\* A request is answered once, whatever its callbacks return, throw or halt with
\* and in whatever order.  Three ways leave it without an answer: after fidecs
\* that skip the flush, a handler that says $ASYNC without a query, and a client
\* that went away.  A handshake answers past the HttpResponse, and the handler of a
\* webSocket route returns $SKIP_FLUSH; but completeRequest tests only what the after
\* fidecs return, so the HttpResponse answers that request as well.
AnsweredOnce ==
  /\ ~handshake => Len(sent) = IF ended_ THEN 1 ELSE 0
  /\ pc = "done" => ended_ \/ skipped \/ (hret = ASYNC /\ status = ASYNC)

\* The answer to a request that was halted is what the first halt said.
HaltIsAnswer == halt # 0 /\ ~handshake => sent = <<halt>>

\* The HttpRequest and the HttpResponse are deleted once, by the end of the
\* request, along every path; only for a client that went away while its query
\* ran the HttpResponse stays (asyncError).
ReleasedOnce == /\ pc = "done" => deleted = [req |-> 1, resp |-> 1]
                /\ pc = "dropped" => deleted = [req |-> 1, resp |-> 0]
                /\ pc \notin {"done", "dropped"} => deleted = [req |-> 0, resp |-> 0]

\* "$halt(UNAUTHORIZED, ...); return $ABORT;" in a before fidec, and "You are an
\* authorized user" in the handler behind it (README.md, sauth): a request halted
\* by a before fidec does not reach its handler.
HaltStopsPipeline == halt # 0 => pc # "handler"
=============================================================================
