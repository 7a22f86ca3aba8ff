------------------------------ MODULE Exchange ------------------------------
(***************************************************************************)
(* The HttpRequest and the HttpResponse a handler is given                 *)
(* (sparc/detail/request.cpp, response.cpp): what they keep between calls, *)
(* and what end sends.  A handler, its filters and its resumed states make *)
(* the calls, in any order.                                                *)
(*                                                                         *)
(* The text of a cookie or a body is the sequence of what was written.     *)
(***************************************************************************)
EXTENDS Lists

CONSTANTS Cookies,   \* names of cookies
          Texts,     \* values of cookies and headers, pieces of bodies
          MaxChunks, \* bound: reads a request's body takes
          MaxCalls   \* bound: calls

VARIABLES unread,  \* reads of the body still to come from http_body_read
          rq,      \* HttpRequest: bodyLoaded_, body_ as the reads it holds, NULL or not, and json_
          cookied, \* the request has a Cookie header with a token
          rs,      \* HttpResponse: cookies_, the response headers, body_, ended_
          sent,    \* what http_response was given
          calls,   \* the calls so far that change the response
          fault    \* a read through NULL or before a buffer, or a write past one

xvars == <<unread, rq, cookied, rs, sent, calls, fault>>

InitExchange ==
  /\ unread \in 0 .. MaxChunks
  /\ rq = [whole |-> unread, bodyLoaded |-> FALSE, null |-> TRUE, body |-> 0, json |-> "NULL"]
  /\ cookied \in BOOLEAN
  /\ rs = [cookies |-> <<>>, headers |-> <<>>, body |-> <<>>, ended |-> FALSE]
  /\ sent = <<>> /\ calls = <<>> /\ fault = FALSE

-----------------------------------------------------------------------------
(* The request                                                             *)

\* Mutant: the body is read again at every call.
LoadedEachTime(q) == FALSE

\* body() reads when it has not done so before.
Loaded(q) == q.bodyLoaded \/ ~q.null

\* HttpRequest::body: the first call takes all there is to read, unless a read fails:
\* then there is no body, now or later.  The text of an empty body is read at index -1.
body(q, n) == [q EXCEPT !.bodyLoaded = TRUE,
                        !.null = IF Loaded(q) THEN @ ELSE n < unread,
                        !.body = IF Loaded(q) THEN @ ELSE n]
Left(q, n) == IF Loaded(q) THEN unread ELSE unread - n

Body == \E n \in 0 .. unread :
          /\ rq' = body(rq, n) /\ unread' = Left(rq, n)
          /\ fault' = (fault \/ (~rq'.null /\ rq'.body = 0))
          /\ UNCHANGED <<cookied, rs, sent, calls>>

\* HttpRequest::json: once it has a value it keeps it.
ReadJson == /\ \/ rq.json # "NULL" /\ UNCHANGED <<rq, unread, fault>>
               \/ /\ rq.json = "NULL"
                  /\ \E n \in 0 .. unread, ok \in BOOLEAN :
                       LET q == body(rq, n)
                       IN /\ rq' = [q EXCEPT !.json = IF ~q.null /\ ok THEN "value" ELSE "NULL"]
                          /\ unread' = Left(rq, n)
                          /\ fault' = (fault \/ (~q.null /\ q.body = 0))
            /\ UNCHANGED <<cookied, rs, sent, calls>>

\* HttpRequest::cookie and eachCookie: without a Cookie header cookies_ stays NULL and is
\* read; parseCookies fills the table from an index that was never set.
Cookie == /\ fault' \in {fault, TRUE}
          /\ ~cookied => fault'
          /\ UNCHANGED <<unread, rq, cookied, rs, sent, calls>>

-----------------------------------------------------------------------------
(* The response                                                            *)

Call(c) == calls' = Append(calls, c) /\ Len(calls) < MaxCalls

\* HttpResponse::cookie: the value of a name that is there is replaced.
SetCookie(name, v) ==
  LET k == Search(rs.cookies, LAMBDA c : c.name = name)
  IN /\ rs' = [rs EXCEPT !.cookies = IF k = 0 THEN Append(@, [name |-> name, v |-> v])
                                              ELSE [@ EXCEPT ![k].v = v]]
     /\ Call([op |-> "cookie", name |-> name, v |-> v])

removeCookie(name) ==
  LET k == Search(rs.cookies, LAMBDA c : c.name = name)
  IN /\ rs' = [rs EXCEPT !.cookies = IF k = 0 THEN @ ELSE Delete(@, k)]
     /\ Call([op |-> "remove", name |-> name, v |-> "none"])

\* header() adds one, also of a name that is there.
Header(name, v) == [name |-> name, v |-> v]
addHeader(v) == /\ rs' = [rs EXCEPT !.headers = Append(@, Header("Content-Type", <<v>>))]
                /\ Call([op |-> "header", name |-> "Content-Type", v |-> v])

\* type() replaces the first Content-Type.
Type(v) ==
  LET k == Search(rs.headers, LAMBDA h : h.name = "Content-Type")
  IN /\ rs' = [rs EXCEPT !.headers = IF k = 0 THEN Append(@, Header("Content-Type", <<v>>))
                                              ELSE [@ EXCEPT ![k].v = <<v>>]]
     /\ Call([op |-> "type", name |-> "Content-Type", v |-> v])

\* body(str) and redirect() begin the body again; redirect() adds its headers.
SetBody(v) == /\ rs' = [rs EXCEPT !.body = <<v>>]
              /\ Call([op |-> "body", name |-> "none", v |-> v])
Redirect(v) == /\ rs' = [rs EXCEPT !.body = <<>>,
                                   !.headers = @ \o <<Header("Location", <<v>>), Header("Connection", <<"close">>)>>]
               /\ Call([op |-> "redirect", name |-> "none", v |-> v])

\* operator<<(Json): only into an empty body, before the end.
WriteJson(v) == /\ rs' = IF rs.ended \/ rs.body # <<>> THEN rs ELSE [rs EXCEPT !.body = <<v>>]
                /\ Call([op |-> "json", name |-> "none", v |-> v])

\* flushCookies: every cookie is written behind the ones before it in one buffer, and
\* each header takes the buffer's text up to the NUL behind the first.
flushCookies(cookies) ==
  [k \in DOMAIN cookies |-> Header("Set-Cookie", <<cookies[1].name, cookies[1].v>>)]

\* end(status, data, len), with or without data of its own; once.
End(data) == /\ ~rs.ended
             /\ LET hs == rs.headers \o flushCookies(rs.cookies)
                IN /\ sent' = Append(sent, [headers |-> hs, body |-> IF data = <<>> THEN rs.body ELSE data])
                   /\ rs' = [cookies |-> <<>>, headers |-> hs, body |-> <<>>, ended |-> TRUE]
             /\ UNCHANGED calls

Respond == /\ \/ \E n \in Cookies : removeCookie(n) \/ \E v \in Texts : SetCookie(n, v)
              \/ \E v \in Texts : addHeader(v) \/ Type(v) \/ SetBody(v) \/ WriteJson(v) \/ Redirect(v)
           /\ UNCHANGED <<unread, rq, cookied, sent, fault>>
Finish == \E data \in {<<>>} \cup {<<v>> : v \in Texts} : End(data) /\ UNCHANGED <<unread, rq, cookied, fault>>

NextRequest == ~fault /\ (Body \/ ReadJson \/ Cookie)
NextResponse == Respond \/ Finish

-----------------------------------------------------------------------------
(* Properties                                                              *)

Ops(ops) == SelectSeq(calls, LAMBDA c : c.op \in ops)
\* The value each cookie was last given, none when it was removed after that.
LastOf(name) == LET cs == SelectSeq(Ops({"cookie", "remove"}), LAMBDA c : c.name = name)
                IN IF cs = <<>> THEN "none" ELSE Last(cs).v
Set == {n \in Cookies : LastOf(n) # "none"}
\* The call from which on a cookie was always there.
Since(name) == CHOOSE k \in DOMAIN calls :
                 /\ calls[k].op = "cookie" /\ calls[k].name = name
                 /\ \A j \in k .. Len(calls) : ~(calls[j].op = "remove" /\ calls[j].name = name)
                 /\ \A i \in 1 .. k - 1 : calls[i].op = "cookie" /\ calls[i].name = name =>
                      \E j \in i .. k : calls[j].op = "remove" /\ calls[j].name = name
First == CHOOSE n \in Set : \A m \in Set : Since(n) <= Since(m)

\* Whatever the order of the calls: a body that is given is all of it, and the JSON is
\* read from no other.  Until the response is sent there is a Set-Cookie to come for each
\* cookie that is set, and each of them will carry the name and the last value of the
\* cookie that was set first; the content type is the one that was last set when only
\* type() sets it; and it is sent once.
CallsAgree ==
  /\ ~rq.null => rq.body = rq.whole
  /\ rq.json = "value" => ~rq.null
  /\ ~rs.ended =>
       /\ Len(rs.cookies) = Cardinality(Set)
       /\ \A h \in Range(flushCookies(rs.cookies)) : h.v = <<First, LastOf(First)>>
       /\ Ops({"header"}) = <<>> /\ Ops({"type"}) # <<>> =>
            SelectSeq(rs.headers, LAMBDA h : h.name = "Content-Type")
              = <<Header("Content-Type", <<Last(Ops({"type"})).v>>)>>
  /\ Len(sent) <= 1
=============================================================================
