----------------------------- MODULE SiteProofs -----------------------------
(***************************************************************************)
(* What a worker keeps, for any clients, files, databases and lengths.     *)
(***************************************************************************)
EXTENDS Site, FiniteSetTheorems, WellFoundedInduction, TLAPS

-----------------------------------------------------------------------------
(* The reception of a body *)

\* What the receive buffer and the request may be.
Receiving == [cb : {"header", "body", "stale"}, b_len : Nat,
             flag : {"new", "sleeping", "complete", "delete"}, content_length : Nat,
             http_body_length : Nat, stored : Nat, offset : Nat]

\* What the variables of a reception may be.
ReceptionTyped == length \in Nat /\ coming \in Nat /\ early \in Nat /\ rcv \in Receiving

\* Nothing is stored before the header is there, and bytes are counted once.
Counted == /\ coming + rcv.stored <= MaxBytes
           /\ rcv.flag = "new" => /\ rcv.cb = "header" /\ rcv.stored = 0 /\ rcv.offset = 0
                                  /\ rcv.content_length = 0 /\ rcv.http_body_length = 0

\* The buffer for the next bytes is not larger than what is awaited.
RoomOK == rcv.cb = "body" => /\ rcv.b_len <= rcv.content_length /\ rcv.content_length > 0
                             /\ rcv.offset = 0 /\ rcv.http_body_length = length

\* The inductive invariant of a reception.
ReceptionInv == ReceptionTyped /\ Counted /\ RoomOK /\ BodyWhole

\* MIN is one of the two and not larger than either.
LEMMA SmallerFacts ==
  ASSUME NEW x \in Nat, NEW y \in Nat
  PROVE  Smaller(x, y) \in Nat /\ Smaller(x, y) <= x /\ Smaller(x, y) <= y
BY DEF Smaller

\* Before the header is received the invariant holds.
LEMMA InitReceptionInv == InitReception => ReceptionInv
BY ReceptionAssumption DEF InitReception, ReceptionInv, ReceptionTyped, Receiving, Counted, RoomOK, BodyWhole

\* The parts of the invariant, for facts about numbers.
LEMMA ReceptionKnown ==
  ASSUME ReceptionInv
  PROVE  /\ MaxBytes \in Nat /\ Word \in Nat /\ PayloadMax \in Nat /\ MaxBytes < Word
         /\ length \in Nat /\ coming \in Nat /\ early \in Nat /\ rcv \in Receiving
         /\ Counted /\ RoomOK /\ BodyWhole
BY ReceptionAssumption, Zenon DEF ReceptionInv, ReceptionTyped

\* http_header_recv with e bytes behind the header.
LEMMA HeaderReceptionInv ==
  ASSUME ReceptionInv, NEW e \in 0 .. coming, HeaderRecv(e)
  PROVE  ReceptionInv'
<1>1. e \in Nat /\ coming' \in Nat /\ coming' + e = coming /\ early' = e /\ length' = length
  BY ReceptionKnown DEF HeaderRecv
<1>2. /\ rcv.flag = "new" /\ rcv.cb = "header" /\ rcv.stored = 0 /\ rcv.offset = 0
      /\ rcv.content_length = 0 /\ rcv.http_body_length = 0
  BY ReceptionKnown, Zenon DEF HeaderRecv, Counted
<1>3. coming \in Nat /\ coming <= MaxBytes
  BY <1>2, ReceptionKnown DEF Counted
<1>4. coming' + e <= MaxBytes /\ coming' + 0 <= MaxBytes /\ e < Word
  <2>1. MaxBytes \in Nat /\ Word \in Nat /\ MaxBytes < Word
    BY ReceptionKnown, Zenon
  <2>2. ASSUME NEW c \in Nat, c + e = coming
        PROVE  c + e <= MaxBytes /\ c + 0 <= MaxBytes /\ e < Word
    BY <1>1, <1>3, <2>1, <2>2
  <2> QED
    BY <1>1, <2>2, Zenon
<1>5. CASE length = 0
  <2>1. rcv' = [rcv EXCEPT !.cb = "stale", !.flag = "complete"]
    BY <1>5, Zenon DEF HeaderRecv
  <2>2. /\ rcv' \in Receiving /\ rcv'.cb = "stale" /\ rcv'.flag = "complete" /\ rcv'.stored = 0
        /\ rcv'.content_length = 0 /\ rcv'.http_body_length = 0 /\ rcv'.offset = 0
    BY <1>2, <2>1, ReceptionKnown, Zenon DEF Receiving
  <2>3. ReceptionTyped' /\ Counted' /\ RoomOK'
    BY <1>1, <1>4, <2>2, ReceptionKnown, Zenon DEF ReceptionTyped, Counted, RoomOK
  <2>4. BodyWhole'
    BY <1>1, <1>5, <2>2 DEF BodyWhole
  <2> QED
    BY <2>3, <2>4, Zenon DEF ReceptionInv
<1>6. CASE length # 0 /\ length > BodyMax
  <2>1. rcv' = [rcv EXCEPT !.flag = "delete"]
    BY <1>6, Zenon DEF HeaderRecv
  <2>2. rcv' \in Receiving /\ rcv'.cb = "header" /\ rcv'.flag = "delete" /\ rcv'.stored = 0
    BY <1>2, <2>1, ReceptionKnown, Zenon DEF Receiving
  <2> QED
    BY <1>1, <1>4, <2>2, ReceptionKnown, Zenon DEF ReceptionInv, ReceptionTyped, Counted, RoomOK,
       BodyWhole
<1>7. CASE length # 0 /\ ~(length > BodyMax)
  <2> DEFINE left == Minus(length, e)
  <2>1. left \in Nat /\ (e <= length => left = length - e) /\ (e > length => left = length - e + Word)
    BY <1>1, <1>4, ReceptionKnown DEF Minus
  <2>2. rcv' = Began(e)
    BY <1>7, Zenon DEF HeaderRecv
  <2>3. CASE left > 0
    <3>1. PICK b \in Nat : b = Smaller(left, PayloadMax) /\ b <= left
      BY <2>1, SmallerFacts, ReceptionKnown, Zenon
    <3>2. rcv' = [cb |-> "body", b_len |-> b, flag |-> "sleeping", content_length |-> left,
                  http_body_length |-> length, stored |-> e, offset |-> 0]
      BY <2>2, <2>3, <3>1, Zenon DEF Began
    <3> HIDE DEF left
    <3>3. /\ rcv' \in Receiving /\ rcv'.cb = "body" /\ rcv'.flag = "sleeping" /\ rcv'.b_len = b
          /\ rcv'.stored = e /\ rcv'.content_length = left /\ rcv'.http_body_length = length
          /\ rcv'.offset = 0
      BY <1>1, <2>1, <3>1, <3>2, ReceptionKnown, Zenon DEF Receiving
    <3>4. ReceptionTyped' /\ Counted' /\ RoomOK'
      BY <1>1, <1>4, <2>1, <2>3, <3>1, <3>3, ReceptionKnown, Zenon DEF ReceptionTyped, Counted,
         RoomOK
    <3>5. BodyWhole'
      BY <1>1, <2>1, <2>3, <3>3, ReceptionKnown DEF BodyWhole
    <3> QED
      BY <3>4, <3>5, Zenon DEF ReceptionInv
  <2>4. CASE ~(left > 0)
    <3>1. rcv' = [cb |-> "stale", b_len |-> 0, flag |-> "complete", content_length |-> length,
                  http_body_length |-> length, stored |-> e, offset |-> 0]
      BY <2>2, <2>4, Zenon DEF Began
    <3>2. e = length
      BY <1>1, <1>4, <2>1, <2>4, ReceptionKnown
    <3>3. /\ rcv' \in Receiving /\ rcv'.cb = "stale" /\ rcv'.flag = "complete" /\ rcv'.stored = e
          /\ rcv'.content_length = length /\ rcv'.http_body_length = length /\ rcv'.offset = 0
      BY <1>1, <3>1, ReceptionKnown, Zenon DEF Receiving
    <3>4. ReceptionTyped' /\ Counted' /\ RoomOK'
      BY <1>1, <1>4, <3>3, ReceptionKnown, Zenon DEF ReceptionTyped, Counted, RoomOK
    <3>5. BodyWhole'
      BY <1>1, <3>2, <3>3, ReceptionKnown DEF BodyWhole
    <3> QED
      BY <3>4, <3>5, Zenon DEF ReceptionInv
  <2> QED
    BY <2>3, <2>4, Zenon
<1> QED
  BY <1>5, <1>6, <1>7, Zenon

\* http_body_recv of n bytes: the last of them can only be the last announced, for the
\* wrapped count is out of reach.
LEMMA BodyReceptionInv ==
  ASSUME ReceptionInv, NEW n \in 1 .. coming, BodyRecv(n)
  PROVE  ReceptionInv'
<1>1. /\ n \in Nat /\ n > 0 /\ coming' \in Nat /\ coming' + n = coming
      /\ length' = length /\ early' = early /\ rcv.cb = "body" /\ n <= rcv.b_len
  BY ReceptionKnown DEF BodyRecv
<1>2. /\ rcv.stored \in Nat /\ rcv.content_length \in Nat /\ rcv.b_len \in Nat
      /\ rcv.flag = "sleeping" /\ rcv.offset = 0 /\ rcv.http_body_length = length
      /\ rcv.b_len <= rcv.content_length /\ coming + rcv.stored <= MaxBytes
  BY <1>1, ReceptionKnown, Zenon DEF Receiving, RoomOK, Counted, BodyWhole
<1>3. \/ rcv.stored < length /\ rcv.stored + rcv.content_length = length
      \/ early > length /\ rcv.stored + rcv.content_length = length + Word
  BY <1>1, ReceptionKnown, Zenon DEF BodyWhole
<1>4. coming' + (rcv.stored + n) <= MaxBytes
  BY <1>1, <1>2, ReceptionKnown
<1> DEFINE left == rcv.content_length - n
<1>5. left \in Nat /\ Minus(rcv.content_length, n) = left
  BY <1>1, <1>2 DEF Minus
<1>6. CASE left = 0
  <2>1. rcv' = [rcv EXCEPT !.cb = "header", !.b_len = 0, !.flag = "complete", !.stored = @ + n,
                           !.content_length = rcv.http_body_length]
    BY <1>5, <1>6, Zenon DEF BodyRecv, Stored
  <2>2. rcv.stored + n = length
    BY <1>1, <1>2, <1>3, <1>4, <1>6, ReceptionKnown
  <2>3. /\ rcv' \in Receiving /\ rcv'.cb = "header" /\ rcv'.flag = "complete"
        /\ rcv'.stored = rcv.stored + n /\ rcv'.content_length = length
        /\ rcv'.http_body_length = length /\ rcv'.offset = 0
    <3>1. PICK m \in Nat : m = rcv.stored + n
      BY <1>1, <1>2
    <3>2. rcv' = [rcv EXCEPT !.cb = "header", !.b_len = 0, !.flag = "complete", !.stored = m,
                             !.content_length = length]
      BY <1>2, <2>1, <3>1, Zenon
    <3>3. /\ rcv' \in Receiving /\ rcv'.cb = "header" /\ rcv'.flag = "complete" /\ rcv'.stored = m
          /\ rcv'.content_length = length /\ rcv'.http_body_length = length /\ rcv'.offset = 0
      BY <1>2, <3>2, ReceptionKnown, Zenon DEF Receiving
    <3> QED
      BY <3>1, <3>3, Zenon
  <2>4. ReceptionTyped' /\ Counted' /\ RoomOK'
    BY <1>1, <1>4, <2>3, ReceptionKnown, Zenon DEF ReceptionTyped, Counted, RoomOK
  <2>5. BodyWhole'
    BY <1>1, <2>2, <2>3, ReceptionKnown DEF BodyWhole
  <2> QED
    BY <2>4, <2>5, Zenon DEF ReceptionInv
<1>7. CASE left # 0
  <2>1. PICK b \in Nat : b = Smaller(left, PayloadMax) /\ b <= left
    BY <1>5, SmallerFacts, ReceptionKnown, Zenon
  <2>2. rcv' = [rcv EXCEPT !.b_len = b, !.stored = @ + n, !.content_length = left]
    BY <1>5, <1>7, <2>1, Zenon DEF BodyRecv, Stored
  <2>3. /\ rcv' \in Receiving /\ rcv'.cb = "body" /\ rcv'.flag = "sleeping" /\ rcv'.b_len = b
        /\ rcv'.stored = rcv.stored + n /\ rcv'.content_length = left
        /\ rcv'.http_body_length = length /\ rcv'.offset = 0
    <3>1. PICK m \in Nat : m = rcv.stored + n
      BY <1>1, <1>2
    <3>2. PICK l \in Nat : l = left
      BY <1>5, Zenon
    <3>3. rcv' = [rcv EXCEPT !.b_len = b, !.stored = m, !.content_length = l]
      BY <2>2, <3>1, <3>2, Zenon
    <3>4. /\ rcv' \in Receiving /\ rcv'.cb = "body" /\ rcv'.flag = "sleeping" /\ rcv'.b_len = b
          /\ rcv'.stored = m /\ rcv'.content_length = l
          /\ rcv'.http_body_length = length /\ rcv'.offset = 0
      BY <1>1, <1>2, <3>3, ReceptionKnown, Zenon DEF Receiving
    <3> QED
      BY <3>1, <3>2, <3>4, Zenon
  <2>4. \/ rcv.stored + n < length /\ rcv.stored + n + left = length
        \/ early > length /\ rcv.stored + n + left = length + Word
    BY <1>1, <1>2, <1>3, <1>5, <1>7, ReceptionKnown
  <2>5. left > 0
    BY <1>5, <1>7
  <2> HIDE DEF left
  <2>6. ReceptionTyped' /\ Counted' /\ RoomOK'
    BY <1>1, <1>4, <1>5, <2>1, <2>3, <2>5, ReceptionKnown, Zenon DEF ReceptionTyped, Counted, RoomOK
  <2>7. BodyWhole'
    BY <1>1, <2>3, <2>4, Zenon DEF BodyWhole
  <2> QED
    BY <2>6, <2>7, Zenon DEF ReceptionInv
<1> QED
  BY <1>6, <1>7, Zenon

\* http_body_read of at most n bytes.
LEMMA ReadReceptionInv ==
  ASSUME ReceptionInv, NEW n \in 1 .. MaxRead, BodyRead(n)
  PROVE  ReceptionInv'
<1>1. rcv.http_body_length \in Nat /\ rcv.offset \in Nat /\ n \in Nat
  BY ReceptionKnown, ReceptionAssumption DEF Receiving
<1>2. PICK k \in Nat : k = Smaller(rcv.http_body_length, n) /\ k <= rcv.http_body_length
  BY <1>1, SmallerFacts, Zenon
<1>3. /\ rcv.flag = "complete" /\ rcv' = [rcv EXCEPT !.offset = @ + k, !.http_body_length = @ - k]
      /\ length' = length /\ coming' = coming /\ early' = early
  BY <1>2, Zenon DEF BodyRead
<1>4. /\ rcv' \in Receiving /\ rcv'.cb = rcv.cb /\ rcv'.flag = "complete" /\ rcv'.stored = rcv.stored
      /\ rcv'.content_length = rcv.content_length /\ rcv'.offset = rcv.offset + k
      /\ rcv'.http_body_length = rcv.http_body_length - k
  <2>1. PICK o \in Nat, l \in Nat : o = rcv.offset + k /\ l = rcv.http_body_length - k
    BY <1>1, <1>2
  <2>2. rcv' = [rcv EXCEPT !.offset = o, !.http_body_length = l]
    BY <1>3, <2>1, Zenon
  <2>3. /\ rcv' \in Receiving /\ rcv'.cb = rcv.cb /\ rcv'.flag = "complete" /\ rcv'.stored = rcv.stored
        /\ rcv'.content_length = rcv.content_length /\ rcv'.offset = o /\ rcv'.http_body_length = l
    BY <1>3, <2>2, ReceptionKnown, Zenon DEF Receiving
  <2> QED
    BY <2>1, <2>3, Zenon
<1>5. rcv.cb # "body"
  BY <1>3, ReceptionKnown, Zenon DEF BodyWhole
<1>6. ReceptionTyped' /\ Counted' /\ RoomOK'
  BY <1>3, <1>4, <1>5, ReceptionKnown, Zenon DEF ReceptionTyped, Counted, RoomOK
<1>7. BodyWhole'
  BY <1>1, <1>2, <1>3, <1>4, <1>5, ReceptionKnown DEF BodyWhole
<1> QED
  BY <1>6, <1>7, Zenon DEF ReceptionInv


-----------------------------------------------------------------------------
(* Sessions *)

\* What a session and a request may be.
Session == [live : BOOLEAN, expiryTime : Int, new : BOOLEAN, attributes : SUBSET Names]
Request == [ip : Ips \cup {"none"}, ptr : Nat, since : Nat]

\* What the variables of the sessions may be.
SessionsTyped ==
  /\ now \in Nat /\ session \in Seq(Session) /\ table \in [Ips -> Nat] /\ req \in [Reqs -> Request]

\* Numbers of sessions are those of sessions that were made, and a request that is there has an
\* address.
Numbered == /\ \A ip \in Ips : table[ip] # 0 => table[ip] \in DOMAIN session
            /\ \A r \in Reqs : /\ req[r] # NoReq => req[r].ip \in Ips
                               /\ req[r].ptr # 0 => req[r].ip \in Ips /\ req[r].ptr \in DOMAIN session

\* A session lives for a timeout from the last look-up on, and for ever when there is none.
Refreshed == /\ Timeout < 0 => \A s \in DOMAIN session : session[s].expiryTime < 0
             /\ \A r \in Reqs : /\ req[r].since <= now
                                /\ req[r].ptr # 0 /\ Timeout >= 0 =>
                                     session[req[r].ptr].expiryTime >= req[r].since + Timeout

\* The inductive invariant of the sessions.
SessionsInv == SessionsTyped /\ Numbered /\ Refreshed /\ SessionsHeld

\* Before the first request there is no session.
LEMMA SessionsInit == InitSessions => SessionsInv
<1>1. SUFFICES ASSUME InitSessions PROVE SessionsInv
  BY Zenon
<1>2. session = <<>> /\ DOMAIN session = {} /\ session \in Seq(Session)
  BY <1>1 DEF InitSessions
<1>3. NoReq \in Request /\ NoReq.ptr = 0 /\ NoReq.since = 0
  BY Zenon DEF NoReq, Request
<1> QED
  BY <1>1, <1>2, <1>3 DEF InitSessions, SessionsInv, SessionsTyped, Numbered, Refreshed, SessionsHeld

\* A request comes, or is deleted.
LEMMA RequestsComeAndGo ==
  ASSUME SessionsInv, NEW r \in Reqs, Leave(r) \/ \E ip \in Ips : Arrive(r, ip)
  PROVE  SessionsInv'
<1>1. UNCHANGED <<now, session, table>>
  BY Zenon DEF Leave, Arrive
<1> DEFINE Fresh(q) == /\ req' = [req EXCEPT ![r] = q] /\ q.ptr = 0 /\ q.since = 0
                       /\ q # NoReq => q.ip \in Ips
<1>0. \E q \in Request : Fresh(q)
  <2>1. NoReq \in Request /\ NoReq.ptr = 0 /\ NoReq.since = 0
    BY Zenon DEF NoReq, Request
  <2>2. ASSUME Leave(r) PROVE Fresh(NoReq)
    BY <2>1, <2>2, Zenon DEF Leave
  <2>3. ASSUME NEW ip \in Ips, Arrive(r, ip) PROVE \E q \in Request : Fresh(q)
    <3>1. PICK q : q = [NoReq EXCEPT !.ip = ip]
      BY Zenon
    <3>2. q \in Request /\ q.ptr = 0 /\ q.since = 0 /\ q.ip \in Ips
      BY <3>1, Zenon DEF NoReq, Request
    <3>3. Fresh(q)
      BY <2>3, <3>1, <3>2, Zenon DEF Arrive
    <3> HIDE DEF Fresh
    <3> QED
      BY <3>2, <3>3, Zenon
  <2> HIDE DEF Fresh
  <2> QED
    BY <2>1, <2>2, <2>3, Zenon
<1>2. PICK q \in Request : Fresh(q)
  <2> HIDE DEF Fresh
  <2> QED
    BY <1>0, Zenon
<1>3. SessionsTyped
  BY Zenon DEF SessionsInv
<1>4. req' \in [Reqs -> Request] /\ req'[r] = q /\ \A v \in Reqs : v # r => req'[v] = req[v]
  BY <1>2, <1>3, Zenon DEF SessionsTyped
<1>5. SessionsTyped'
  BY <1>1, <1>3, <1>4, Zenon DEF SessionsTyped
<1>6. Numbered'
  BY <1>1, <1>2, <1>4, Zenon DEF SessionsInv, Numbered
<1>7. Refreshed'
  <2>1. 0 <= now
    BY <1>3 DEF SessionsTyped
  <2> QED
    BY <1>1, <1>2, <1>4, <2>1, Zenon DEF SessionsInv, Refreshed
<1>8. SessionsHeld'
  BY <1>1, <1>2, <1>4 DEF SessionsInv, SessionsHeld
<1> QED
  BY <1>5, <1>6, <1>7, <1>8, Zenon DEF SessionsInv

\* Time passes.
LEMMA TickKeeps ==
  ASSUME SessionsInv, Tick
  PROVE  SessionsInv'
<1>1. SessionsTyped /\ Numbered /\ Refreshed /\ SessionsHeld
  BY Zenon DEF SessionsInv
<1>2. now \in Nat /\ now' = now + 1 /\ UNCHANGED <<session, table, req>>
  BY <1>1, Zenon DEF Tick, SessionsTyped
<1>3. now' \in Nat /\ \A n \in Nat : n <= now => n <= now'
  BY <1>2
<1>4. SessionsTyped' /\ Numbered'
  BY <1>1, <1>2, <1>3, Zenon DEF SessionsTyped, Numbered
<1>5. \A r \in Reqs : req[r].since \in Nat
  <2>1. \A r \in Reqs : req[r] \in Request
    BY <1>1, Zenon DEF SessionsTyped
  <2> QED
    BY <2>1, Zenon DEF Request
<1>6. Refreshed'
  BY <1>1, <1>2, <1>3, <1>5, Zenon DEF Refreshed
<1>7. \A r \in Reqs : Timeout >= 0 /\ now > req[r].since + Timeout => now' > req[r].since + Timeout
  BY <1>2, <1>5, SessionsAssumption
<1>8. SessionsHeld'
  BY <1>1, <1>2, <1>7, Zenon DEF SessionsHeld
<1> QED
  BY <1>4, <1>6, <1>8, Zenon DEF SessionsInv

\* An attribute is added or removed.
LEMMA AttributesKeep ==
  ASSUME SessionsInv, NEW r \in Reqs, NEW names \in SUBSET Names, SetAttributes(r, names)
  PROVE  SessionsInv'
<1>1. SessionsTyped /\ Numbered /\ Refreshed /\ SessionsHeld
  BY Zenon DEF SessionsInv
<1>2. PICK s \in DOMAIN session : s = req[r].ptr
  BY <1>1, Zenon DEF SetAttributes, Numbered
<1>3. session' = [session EXCEPT ![s].attributes = names] /\ UNCHANGED <<now, table, req>>
  BY <1>2, Zenon DEF SetAttributes
<1>4. session \in Seq(Session) /\ \A t \in DOMAIN session : session[t] \in Session
  BY <1>1 DEF SessionsTyped
<1>5. PICK e : e = [session[s] EXCEPT !.attributes = names]
  BY Zenon
<1>0. e \in Session /\ e.live = session[s].live /\ e.expiryTime = session[s].expiryTime
  BY <1>2, <1>4, <1>5, Zenon DEF Session
<1>6. session' = [session EXCEPT ![s] = e]
  BY <1>3, <1>5, Zenon
<1>7. /\ session' \in Seq(Session) /\ DOMAIN session' = DOMAIN session
      /\ session'[s] = e /\ \A t \in DOMAIN session : t # s => session'[t] = session[t]
  BY <1>0, <1>4, <1>6
<1>8. \A t \in DOMAIN session : session'[t].live = session[t].live /\ session'[t].expiryTime = session[t].expiryTime
  BY <1>0, <1>7, Zenon
<1>9. SessionsTyped' /\ Numbered'
  BY <1>1, <1>3, <1>7, Zenon DEF SessionsTyped, Numbered
<1>10. Refreshed'
  BY <1>1, <1>3, <1>7, <1>8, Zenon DEF Refreshed, Numbered
<1>11. SessionsHeld'
  BY <1>1, <1>3, <1>7, <1>8 DEF SessionsHeld, Numbered
<1> QED
  BY <1>9, <1>10, <1>11, Zenon DEF SessionsInv

\* The time of expiry that create sets.
LEMMA ExpiryFacts ==
  ASSUME now \in Nat
  PROVE  /\ Expiry \in Int /\ (Timeout < 0 => Expiry < 0)
         /\ (Timeout >= 0 => \A n \in Nat : n <= now => Expiry >= n + Timeout)
BY SessionsAssumption DEF Expiry

\* The session of the address is there: the request and the session agree from now on.
LEMMA FoundKeeps ==
  ASSUME SessionsInv, NEW r \in Reqs, req[r] # NoReq, NEW s \in DOMAIN session, table[req[r].ip] = s, s # 0,
         session' = Found(s), req' = [req EXCEPT ![r].ptr = s, ![r].since = now], UNCHANGED <<table, now>>
  PROVE  SessionsInv'
<1>1. SessionsTyped /\ Numbered /\ Refreshed /\ SessionsHeld
  BY Zenon DEF SessionsInv
<1>2. now \in Nat /\ session \in Seq(Session) /\ req \in [Reqs -> Request] /\ table \in [Ips -> Nat]
  BY <1>1, Zenon DEF SessionsTyped
<1>3. session[s] \in Session /\ s \in Nat /\ req[r] \in Request /\ \A v \in Reqs : req[v] \in Request
  BY <1>2
<1>4. PICK e : e = [session[s] EXCEPT !.expiryTime = Expiry, !.new = FALSE]
  BY Zenon
<1>5. e \in Session /\ e.live = session[s].live /\ e.expiryTime = Expiry
  <2>1. Expiry \in Int
    BY <1>2, ExpiryFacts, Zenon
  <2> QED
    BY <1>3, <1>4, <2>1, Zenon DEF Session
<1>6. session' = [session EXCEPT ![s] = e]
  BY <1>2, <1>4, Zenon DEF Found
<1>7. /\ session' \in Seq(Session) /\ DOMAIN session' = DOMAIN session
      /\ session'[s] = e /\ \A t \in DOMAIN session : t # s => session'[t] = session[t]
  BY <1>2, <1>5, <1>6
<1>8. PICK q : q = [req[r] EXCEPT !.ptr = s, !.since = now]
  BY Zenon
<1>9. q \in Request /\ q.ip = req[r].ip /\ q.ptr = s /\ q.since = now
  BY <1>2, <1>3, <1>8, Zenon DEF Request
<1>10. req' = [req EXCEPT ![r] = q]
  BY <1>2, <1>8, Zenon
<1>11. req' \in [Reqs -> Request] /\ req'[r] = q /\ \A v \in Reqs : v # r => req'[v] = req[v]
  BY <1>2, <1>9, <1>10, ZenonT(60)
<1>12. \A t \in DOMAIN session : session'[t].live = session[t].live
  BY <1>5, <1>7, Zenon
<1>13. req[r].ip \in Ips
  BY <1>1, Zenon DEF Numbered
<1>14. SessionsTyped'
  BY <1>2, <1>7, <1>11, Zenon DEF SessionsTyped
<1>15. Numbered'
  BY <1>1, <1>7, <1>9, <1>11, <1>13 DEF Numbered
<1>16. Refreshed'
  <2>1. \A v \in Reqs : req[v].since \in Nat
    BY <1>3, Zenon DEF Request
  <2>2. ASSUME Timeout < 0, NEW t \in DOMAIN session' PROVE session'[t].expiryTime < 0
    BY <1>1, <1>2, <1>5, <1>7, <2>2, ExpiryFacts, Zenon DEF Refreshed
  <2>3. ASSUME NEW v \in Reqs, v # r PROVE req'[v].since <= now'
    BY <1>1, <1>11, <2>3, Zenon DEF Refreshed
  <2>4. req'[r].since <= now'
    BY <1>2, <1>9, <1>11
  <2>5. ASSUME NEW v \in Reqs, req'[v].ptr # 0, Timeout >= 0
        PROVE  session'[req'[v].ptr].expiryTime >= req'[v].since + Timeout
    <3>1. CASE req'[v].ptr = s
      <4>1. req'[v].since \in Nat /\ req'[v].since <= now
        BY <1>2, <1>9, <1>11, <2>1, <2>3, <2>4, Zenon
      <4> QED
        BY <1>2, <1>5, <1>7, <2>5, <3>1, <4>1, ExpiryFacts, Zenon
    <3>2. CASE req'[v].ptr # s
      <4>1. v # r /\ req'[v] = req[v] /\ req[v].ptr \in DOMAIN session
        BY <1>1, <1>9, <1>11, <2>5, <3>2, Zenon DEF Numbered
      <4> QED
        BY <1>1, <1>7, <2>5, <3>2, <4>1 DEF Refreshed
    <3> QED
      BY <3>1, <3>2, Zenon
  <2> QED
    BY <2>2, <2>3, <2>4, <2>5, Zenon DEF Refreshed
<1>17. SessionsHeld'
  <2>1. \A t \in DOMAIN session' : session'[t].live <=> \E ip \in Ips : table'[ip] = t
    BY <1>1, <1>7, <1>12 DEF SessionsHeld
  <2>2. \A i, j \in Ips : table'[i] = table'[j] /\ table'[i] # 0 => i = j
    BY <1>1, Zenon DEF SessionsHeld
  <2>3. ASSUME NEW v \in Reqs, req'[v].ptr # 0
        PROVE  \/ table'[req'[v].ip] = req'[v].ptr
               \/ ~session'[req'[v].ptr].live /\ Timeout >= 0 /\ now' > req'[v].since + Timeout
    <3>1. CASE v = r
      BY <1>9, <1>11, <3>1, Zenon
    <3>2. CASE v # r
      <4>1. req'[v] = req[v] /\ req[v].ptr # 0 /\ req[v].ptr \in DOMAIN session
        BY <1>1, <1>11, <2>3, <3>2, Zenon DEF Numbered
      <4>2. \/ table[req[v].ip] = req[v].ptr
            \/ ~session[req[v].ptr].live /\ Timeout >= 0 /\ now > req[v].since + Timeout
        BY <1>1, <4>1, Zenon DEF SessionsHeld
      <4> QED
        BY <1>12, <4>1, <4>2, Zenon
    <3> QED
      BY <3>1, <3>2, Zenon
  <2> QED
    BY <2>1, <2>2, <2>3, Zenon DEF SessionsHeld
<1> QED
  BY <1>14, <1>15, <1>16, <1>17, Zenon DEF SessionsInv

\* The sessions when the expired one of an address is deleted.
Freed(ip) == IF table[ip] # 0 THEN [session EXCEPT ![table[ip]].live = FALSE] ELSE session

\* Deleting it changes nothing else, and those who still hold it have held it too long.
LEMMA FreedFacts ==
  ASSUME SessionsInv, NEW ip \in Ips, table[ip] # 0 => Expired(table[ip])
  PROVE  /\ Freed(ip) \in Seq(Session) /\ Len(Freed(ip)) = Len(session)
         /\ \A t \in DOMAIN session : /\ Freed(ip)[t].expiryTime = session[t].expiryTime
                                      /\ Freed(ip)[t].live <=> session[t].live /\ t # table[ip]
         /\ \A v \in Reqs : req[v].ptr # 0 =>
              \/ table[req[v].ip] = req[v].ptr /\ req[v].ip # ip
              \/ ~Freed(ip)[req[v].ptr].live /\ Timeout >= 0 /\ now > req[v].since + Timeout
<1>1. SessionsTyped /\ Numbered /\ Refreshed /\ SessionsHeld
  BY Zenon DEF SessionsInv
<1>2. now \in Nat /\ session \in Seq(Session) /\ req \in [Reqs -> Request] /\ table \in [Ips -> Nat]
  BY <1>1, Zenon DEF SessionsTyped
<1>3. \A t \in DOMAIN session : t # 0 /\ session[t] \in Session
  BY <1>2
<1>4. PICK f : f = Freed(ip)
  BY Zenon
<1>5. /\ f \in Seq(Session) /\ Len(f) = Len(session)
      /\ \A t \in DOMAIN session : /\ f[t].expiryTime = session[t].expiryTime
                                   /\ f[t].live <=> session[t].live /\ t # table[ip]
  <2>1. CASE table[ip] = 0
    BY <1>2, <1>3, <1>4, <2>1, Zenon DEF Freed
  <2>2. CASE table[ip] # 0
    <3>1. PICK s \in DOMAIN session : s = table[ip]
      BY <1>1, <2>2, Zenon DEF Numbered
    <3>2. PICK e : e = [session[s] EXCEPT !.live = FALSE]
      BY Zenon
    <3>3. e \in Session /\ ~e.live /\ e.expiryTime = session[s].expiryTime
      BY <1>3, <3>2, Zenon DEF Session
    <3>4. f = [session EXCEPT ![s] = e]
      BY <1>2, <1>4, <2>2, <3>1, <3>2, Zenon DEF Freed
    <3>5. f \in Seq(Session) /\ Len(f) = Len(session)
      <4>1. session \in Seq(Session) /\ e \in Session /\ s \in DOMAIN session
        BY <1>2, <3>3, Zenon
      <4> QED
        BY <3>4, <4>1
    <3>6. f[s] = e /\ \A t \in DOMAIN session : t # s => f[t] = session[t]
      BY <1>2, <3>4, Zenon
    <3> QED
      BY <3>1, <3>3, <3>5, <3>6, Zenon
  <2> QED
    BY <2>1, <2>2, Zenon
<1>6. ASSUME NEW v \in Reqs, req[v].ptr # 0
      PROVE  \/ table[req[v].ip] = req[v].ptr /\ req[v].ip # ip
             \/ ~f[req[v].ptr].live /\ Timeout >= 0 /\ now > req[v].since + Timeout
  <2>1. req[v].ip \in Ips /\ req[v].ptr \in DOMAIN session
    BY <1>1, <1>6, Zenon DEF Numbered
  <2>2. \/ table[req[v].ip] = req[v].ptr
        \/ ~session[req[v].ptr].live /\ Timeout >= 0 /\ now > req[v].since + Timeout
    BY <1>1, <1>6, Zenon DEF SessionsHeld
  <2>3. CASE table[req[v].ip] = req[v].ptr /\ req[v].ip = ip
    <3>1. PICK s \in DOMAIN session : s = req[v].ptr
      BY <2>1, Zenon
    <3>2. s = table[ip] /\ session[s].expiryTime > 0 /\ session[s].expiryTime < now
      BY <1>6, <2>3, <3>1, Zenon DEF Expired
    <3>3. session[s].expiryTime \in Int /\ req[v].since \in Nat
      <4>1. req[v] \in Request /\ session[s] \in Session
        BY <1>2, <1>3, Zenon
      <4> QED
        BY <4>1, Zenon DEF Session, Request
    <3>4. Timeout >= 0
      <4>1. Timeout < 0 => session[s].expiryTime < 0
        BY <1>1, Zenon DEF Refreshed
      <4> QED
        BY <3>2, <3>3, <4>1, SessionsAssumption
    <3>5. session[s].expiryTime >= req[v].since + Timeout
      BY <1>1, <1>6, <3>1, <3>4, Zenon DEF Refreshed
    <3>6. now > req[v].since + Timeout
      BY <1>2, <3>2, <3>3, <3>5, SessionsAssumption
    <3> QED
      BY <1>5, <3>1, <3>2, <3>4, <3>6, Zenon
  <2> QED
    BY <1>5, <2>1, <2>2, <2>3, Zenon
<1> QED
  BY <1>4, <1>5, <1>6, Zenon

\* An expired session is deleted, and no new one asked for.
LEMMA FreedKeeps ==
  ASSUME SessionsInv, NEW ip \in Ips, table[ip] # 0 => Expired(table[ip]),
         session' = Freed(ip), table' = [table EXCEPT ![ip] = 0], UNCHANGED <<req, now>>
  PROVE  SessionsInv'
<1>1. SessionsTyped /\ Numbered /\ Refreshed /\ SessionsHeld
  BY Zenon DEF SessionsInv
<1>2. now \in Nat /\ session \in Seq(Session) /\ req \in [Reqs -> Request] /\ table \in [Ips -> Nat]
  BY <1>1, Zenon DEF SessionsTyped
<1>3. table' \in [Ips -> Nat] /\ table'[ip] = 0 /\ \A i \in Ips : i # ip => table'[i] = table[i]
  BY <1>2, Zenon
<1>4. /\ session' \in Seq(Session) /\ Len(session') = Len(session)
      /\ \A t \in DOMAIN session : /\ session'[t].expiryTime = session[t].expiryTime
                                   /\ session'[t].live <=> session[t].live /\ t # table[ip]
      /\ \A v \in Reqs : req[v].ptr # 0 =>
           \/ table[req[v].ip] = req[v].ptr /\ req[v].ip # ip
           \/ ~session'[req[v].ptr].live /\ Timeout >= 0 /\ now > req[v].since + Timeout
  BY FreedFacts
<1>5. DOMAIN session' = DOMAIN session /\ \A t \in DOMAIN session : t # 0
  BY <1>2, <1>4
<1>6. SessionsTyped'
  BY <1>2, <1>3, <1>4, Zenon DEF SessionsTyped
<1>7. Numbered'
  BY <1>1, <1>3, <1>5, Zenon DEF Numbered
<1>8. Refreshed'
  BY <1>1, <1>4, <1>5, Zenon DEF Refreshed, Numbered
<1>9. ASSUME NEW t \in DOMAIN session' PROVE session'[t].live <=> \E i \in Ips : table'[i] = t
  <2>1. session[t].live <=> \E i \in Ips : table[i] = t
    BY <1>1, <1>5, <1>9, Zenon DEF SessionsHeld
  <2>2. \A i \in Ips : table'[i] = t <=> table[i] = t /\ i # ip
    BY <1>3, <1>5, <1>9, Zenon
  <2>3. t = table[ip] => \A i \in Ips : table[i] = t => i = ip
    BY <1>1, <1>5, <1>9 DEF SessionsHeld
  <2> QED
    BY <1>4, <1>5, <1>9, <2>1, <2>2, <2>3
<1>10. \A i, j \in Ips : table'[i] = table'[j] /\ table'[i] # 0 => i = j
  BY <1>1, <1>3 DEF SessionsHeld
<1>11. ASSUME NEW v \in Reqs, req'[v].ptr # 0
       PROVE  \/ table'[req'[v].ip] = req'[v].ptr
              \/ ~session'[req'[v].ptr].live /\ Timeout >= 0 /\ now' > req'[v].since + Timeout
  <2>1. req[v].ip \in Ips
    BY <1>1, <1>11, Zenon DEF Numbered
  <2> QED
    BY <1>3, <1>4, <1>11, <2>1
<1>12. SessionsHeld'
  BY <1>9, <1>10, <1>11, Zenon DEF SessionsHeld
<1> QED
  BY <1>6, <1>7, <1>8, <1>12, Zenon DEF SessionsInv

\* There is no session of the address, or it is deleted, and a new one is made.
LEMMA CreatedKeeps ==
  ASSUME SessionsInv, NEW r \in Reqs, NEW ip \in Ips, req[r].ip = ip, table[ip] # 0 => Expired(table[ip]),
         session' = Append(Freed(ip), [live |-> TRUE, expiryTime |-> Expiry, new |-> TRUE, attributes |-> {}]),
         table' = [table EXCEPT ![ip] = Len(session) + 1],
         req' = [req EXCEPT ![r].ptr = Len(session) + 1, ![r].since = now], now' = now
  PROVE  SessionsInv'
<1>1. SessionsTyped /\ Numbered /\ Refreshed /\ SessionsHeld
  BY Zenon DEF SessionsInv
<1>2. now \in Nat /\ session \in Seq(Session) /\ req \in [Reqs -> Request] /\ table \in [Ips -> Nat]
  BY <1>1, Zenon DEF SessionsTyped
<1>3. PICK s \in Nat : s = Len(session) + 1
  BY <1>2
<1>4. /\ table' \in [Ips -> Nat] /\ table'[ip] = s /\ \A i \in Ips : i # ip => table'[i] = table[i]
  BY <1>2, <1>3, Zenon
<1>5. PICK f : f = Freed(ip)
  BY Zenon
<1>6. /\ f \in Seq(Session) /\ Len(f) = Len(session)
      /\ \A t \in DOMAIN session : /\ f[t].expiryTime = session[t].expiryTime
                                   /\ f[t].live <=> session[t].live /\ t # table[ip]
      /\ \A v \in Reqs : req[v].ptr # 0 =>
           \/ table[req[v].ip] = req[v].ptr /\ req[v].ip # ip
           \/ ~f[req[v].ptr].live /\ Timeout >= 0 /\ now > req[v].since + Timeout
  BY <1>5, FreedFacts
<1>7. PICK e : e = [live |-> TRUE, expiryTime |-> Expiry, new |-> TRUE, attributes |-> {}]
  BY Zenon
<1>8. e \in Session /\ e.live /\ e.expiryTime = Expiry
  <2>1. Expiry \in Int
    BY <1>2, ExpiryFacts, Zenon
  <2> QED
    BY <1>7, <2>1, Zenon DEF Session
<1>9. /\ session' \in Seq(Session) /\ DOMAIN session' = DOMAIN session \cup {s} /\ session'[s] = e
      /\ \A t \in DOMAIN session : session'[t] = f[t] /\ t # s /\ t # 0
  <2>1. session' = Append(f, e) /\ f \in Seq(Session) /\ e \in Session
    BY <1>5, <1>6, <1>7, <1>8, Zenon
  <2>2. Len(f) \in Nat /\ s = Len(f) + 1 /\ DOMAIN session = 1 .. Len(f)
    BY <1>2, <1>3, <1>6
  <2>3. /\ Append(f, e) \in Seq(Session) /\ DOMAIN Append(f, e) = 1 .. Len(f) + 1 /\ Append(f, e)[Len(f) + 1] = e
        /\ \A t \in 1 .. Len(f) : Append(f, e)[t] = f[t]
    BY <2>1
  <2>4. 1 .. Len(f) + 1 = (1 .. Len(f)) \cup {Len(f) + 1} /\ \A t \in 1 .. Len(f) : t # Len(f) + 1 /\ t # 0
    BY <2>2
  <2> QED
    BY <2>1, <2>2, <2>3, <2>4, Zenon
<1>10. PICK q : q = [req[r] EXCEPT !.ptr = s, !.since = now]
  BY Zenon
<1>11. q \in Request /\ q.ip = ip /\ q.ptr = s /\ q.since = now
  <2>1. req[r] \in Request
    BY <1>2, Zenon
  <2> QED
    BY <1>2, <1>10, <2>1, Zenon DEF Request
<1>12. req' = [req EXCEPT ![r] = q]
  BY <1>2, <1>3, <1>10, Zenon
<1>13. req' \in [Reqs -> Request] /\ req'[r] = q /\ \A v \in Reqs : v # r => req'[v] = req[v]
  BY <1>2, <1>11, <1>12, ZenonT(60)
<1>14. SessionsTyped'
  BY <1>2, <1>4, <1>9, <1>13, Zenon DEF SessionsTyped
<1>15. Numbered'
  BY <1>1, <1>4, <1>9, <1>11, <1>13 DEF Numbered
<1>16. Refreshed'
  <2>1. \A t \in DOMAIN session : session'[t].expiryTime = session[t].expiryTime
    BY <1>6, <1>9, Zenon
  <2>2. ASSUME Timeout < 0, NEW t \in DOMAIN session' PROVE session'[t].expiryTime < 0
    <3>1. CASE t = s
      BY <1>2, <1>8, <1>9, <2>2, <3>1, ExpiryFacts, Zenon
    <3>2. CASE t \in DOMAIN session
      BY <1>1, <2>1, <2>2, <3>2, Zenon DEF Refreshed
    <3> QED
      BY <1>9, <2>2, <3>1, <3>2, Zenon
  <2>3. ASSUME NEW v \in Reqs, v # r
        PROVE  /\ req'[v].since <= now'
               /\ req'[v].ptr # 0 /\ Timeout >= 0 => session'[req'[v].ptr].expiryTime >= req'[v].since + Timeout
    BY <1>1, <1>13, <2>1, <2>3, Zenon DEF Refreshed, Numbered
  <2>4. req'[r].since <= now' /\ (Timeout >= 0 => session'[req'[r].ptr].expiryTime >= req'[r].since + Timeout)
    <3>1. now <= now
      BY <1>2
    <3> QED
      BY <1>2, <1>8, <1>9, <1>11, <1>13, <3>1, ExpiryFacts
  <2> QED
    BY <2>2, <2>3, <2>4, Zenon DEF Refreshed
<1>17. ASSUME NEW t \in DOMAIN session' PROVE session'[t].live <=> \E i \in Ips : table'[i] = t
  <2>1. CASE t = s
    BY <1>4, <1>8, <1>9, <2>1, Zenon
  <2>2. CASE t \in DOMAIN session
    <3>1. session[t].live <=> \E i \in Ips : table[i] = t
      BY <1>1, <2>2, Zenon DEF SessionsHeld
    <3>2. \A i \in Ips : table'[i] = t <=> table[i] = t /\ i # ip
      BY <1>4, <1>9, <2>2, Zenon
    <3>3. t = table[ip] => \A i \in Ips : table[i] = t => i = ip
      BY <1>1, <1>9, <2>2 DEF SessionsHeld
    <3> QED
      BY <1>6, <1>9, <2>2, <3>1, <3>2, <3>3
  <2> QED
    BY <1>9, <1>17, <2>1, <2>2, Zenon
<1>18. ASSUME NEW i \in Ips, NEW j \in Ips, table'[i] = table'[j], table'[i] # 0 PROVE i = j
  <2>1. \A k \in Ips : k # ip => table'[k] = table[k] /\ table[k] # s
    BY <1>1, <1>2, <1>4, <1>9 DEF Numbered
  <2> QED
    BY <1>1, <1>4, <1>18, <2>1 DEF SessionsHeld
<1>19. ASSUME NEW v \in Reqs, req'[v].ptr # 0
       PROVE  \/ table'[req'[v].ip] = req'[v].ptr
              \/ ~session'[req'[v].ptr].live /\ Timeout >= 0 /\ now' > req'[v].since + Timeout
  <2>1. CASE v = r
    BY <1>4, <1>11, <1>13, <2>1, Zenon
  <2>2. CASE v # r
    <3>1. req'[v] = req[v] /\ req[v].ip \in Ips /\ req[v].ptr \in DOMAIN session
      BY <1>1, <1>13, <1>19, <2>2, Zenon DEF Numbered
    <3> QED
      BY <1>4, <1>6, <1>9, <1>19, <3>1
  <2> QED
    BY <2>1, <2>2, Zenon
<1>20. SessionsHeld'
  BY <1>17, <1>18, <1>19, ZenonT(60) DEF SessionsHeld
<1> QED
  BY <1>14, <1>15, <1>16, <1>20, Zenon DEF SessionsInv

\* Every step of a request, and of the clock.
LEMMA SessionsNext ==
  ASSUME SessionsInv, NextSessions
  PROVE  SessionsInv'
<1>1. SessionsTyped /\ Numbered
  BY Zenon DEF SessionsInv
<1>2. ASSUME NEW r \in Reqs, NEW create \in BOOLEAN, lookup(r, create) PROVE SessionsInv'
  <2>1. PICK ip \in Ips : ip = req[r].ip
    BY <1>1, <1>2, Zenon DEF lookup, Numbered
  <2>2. req[r] # NoReq /\ now' = now
    BY <1>2, Zenon DEF lookup
  <2>3. CASE table[ip] # 0 /\ ~Expired(table[ip])
    <3>1. session' = Found(table[ip]) /\ req' = [req EXCEPT ![r].ptr = table[ip], ![r].since = now] /\ table' = table
      BY <1>2, <2>1, <2>3, Zenon DEF lookup
    <3>2. table[ip] \in DOMAIN session
      BY <1>1, <2>3, Zenon DEF Numbered
    <3> QED
      BY <2>1, <2>2, <2>3, <3>1, <3>2, FoundKeeps, Zenon
  <2>4. CASE ~(table[ip] # 0 /\ ~Expired(table[ip])) /\ create
    <3>1. /\ session' = Append(Freed(ip), [live |-> TRUE, expiryTime |-> Expiry, new |-> TRUE, attributes |-> {}])
          /\ table' = [table EXCEPT ![ip] = Len(session) + 1]
          /\ req' = [req EXCEPT ![r].ptr = Len(session) + 1, ![r].since = now]
      BY <1>2, <2>1, <2>4, Zenon DEF lookup, Freed
    <3> QED
      BY <2>1, <2>2, <2>4, <3>1, CreatedKeeps, Zenon
  <2>5. CASE ~(table[ip] # 0 /\ ~Expired(table[ip])) /\ ~create
    <3>1. session' = Freed(ip) /\ table' = [table EXCEPT ![ip] = 0] /\ req' = req
      BY <1>2, <2>1, <2>5, Zenon DEF lookup, Freed
    <3> QED
      BY <2>2, <2>5, <3>1, FreedKeeps, Zenon
  <2> QED
    BY <1>2, <2>3, <2>4, <2>5, Zenon
<1>3. ASSUME NEW r \in Reqs, req[r].ptr # 0, NEW n \in Names, addAttribute(r, n) \/ removeAttribute(r, n) PROVE SessionsInv'
  <2>1. session[req[r].ptr] \in Session
    BY <1>1, <1>3 DEF SessionsTyped, Numbered
  <2>2. PICK a \in SUBSET Names : a = session[req[r].ptr].attributes
    BY <2>1, Zenon DEF Session
  <2>3. a \cup {n} \in SUBSET Names /\ a \ {n} \in SUBSET Names
    BY Zenon
  <2> QED
    BY <1>3, <2>2, <2>3, AttributesKeep, Zenon DEF addAttribute, removeAttribute
<1> QED
  BY <1>2, <1>3, RequestsComeAndGo, TickKeeps, Zenon DEF NextSessions

-----------------------------------------------------------------------------
(* Static files *)

\* What a file, an entry of the cache and a client's copy may be.
OnDisk == [ver : Nat, mtime : Nat, vers : SUBSET Nat, last : Nat, large : BOOLEAN]
Entry == [ver : Nat, mtime : Nat, fd : Nat, mapped : BOOLEAN]
Copy == [ver : Nat, mtime : Nat]

\* What the variables of the static files may be.
FilesTyped ==
  /\ second \in Nat \ {0} /\ disk \in [Paths -> OnDisk] /\ cache \in [Paths -> Entry]
  /\ DOMAIN fds \subseteq 1 .. MaxFd /\ got \in [Paths -> Copy]
  /\ asked \subseteq [path : Paths, mtime : Nat, large : BOOLEAN]

\* A version and an mtime, from a stat of the file or later, go together.
Dated(c, p) == c.mtime <= disk[p].mtime /\ (c.mtime = disk[p].mtime => c.ver \in disk[p].vers)

\* No mtime is later than the file's, and the file's not later than the clock.
FilesDated ==
  /\ \A p \in Paths : /\ disk[p].mtime > 0 /\ disk[p].mtime <= second /\ disk[p].ver \in disk[p].vers
                      /\ Dated(cache[p], p) /\ Dated(got[p], p)
  /\ \A a \in asked : a.mtime <= disk[a.path].mtime

\* Every entry of the cache has a descriptor of its own, and no other was ever closed.
FdsOwned == /\ ~foreign
            /\ \A p \in Paths : cache[p] # None => cache[p].fd \in DOMAIN fds /\ fds[cache[p].fd] = p

\* The inductive invariant of the static files.
FilesInv == FilesTyped /\ FilesDated /\ FdsOwned

\* A nonempty set of natural numbers has a least element.
LEMMA Least ==
  ASSUME NEW T \in SUBSET Nat, T # {}
  PROVE  \E m \in T : \A n \in T : m <= n
<1>1. PICK m \in T : \A n \in T : ~(<<n, m>> \in OpToRel(<, Nat))
  BY WFMin, NatLessThanWellFounded, Zenon
<1>2. m \in Nat /\ \A n \in T : n \in Nat /\ ~(n < m)
  BY <1>1, Zenon DEF OpToRel
<1>3. \A n \in T : m <= n
  BY <1>2
<1> QED
  BY <1>3, Zenon

\* open returns a descriptor that is free.
LEMMA NewFdFree ==
  ASSUME NEW open, open \subseteq 1 .. MaxFd
  PROVE  NewFd(open) \in 1 .. MaxFd + 1 /\ NewFd(open) \notin open
<1> DEFINE F == (1 .. MaxFd + 1) \ open
<1>1. MaxFd \in Nat
  BY FilesAssumption, Zenon
<1>2. MaxFd + 1 \in F /\ F \in SUBSET Nat
  BY <1>1
<1> HIDE DEF F
<1>3. \E m \in F : \A n \in F : m <= n
  BY <1>2, Least, Zenon
<1>4. Min(F) \in F
  BY <1>3, Zenon DEF Min
<1>5. NewFd(open) = Min(F)
  BY Zenon DEF NewFd, F
<1> QED
  BY <1>4, <1>5, Zenon DEF F

\* When the worker starts, every file is in its first version and none in the cache.
LEMMA FilesInit == InitFiles => FilesInv
<1>1. SUFFICES ASSUME InitFiles PROVE FilesInv
  BY Zenon
<1>2. PICK d : d = [ver |-> 1, mtime |-> 1, vers |-> {1}, last |-> 1, large |-> FALSE]
  BY Zenon
<1>3. d \in OnDisk /\ d.mtime = 1 /\ d.ver \in d.vers
  BY <1>2 DEF OnDisk
<1>4. None \in Entry /\ None.mtime = 0
  BY Zenon DEF None, Entry
<1>5. PICK c : c = [ver |-> 0, mtime |-> 0]
  BY Zenon
<1>6. c \in Copy /\ c.mtime = 0
  BY <1>5, Zenon DEF Copy
<1>7. /\ second = 1 /\ disk = [p \in Paths |-> d] /\ cache = [p \in Paths |-> None] /\ DOMAIN fds = {}
      /\ got = [p \in Paths |-> c] /\ asked = {} /\ foreign = FALSE
  BY <1>1, <1>2, <1>5, Zenon DEF InitFiles
<1>8. FilesTyped
  BY <1>3, <1>4, <1>6, <1>7 DEF FilesTyped
<1>9. FilesDated
  BY <1>3, <1>4, <1>6, <1>7 DEF FilesDated, Dated
<1>10. FdsOwned
  BY <1>7, Zenon DEF FdsOwned
<1> QED
  BY <1>8, <1>9, <1>10, Zenon DEF FilesInv

\* A file is written, in place or as a new file, or removed.
LEMMA ChangeKeeps ==
  ASSUME FilesInv, NEW p \in Paths, NEW ver \in Nat, NEW inPlace \in BOOLEAN, NEW large \in BOOLEAN,
         Change(p, ver, inPlace, large)
  PROVE  FilesInv'
<1>1. FilesTyped /\ FilesDated /\ FdsOwned
  BY Zenon DEF FilesInv
<1>2. UNCHANGED <<second, fds, got, asked, foreign>>
  BY Zenon DEF Change
<1>3. /\ second \in Nat \ {0} /\ disk \in [Paths -> OnDisk] /\ cache \in [Paths -> Entry] /\ got \in [Paths -> Copy]
      /\ asked \subseteq [path : Paths, mtime : Nat, large : BOOLEAN]
  BY <1>1, Zenon DEF FilesTyped
<1>4. /\ disk[p] \in OnDisk /\ disk[p].mtime \in Nat /\ disk[p].vers \in SUBSET Nat /\ disk[p].last \in Nat
  BY <1>3, Zenon DEF OnDisk
<1>5. PICK vs \in SUBSET Nat : vs = (IF disk[p].mtime = second THEN disk[p].vers ELSE {}) \cup {ver}
  BY <1>4, Zenon
<1>6. PICK l \in Nat : l = IF ver = 0 THEN disk[p].last ELSE ver
  BY <1>4, Zenon
<1>7. PICK d : d = [ver |-> ver, mtime |-> second, vers |-> vs, last |-> l, large |-> large]
  BY Zenon
<1>8. d \in OnDisk /\ d.ver = ver /\ d.mtime = second /\ d.vers = vs
  BY <1>3, <1>7, Zenon DEF OnDisk
<1>9. disk' = [disk EXCEPT ![p] = d]
  BY <1>3, <1>5, <1>6, <1>7, Zenon DEF Change
<1>10. disk' \in [Paths -> OnDisk] /\ disk'[p] = d /\ \A q \in Paths : q # p => disk'[q] = disk[q]
  BY <1>3, <1>8, <1>9, Zenon
<1>11. disk[p].mtime <= second /\ ver \in vs /\ (disk[p].mtime = second => disk[p].vers \subseteq vs)
  BY <1>1, <1>5, Zenon DEF FilesDated
<1>12. PICK e : e = IF inPlace /\ cache[p].mapped THEN [cache[p] EXCEPT !.ver = ver] ELSE cache[p]
  BY Zenon
<1>13. /\ e \in Entry /\ e.mtime = cache[p].mtime /\ e.fd = cache[p].fd /\ (e # None => cache[p] # None)
       /\ e.ver = ver \/ e.ver = cache[p].ver
  <2>1. cache[p] \in Entry
    BY <1>3, Zenon
  <2>2. ~None.mapped
    BY Zenon DEF None
  <2>3. CASE inPlace /\ cache[p].mapped
    <3>1. e = [cache[p] EXCEPT !.ver = ver]
      BY <1>12, <2>3, Zenon
    <3>2. cache[p] # None
      BY <2>2, <2>3, Zenon
    <3> QED
      BY <2>1, <3>1, <3>2, Zenon DEF Entry
  <2>4. CASE ~(inPlace /\ cache[p].mapped)
    BY <1>12, <2>1, <2>4, Zenon
  <2> QED
    BY <2>3, <2>4, Zenon
<1>14. cache' = [cache EXCEPT ![p] = e]
  <2>1. CASE inPlace /\ cache[p].mapped
    BY <1>3, <1>12, <2>1, Zenon DEF Change
  <2>2. CASE ~(inPlace /\ cache[p].mapped)
    BY <1>3, <1>12, <2>2, Zenon DEF Change
  <2> QED
    BY <2>1, <2>2, Zenon
<1>15. cache' \in [Paths -> Entry] /\ cache'[p] = e /\ \A q \in Paths : q # p => cache'[q] = cache[q]
  BY <1>3, <1>13, <1>14, Zenon
<1>16. FilesTyped'
  BY <1>1, <1>2, <1>10, <1>15, Zenon DEF FilesTyped
<1>17. ASSUME NEW c, c.mtime \in Nat, Dated(c, p), NEW v \in {ver, c.ver}
       PROVE  c.mtime <= second /\ (c.mtime = second => v \in vs)
  BY <1>3, <1>4, <1>11, <1>17 DEF Dated
<1>18. Dated(cache[p], p)'
  <2>1. cache[p].mtime \in Nat /\ Dated(cache[p], p)
    BY <1>1, <1>3, Zenon DEF FilesDated, Entry
  <2>2. e.mtime <= second /\ (e.mtime = second => e.ver \in vs)
    BY <1>13, <1>17, <2>1, Zenon
  <2> QED
    BY <1>8, <1>10, <1>15, <2>2, Zenon DEF Dated
<1>19. Dated(got[p], p)'
  <2>1. got[p].mtime \in Nat /\ Dated(got[p], p)
    BY <1>1, <1>3, Zenon DEF FilesDated, Copy
  <2>2. got[p].mtime <= second /\ (got[p].mtime = second => got[p].ver \in vs)
    BY <1>17, <2>1, Zenon
  <2> QED
    BY <1>2, <1>8, <1>10, <2>2, Zenon DEF Dated
<1>20. ASSUME NEW q \in Paths, q # p
       PROVE  /\ disk'[q].mtime > 0 /\ disk'[q].mtime <= second' /\ disk'[q].ver \in disk'[q].vers
              /\ Dated(cache[q], q)' /\ Dated(got[q], q)'
  BY <1>1, <1>2, <1>10, <1>15, <1>20, Zenon DEF FilesDated, Dated
<1>21. disk'[p].mtime > 0 /\ disk'[p].mtime <= second' /\ disk'[p].ver \in disk'[p].vers
  BY <1>2, <1>3, <1>8, <1>10, <1>11, SMTT(30)
<1>22. ASSUME NEW a \in asked' PROVE a.mtime <= disk'[a.path].mtime
  <2>1. a.path \in Paths /\ a.mtime \in Nat /\ a.mtime <= disk[a.path].mtime
    BY <1>1, <1>2, <1>3, <1>22, Zenon DEF FilesDated
  <2>2. CASE a.path = p
    BY <1>3, <1>4, <1>8, <1>10, <1>11, <2>1, <2>2, SMTT(30)
  <2>3. CASE a.path # p
    BY <1>10, <2>1, <2>3, Zenon
  <2> QED
    BY <2>2, <2>3, Zenon
<1>23. FilesDated'
  BY <1>18, <1>19, <1>20, <1>21, <1>22, Zenon DEF FilesDated
<1>24. FdsOwned'
  BY <1>1, <1>2, <1>13, <1>15, Zenon DEF FdsOwned
<1> QED
  BY <1>16, <1>23, <1>24, Zenon DEF FilesInv

\* Steps that leave files, entries and copies alone.
LEMMA ClockAndStat ==
  ASSUME FilesInv, Tock \/ \E p \in Paths : Stat(p)
  PROVE  FilesInv'
<1>1. FilesTyped /\ FilesDated /\ FdsOwned
  BY Zenon DEF FilesInv
<1>2. /\ second \in Nat \ {0} /\ disk \in [Paths -> OnDisk]
      /\ \A p \in Paths : disk[p].mtime \in Nat
  BY <1>1, Zenon DEF FilesTyped, OnDisk
<1>3. CASE Tock
  <2>1. second' = second + 1 /\ UNCHANGED <<disk, cache, fds, got, asked, foreign>>
    BY <1>3, Zenon DEF Tock
  <2>2. second' \in Nat \ {0} /\ \A p \in Paths : disk[p].mtime <= second => disk[p].mtime <= second'
    BY <1>2, <2>1
  <2> QED
    BY <1>1, <2>1, <2>2, Zenon DEF FilesInv, FilesTyped, FilesDated, FdsOwned, Dated
<1>4. ASSUME NEW p \in Paths, Stat(p) PROVE FilesInv'
  <2>1. PICK a : a = [path |-> p, mtime |-> disk[p].mtime, large |-> disk[p].large]
    BY Zenon
  <2>2. asked' = {a} /\ UNCHANGED <<second, disk, cache, fds, got, foreign>>
    BY <1>4, <2>1, Zenon DEF Stat
  <2>3. disk[p].large \in BOOLEAN
    BY <1>2, Zenon DEF OnDisk
  <2>4. a \in [path : Paths, mtime : Nat, large : BOOLEAN] /\ a.mtime <= disk[a.path].mtime
    BY <1>2, <2>1, <2>3
  <2> QED
    BY <1>1, <2>2, <2>4, Zenon DEF FilesInv, FilesTyped, FilesDated, FdsOwned, Dated
<1> QED
  BY <1>3, <1>4, Zenon

\* A connection is accepted, on a free descriptor, or closed.
LEMMA OtherKeeps ==
  ASSUME FilesInv, Other
  PROVE  FilesInv'
<1>1. FilesTyped /\ FilesDated /\ FdsOwned
  BY Zenon DEF FilesInv
<1>2. UNCHANGED <<second, disk, cache, got, asked, foreign>>
  BY Zenon DEF Other
<1>3. DOMAIN fds \subseteq 1 .. MaxFd /\ MaxFd \in Nat
  BY <1>1, FilesAssumption, Zenon DEF FilesTyped
<1>4. DOMAIN fds' \subseteq 1 .. MaxFd /\ \A d \in DOMAIN fds : fds[d] # "other" => d \in DOMAIN fds' /\ fds'[d] = fds[d]
  <2>1. CASE /\ NewFd(DOMAIN fds) <= MaxFd
             /\ fds' = [d \in DOMAIN fds \cup {NewFd(DOMAIN fds)} |-> IF d \in DOMAIN fds THEN fds[d] ELSE "other"]
    <3>1. NewFd(DOMAIN fds) \in 1 .. MaxFd + 1
      BY <1>3, NewFdFree, Zenon
    <3>2. NewFd(DOMAIN fds) \in 1 .. MaxFd
      BY <1>3, <2>1, <3>1
    <3> QED
      BY <1>3, <2>1, <3>2, Zenon
  <2>2. ASSUME NEW d \in DOMAIN fds, fds[d] = "other", fds' = [x \in DOMAIN fds \ {d} |-> fds[x]]
        PROVE  DOMAIN fds' \subseteq 1 .. MaxFd /\ \A x \in DOMAIN fds : fds[x] # "other" => x \in DOMAIN fds' /\ fds'[x] = fds[x]
    BY <1>3, <2>2, Zenon
  <2> QED
    BY <2>1, <2>2, Zenon DEF Other
<1>5. FilesTyped' /\ FilesDated'
  BY <1>1, <1>2, <1>4, Zenon DEF FilesTyped, FilesDated, Dated
<1>6. \A p \in Paths : p # "other"
  BY FilesAssumption, Zenon
<1>7. FdsOwned'
  BY <1>1, <1>2, <1>4, <1>6, Zenon DEF FdsOwned
<1> QED
  BY <1>5, <1>7, Zenon DEF FilesInv

\* The answer: the client keeps its copy, or gets the entry's version and mtime.
LEMMA AnswerDated ==
  ASSUME FilesInv, NEW p \in Paths, NEW e \in Entry, Dated(e, p), Answer(p, e), disk' = disk
  PROVE  got' \in [Paths -> Copy] /\ \A q \in Paths : Dated(got[q], q)'
<1>1. FilesTyped /\ FilesDated
  BY Zenon DEF FilesInv
<1>2. got \in [Paths -> Copy] /\ \A q \in Paths : Dated(got[q], q)
  BY <1>1, Zenon DEF FilesTyped, FilesDated
<1>3. CASE got' = got
  BY <1>2, <1>3, Zenon DEF Dated
<1>4. CASE got' # got
  <2>1. PICK c : c = [ver |-> e.ver, mtime |-> IF p \in Html THEN 0 ELSE e.mtime]
    BY Zenon
  <2>2. got' = [got EXCEPT ![p] = c]
    BY <1>4, <2>1, Zenon DEF Answer
  <2>3. e.ver \in Nat /\ e.mtime \in Nat
    BY Zenon DEF Entry
  <2>4. c \in Copy /\ c.ver = e.ver /\ (c.mtime = 0 \/ c.mtime = e.mtime)
    BY <2>1, <2>3, Zenon DEF Copy
  <2>5. got' \in [Paths -> Copy] /\ got'[p] = c /\ \A q \in Paths : q # p => got'[q] = got[q]
    BY <1>2, <2>2, <2>4, Zenon
  <2>6. disk[p].mtime \in Nat /\ disk[p].mtime > 0
    <3>1. disk[p] \in OnDisk
      BY <1>1, Zenon DEF FilesTyped
    <3> QED
      BY <1>1, <3>1, Zenon DEF FilesDated, OnDisk
  <2>7. c.mtime <= disk[p].mtime /\ (c.mtime = disk[p].mtime => c.ver \in disk[p].vers)
    BY <2>4, <2>6 DEF Dated
  <2> QED
    BY <1>2, <2>5, <2>7, Zenon DEF Dated
<1> QED
  BY <1>3, <1>4, Zenon

\* The end of a find that leaves e as the entry of its path.
LEMMA ServedKeeps ==
  ASSUME FilesInv, NEW p \in Paths, NEW e \in Entry, Dated(e, p), UNCHANGED <<second, disk>>, asked' = {},
         cache' = [cache EXCEPT ![p] = e],
         got' \in [Paths -> Copy], \A q \in Paths : Dated(got[q], q)',
         DOMAIN fds' \subseteq 1 .. MaxFd, ~foreign', e # None => e.fd \in DOMAIN fds' /\ fds'[e.fd] = p,
         \A q \in Paths, d \in DOMAIN fds : q # p /\ fds[d] = q => d \in DOMAIN fds' /\ fds'[d] = q
  PROVE  FilesInv'
<1>1. FilesTyped /\ FilesDated /\ FdsOwned
  BY Zenon DEF FilesInv
<1>2. cache' \in [Paths -> Entry] /\ cache'[p] = e /\ \A q \in Paths : q # p => cache'[q] = cache[q]
  BY <1>1, Zenon DEF FilesTyped
<1>3. FilesTyped'
  BY <1>1, <1>2, Zenon DEF FilesTyped
<1>4. \A q \in Paths : Dated(cache[q], q)'
  BY <1>1, <1>2, Zenon DEF FilesDated, Dated
<1>5. FilesDated'
  BY <1>1, <1>4, Zenon DEF FilesDated
<1>6. FdsOwned'
  BY <1>1, <1>2 DEF FdsOwned
<1> QED
  BY <1>3, <1>5, <1>6, Zenon DEF FilesInv

\* The content is read after the stat: it is dated no later than it was.
LEMMA LoadKeeps ==
  ASSUME FilesInv, NEW st \in asked, NEW open, DOMAIN open \subseteq DOMAIN fds, Load(st.path, st, open),
         UNCHANGED <<second, disk>>, asked' = {}, ~foreign',
         \A q \in Paths, d \in DOMAIN fds : q # st.path /\ fds[d] = q => d \in DOMAIN open /\ open[d] = q
  PROVE  FilesInv'
<1>1. FilesTyped /\ FilesDated /\ FdsOwned
  BY Zenon DEF FilesInv
<1>2. PICK p \in Paths : p = st.path
  BY <1>1, Zenon DEF FilesTyped
<1>3. st.mtime \in Nat /\ st.large \in BOOLEAN /\ st.mtime <= disk[p].mtime
  BY <1>1, <1>2, Zenon DEF FilesTyped, FilesDated
<1>4. disk[p] \in OnDisk /\ disk[p].ver \in Nat /\ disk[p].ver \in disk[p].vers /\ DOMAIN fds \subseteq 1 .. MaxFd
  <2>1. disk[p] \in OnDisk /\ DOMAIN fds \subseteq 1 .. MaxFd
    BY <1>1, Zenon DEF FilesTyped
  <2> QED
    BY <1>1, <2>1, Zenon DEF FilesDated, OnDisk
<1>5. PICK fd : fd = NewFd(DOMAIN open)
  BY Zenon
<1>6. fd \in 1 .. MaxFd /\ fd \notin DOMAIN open
  <2>1. DOMAIN open \subseteq 1 .. MaxFd
    BY <1>4, Zenon
  <2>2. fd \in 1 .. MaxFd + 1 /\ fd \notin DOMAIN open
    BY <1>5, <2>1, NewFdFree, Zenon
  <2>3. fd <= MaxFd /\ MaxFd \in Nat
    BY <1>5, FilesAssumption, Zenon DEF Load
  <2> QED
    BY <2>2, <2>3
<1>7. PICK e : e = [ver |-> disk[p].ver, mtime |-> st.mtime, fd |-> fd, mapped |-> st.large]
  BY Zenon
<1>8. e \in Entry /\ e.ver = disk[p].ver /\ e.mtime = st.mtime /\ e.fd = fd
  <2>1. fd \in Nat
    BY <1>6
  <2> QED
    BY <1>3, <1>4, <1>7, <2>1, Zenon DEF Entry
<1>9. Dated(e, p)
  BY <1>3, <1>4, <1>8, Zenon DEF Dated
<1>10. /\ cache' = [cache EXCEPT ![p] = e] /\ Answer(p, e)
       /\ fds' = [d \in DOMAIN open \cup {fd} |-> IF d = fd THEN p ELSE open[d]]
  BY <1>2, <1>5, <1>7, Zenon DEF Load
<1>11. got' \in [Paths -> Copy] /\ \A q \in Paths : Dated(got[q], q)'
  BY <1>8, <1>9, <1>10, AnswerDated, Zenon
<1>12. DOMAIN fds' \subseteq 1 .. MaxFd /\ e.fd \in DOMAIN fds' /\ fds'[e.fd] = p
  BY <1>4, <1>6, <1>8, <1>10, Zenon
<1>13. \A q \in Paths, d \in DOMAIN fds : q # p /\ fds[d] = q => d \in DOMAIN fds' /\ fds'[d] = q
  BY <1>2, <1>6, <1>10, Zenon
<1> QED
  BY <1>8, <1>9, <1>10, <1>11, <1>12, <1>13, ServedKeeps, Zenon

\* A find ends with the cached entry, with a loaded or a reloaded one, or with none.  When it
\* fails to reload, the second close of the entry's descriptor meets nobody else's.
LEMMA ServeKeeps ==
  ASSUME FilesInv, Serve
  PROVE  FilesInv'
<1>1. FilesTyped /\ FilesDated /\ FdsOwned
  BY Zenon DEF FilesInv
<1>2. PICK st \in asked : /\ Hit(st.path, st) \/ loadFile(st.path, st) \/ reloadFile(st.path, st)
                          /\ asked' = {} /\ UNCHANGED <<second, disk>>
  BY Zenon DEF Serve
<1>3. PICK p \in Paths : p = st.path
  BY <1>1, Zenon DEF FilesTyped
<1>4. /\ DOMAIN fds \subseteq 1 .. MaxFd /\ MaxFd \in Nat /\ cache \in [Paths -> Entry]
      /\ got \in [Paths -> Copy] /\ \A q \in Paths : Dated(got[q], q)
  BY <1>1, FilesAssumption, Zenon DEF FilesTyped, FilesDated
<1>5. got' = got => got' \in [Paths -> Copy] /\ \A q \in Paths : Dated(got[q], q)'
  BY <1>2, <1>4, Zenon DEF Dated
<1>6. cache[p] \in Entry /\ Dated(cache[p], p) /\ (cache[p] # None => cache[p].fd \in DOMAIN fds /\ fds[cache[p].fd] = p)
  BY <1>1, <1>4, Zenon DEF FilesDated, FdsOwned
<1>7. None \in Entry /\ Dated(None, p)
  <2>1. disk[p].mtime \in Nat /\ disk[p].mtime > 0
    <3>1. disk[p] \in OnDisk
      BY <1>1, Zenon DEF FilesTyped
    <3> QED
      BY <1>1, <3>1, Zenon DEF FilesDated, OnDisk
  <2>2. None \in Entry /\ None.mtime = 0
    BY Zenon DEF None, Entry
  <2> QED
    BY <2>1, <2>2 DEF Dated
<1>8. \A q \in Paths : q # "other" /\ q # "leaked"
  BY FilesAssumption, Zenon
<1>9. CASE Hit(p, st)
  <2>1. Answer(p, cache[p]) /\ UNCHANGED <<cache, fds, foreign>>
    BY <1>9, Zenon DEF Hit
  <2>2. got' \in [Paths -> Copy] /\ \A q \in Paths : Dated(got[q], q)'
    BY <1>2, <1>6, <2>1, AnswerDated, Zenon
  <2>3. cache' = [cache EXCEPT ![p] = cache[p]] /\ ~foreign'
    BY <1>1, <1>4, <2>1, Zenon DEF FdsOwned
  <2> QED
    BY <1>2, <1>4, <1>6, <2>1, <2>2, <2>3, ServedKeeps, Zenon
<1>10. CASE loadFile(p, st)
  <2>1. cache[p] = None /\ foreign' = foreign /\ ~foreign'
    BY <1>1, <1>10, Zenon DEF loadFile, FdsOwned
  <2>2. CASE Load(p, st, fds)
    BY <1>2, <1>3, <2>1, <2>2, LoadKeeps, Zenon
  <2>3. CASE /\ cache' = cache /\ got' = got /\ DOMAIN fds' \subseteq 1 .. MaxFd
             /\ \A d \in DOMAIN fds : d \in DOMAIN fds' /\ fds'[d] = fds[d]
    <3>1. cache' = [cache EXCEPT ![p] = None]
      BY <1>4, <2>1, <2>3, Zenon
    <3>2. \A q \in Paths, d \in DOMAIN fds : q # p /\ fds[d] = q => d \in DOMAIN fds' /\ fds'[d] = q
      BY <2>3, Zenon
    <3> QED
      BY <1>2, <1>5, <1>7, <2>1, <2>3, <3>1, <3>2, ServedKeeps, Zenon
  <2>4. ASSUME UNCHANGED <<cache, fds, got>> PROVE DOMAIN fds' \subseteq 1 .. MaxFd
    BY <1>4, <2>4, Zenon
  <2>5. ASSUME NewFd(DOMAIN fds) <= MaxFd,
               fds' = [d \in DOMAIN fds \cup {NewFd(DOMAIN fds)} |-> IF d \in DOMAIN fds THEN fds[d] ELSE "leaked"]
        PROVE  DOMAIN fds' \subseteq 1 .. MaxFd /\ \A d \in DOMAIN fds : d \in DOMAIN fds' /\ fds'[d] = fds[d]
    <3>1. NewFd(DOMAIN fds) \in 1 .. MaxFd + 1
      BY <1>4, NewFdFree, Zenon
    <3>2. NewFd(DOMAIN fds) \in 1 .. MaxFd
      BY <1>4, <2>5, <3>1
    <3> QED
      BY <1>4, <2>5, <3>2, Zenon
  <2> QED
    BY <1>10, <2>2, <2>3, <2>4, <2>5, Zenon DEF loadFile
<1>11. CASE reloadFile(p, st)
  <2>1. cache[p] # None
    BY <1>11, Zenon DEF reloadFile
  <2>2. PICK fd : fd = cache[p].fd
    BY Zenon
  <2>3. PICK open : open = Close(fds, fd)
    BY Zenon
  <2>4. DOMAIN open = DOMAIN fds \ {fd} /\ \A d \in DOMAIN open : open[d] = fds[d]
    BY <2>3, Zenon DEF Close
  <2>5. fd \in DOMAIN fds /\ fds[fd] = p
    BY <1>6, <2>1, <2>2, Zenon
  <2>6. \A q \in Paths, d \in DOMAIN fds : q # p /\ fds[d] = q => d \in DOMAIN open /\ open[d] = q
    BY <2>4, <2>5, Zenon
  <2>7. ~Foreign(fds, fd) /\ ~Foreign(open, fd)
    BY <1>8, <2>4, <2>5, Zenon DEF Foreign
  <2>8. CASE Load(p, st, open) /\ foreign' = (foreign \/ Foreign(fds, fd))
    <3>1. ~foreign'
      BY <1>1, <2>7, <2>8, Zenon DEF FdsOwned
    <3>2. DOMAIN open \subseteq DOMAIN fds
      BY <2>4, Zenon
    <3> QED
      BY <1>2, <1>3, <2>6, <2>8, <3>1, <3>2, LoadKeeps, SMTT(30)
  <2>9. ASSUME NEW o, Failed(p, o), got' = got, DOMAIN o \subseteq 1 .. MaxFd, ~Foreign(o, fd),
               \A d \in DOMAIN open : d \in DOMAIN o /\ o[d] = open[d]
        PROVE  FilesInv'
    <3>1. cache' = [cache EXCEPT ![p] = None] /\ fds' = Close(o, fd) /\ foreign' = (foreign \/ Foreign(o, fd))
      BY <2>2, <2>9, Zenon DEF Failed
    <3>2. ~foreign'
      BY <1>1, <2>9, <3>1, Zenon DEF FdsOwned
    <3>3. DOMAIN fds' = DOMAIN o \ {fd} /\ \A d \in DOMAIN fds' : fds'[d] = o[d]
      BY <3>1, Zenon DEF Close
    <3>4. \A q \in Paths, d \in DOMAIN fds : q # p /\ fds[d] = q => d \in DOMAIN fds' /\ fds'[d] = q
      BY <2>4, <2>6, <2>9, <3>3, Zenon
    <3>5. DOMAIN fds' \subseteq 1 .. MaxFd
      BY <2>9, <3>3, Zenon
    <3> QED
      BY <1>2, <1>5, <1>7, <2>9, <3>1, <3>2, <3>4, <3>5, ServedKeeps, Zenon
  <2>10. CASE Failed(p, open) /\ got' = got
    <3>1. DOMAIN open \subseteq 1 .. MaxFd
      BY <1>4, <2>4, Zenon
    <3> QED
      BY <2>7, <2>9, <2>10, <3>1, Zenon
  <2>11. CASE /\ NewFd(DOMAIN open) <= MaxFd /\ got' = got
              /\ Failed(p, [d \in DOMAIN open \cup {NewFd(DOMAIN open)} |->
                              IF d = NewFd(DOMAIN open) THEN "leaked" ELSE open[d]])
    <3>1. PICK new : new = NewFd(DOMAIN open)
      BY Zenon
    <3>2. PICK o : o = [d \in DOMAIN open \cup {new} |-> IF d = new THEN "leaked" ELSE open[d]]
      BY Zenon
    <3>3. DOMAIN open \subseteq 1 .. MaxFd
      BY <1>4, <2>4, Zenon
    <3>4. new \in 1 .. MaxFd + 1 /\ new \notin DOMAIN open
      BY <3>1, <3>3, NewFdFree, Zenon
    <3>5. new \in 1 .. MaxFd
      BY <1>4, <2>11, <3>1, <3>4
    <3>6. DOMAIN o \subseteq 1 .. MaxFd /\ \A d \in DOMAIN open : d \in DOMAIN o /\ o[d] = open[d]
      BY <3>2, <3>3, <3>4, <3>5, Zenon
    <3>7. ~Foreign(o, fd)
      BY <2>4, <3>2, Zenon DEF Foreign
    <3>8. Failed(p, o)
      BY <2>11, <3>1, <3>2, Zenon
    <3> QED
      BY <2>9, <2>11, <3>6, <3>7, <3>8, Zenon
  <2> QED
    BY <1>11, <2>2, <2>3, <2>8, <2>10, <2>11, Zenon DEF reloadFile
<1> QED
  BY <1>2, <1>3, <1>9, <1>10, <1>11, Zenon

\* Every step of the worker, of the clock and of those who write the files.
LEMMA FilesNext ==
  ASSUME FilesInv, NextFiles
  PROVE  FilesInv'
<1>1. ASSUME NEW p \in Paths, NEW inPlace \in BOOLEAN, NEW large \in BOOLEAN, WriteFile(p, inPlace, large)
      PROVE  FilesInv'
  <2>1. disk[p] \in OnDisk
    BY Zenon DEF FilesInv, FilesTyped
  <2>2. disk[p].last + 1 \in Nat
    BY <2>1 DEF OnDisk
  <2> QED
    BY <1>1, <2>2, ChangeKeeps, Zenon DEF WriteFile
<1>2. ASSUME NEW p \in Paths, RemoveFile(p) PROVE FilesInv'
  BY <1>2, ChangeKeeps, Zenon DEF RemoveFile
<1> QED
  BY <1>1, <1>2, ClockAndStat, OtherKeeps, ServeKeeps, Zenon DEF NextFiles

-----------------------------------------------------------------------------
(* Databases *)

\* What a Sql may be.
AnySql == [mode : {"none", "handler", "async"}, result : DbNames \cup {NoDb}, rows : Nat,
           json : BOOLEAN, query : DbNames \cup {NoDb}, running : BOOLEAN]

\* What the variables of the worker's databases may be.
DatabasesTyped ==
  /\ name \in [Contexts -> DbNames] /\ databases \in [1 .. NDatabases -> Contexts \cup {NoContext}]
  /\ loaded \in BOOLEAN /\ registered \in Seq(DbNames) /\ handle \in [Contexts -> DbNames \cup {NoDb}]
  /\ free \in Seq(DbNames) /\ count \in Nat /\ lost \in Nat /\ jsons \in Nat /\ sql \in [Sqls -> AnySql]

\* Contexts are added from the first slot on, each once.
Slots == \A i, j \in 1 .. NDatabases :
           i < j /\ databases[j] # NoContext => databases[i] # NoContext /\ databases[i] # databases[j]

\* Does a name repeat among the first n slots.
Repeats(n) == \E j \in 1 .. n : \E i \in 1 .. j - 1 : name[databases[i]] = name[databases[j]]

\* A context reaches its database unless a name repeated by then.
Reaches == loaded => \A id \in 1 .. NDatabases : databases[id] # NoContext =>
                       handle[databases[id]] = IF Repeats(id) THEN NoDb ELSE name[databases[id]]

\* Whatever is of a database is of one that is registered, and only a query that was
\* given a database and waits for it has a connection.
OfRegistered ==
  /\ \A c \in Contexts : handle[c] \in Range(registered) \cup {NoDb}
  /\ Range(free) \subseteq Range(registered)
  /\ \A q \in Sqls : /\ sql[q].result \in Range(registered) \cup {NoDb}
                     /\ sql[q].query \in Range(registered) \cup {NoDb}
                     /\ sql[q].running => sql[q].query # NoDb /\ sql[q].mode = "async"

\* Connections and Json objects are counted once.
Tallied == /\ count = Len(free) + Held + lost /\ count <= PoolMax
           /\ jsons = Cardinality({q \in Sqls : sql[q].json})

\* The inductive invariant of the databases.
DatabasesInv == DatabasesTyped /\ Slots /\ Reaches /\ OfRegistered /\ Tallied

\* One for a condition that holds.
One(b) == IF b THEN 1 ELSE 0

\* Sets that agree but on q differ by q in size.
LEMMA CountOne ==
  ASSUME NEW A \in SUBSET Sqls, NEW B \in SUBSET Sqls, NEW q \in Sqls,
         \A r \in Sqls : r # q => (r \in A <=> r \in B)
  PROVE  /\ Cardinality(A) \in Nat /\ Cardinality(B) \in Nat
         /\ Cardinality(B) + One(q \in A) = Cardinality(A) + One(q \in B)
<1>1. IsFiniteSet(A) /\ IsFiniteSet(B)
  BY FS_Subset, DatabasesAssumption, Zenon
<1>2. Cardinality(A) \in Nat /\ Cardinality(B) \in Nat
  BY <1>1, FS_CardinalityType, Zenon
<1>3. ASSUME NEW C \in SUBSET Sqls, NEW D \in SUBSET Sqls, IsFiniteSet(C), IsFiniteSet(D), q \in C, q \notin D,
             \A r \in Sqls : r # q => (r \in C <=> r \in D)
      PROVE  Cardinality(C) = Cardinality(D) + 1
  <2>1. C = D \cup {q}
    BY <1>3, Zenon
  <2> QED
    BY <1>3, <2>1, FS_AddElement, Zenon
<1>4. CASE q \in A /\ q \in B
  <2>1. A = B
    BY <1>4
  <2> QED
    BY <1>2, <1>4, <2>1, Zenon DEF One
<1>5. CASE q \notin A /\ q \notin B
  <2>1. A = B
    BY <1>5
  <2> QED
    BY <1>2, <1>5, <2>1, Zenon DEF One
<1>6. CASE q \in A /\ q \notin B
  <2>1. Cardinality(A) = Cardinality(B) + 1
    BY <1>1, <1>3, <1>6, Zenon
  <2> QED
    BY <1>2, <1>6, <2>1 DEF One
<1>7. CASE q \notin A /\ q \in B
  <2>1. Cardinality(B) = Cardinality(A) + 1
    BY <1>1, <1>3, <1>7, Zenon
  <2> QED
    BY <1>2, <1>7, <2>1 DEF One
<1> QED
  BY <1>4, <1>5, <1>6, <1>7, Zenon

\* A step that makes s of the Sql q gives and takes as many connections and Json objects.
Accounted(q, s) ==
  /\ count' + Len(free) + lost + One(sql[q].result # NoDb) + One(sql[q].running)
       = count + Len(free') + lost' + One(s.result # NoDb) + One(s.running)
  /\ jsons' + One(sql[q].json) = jsons + One(s.json)

\* Two balances of connections, before and after a change.
LEMMA Balance ==
  ASSUME NEW c \in Nat, NEW c2 \in Nat, NEW l \in Nat, NEW l2 \in Nat, NEW n \in Nat, NEW n2 \in Nat,
         NEW a \in Nat, NEW a2 \in Nat, NEW b \in Nat, NEW b2 \in Nat,
         NEW x1 \in Nat, NEW x2 \in Nat, NEW y1 \in Nat, NEW y2 \in Nat,
         c2 + n + l + x1 + y1 = c + n2 + l2 + x2 + y2, c = n + (a + b) + l,
         a2 + x1 = a + x2, b2 + y1 = b + y2
  PROVE  c2 = n2 + (a2 + b2) + l2
  OBVIOUS

\* A step that changes one Sql keeps the invariant when it accounts for what it changes.
LEMMA SqlKeeps ==
  ASSUME DatabasesInv, NEW q \in Sqls, NEW s \in AnySql, sql' = [sql EXCEPT ![q] = s], UNCHANGED places,
         free' \in Seq(DbNames), Range(free') \subseteq Range(registered),
         count' \in Nat, lost' \in Nat, jsons' \in Nat, count' <= PoolMax,
         s.result \in Range(registered) \cup {NoDb}, s.query \in Range(registered) \cup {NoDb},
         s.running => s.query # NoDb /\ s.mode = "async", Accounted(q, s)
  PROVE  DatabasesInv'
<1>1. DatabasesTyped /\ Slots /\ Reaches /\ OfRegistered /\ Tallied
  BY Zenon DEF DatabasesInv
<1>2. UNCHANGED <<name, databases, loaded, registered, handle>>
  BY Zenon DEF places
<1>3. sql \in [Sqls -> AnySql]
  BY <1>1, Zenon DEF DatabasesTyped
<1>4. sql' \in [Sqls -> AnySql] /\ sql'[q] = s /\ \A r \in Sqls : r # q => sql'[r] = sql[r]
  BY <1>3, Zenon
<1>5. DatabasesTyped'
  BY <1>1, <1>2, <1>4, Zenon DEF DatabasesTyped
<1>6. Slots' /\ Reaches'
  BY <1>1, <1>2, Zenon DEF Slots, Reaches, Repeats
<1>7. OfRegistered'
  <2>1. \A r \in Sqls : /\ sql'[r].result \in Range(registered) \cup {NoDb}
                        /\ sql'[r].query \in Range(registered) \cup {NoDb}
                        /\ sql'[r].running => sql'[r].query # NoDb /\ sql'[r].mode = "async"
    BY <1>1, <1>4, Zenon DEF OfRegistered
  <2> QED
    BY <1>1, <1>2, <2>1, Zenon DEF OfRegistered
<1>8. PICK a, b, j : /\ a = Cardinality({r \in Sqls : sql[r].result # NoDb})
                     /\ b = Cardinality({r \in Sqls : sql[r].running})
                     /\ j = Cardinality({r \in Sqls : sql[r].json})
  BY Zenon
<1>9. PICK a2, b2, j2 : /\ a2 = Cardinality({r \in Sqls : sql'[r].result # NoDb})
                        /\ b2 = Cardinality({r \in Sqls : sql'[r].running})
                        /\ j2 = Cardinality({r \in Sqls : sql'[r].json})
  BY Zenon
<1>10. a \in Nat /\ a2 \in Nat /\ a2 + One(sql[q].result # NoDb) = a + One(s.result # NoDb)
  <2>1. PICK A, B : A = {r \in Sqls : sql[r].result # NoDb} /\ B = {r \in Sqls : sql'[r].result # NoDb}
    BY Zenon
  <2>2. A \in SUBSET Sqls /\ B \in SUBSET Sqls /\ \A r \in Sqls : r # q => (r \in A <=> r \in B)
    BY <1>4, <2>1, Zenon
  <2>3. (q \in A <=> sql[q].result # NoDb) /\ (q \in B <=> s.result # NoDb)
    BY <1>4, <2>1, Zenon
  <2>4. One(q \in A) = One(sql[q].result # NoDb) /\ One(q \in B) = One(s.result # NoDb)
    BY <2>3, Zenon DEF One
  <2>5. /\ Cardinality(A) \in Nat /\ Cardinality(B) \in Nat
        /\ Cardinality(B) + One(q \in A) = Cardinality(A) + One(q \in B)
    BY <2>2, CountOne
  <2> QED
    BY <1>8, <1>9, <2>1, <2>4, <2>5, Zenon
<1>11. b \in Nat /\ b2 \in Nat /\ b2 + One(sql[q].running) = b + One(s.running)
  <2>1. PICK A, B : A = {r \in Sqls : sql[r].running} /\ B = {r \in Sqls : sql'[r].running}
    BY Zenon
  <2>2. A \in SUBSET Sqls /\ B \in SUBSET Sqls /\ \A r \in Sqls : r # q => (r \in A <=> r \in B)
    BY <1>4, <2>1, Zenon
  <2>3. (q \in A <=> sql[q].running) /\ (q \in B <=> s.running)
    BY <1>4, <2>1, Zenon
  <2>4. One(q \in A) = One(sql[q].running) /\ One(q \in B) = One(s.running)
    BY <2>3, Zenon DEF One
  <2>5. /\ Cardinality(A) \in Nat /\ Cardinality(B) \in Nat
        /\ Cardinality(B) + One(q \in A) = Cardinality(A) + One(q \in B)
    BY <2>2, CountOne, Zenon
  <2> QED
    BY <1>8, <1>9, <2>1, <2>4, <2>5, Zenon
<1>12. j \in Nat /\ j2 \in Nat /\ j2 + One(sql[q].json) = j + One(s.json)
  <2>1. PICK A, B : A = {r \in Sqls : sql[r].json} /\ B = {r \in Sqls : sql'[r].json}
    BY Zenon
  <2>2. A \in SUBSET Sqls /\ B \in SUBSET Sqls /\ \A r \in Sqls : r # q => (r \in A <=> r \in B)
    BY <1>4, <2>1, Zenon
  <2>3. (q \in A <=> sql[q].json) /\ (q \in B <=> s.json)
    BY <1>4, <2>1, Zenon
  <2>4. One(q \in A) = One(sql[q].json) /\ One(q \in B) = One(s.json)
    BY <2>3, Zenon DEF One
  <2>5. /\ Cardinality(A) \in Nat /\ Cardinality(B) \in Nat
        /\ Cardinality(B) + One(q \in A) = Cardinality(A) + One(q \in B)
    BY <2>2, CountOne, Zenon
  <2> QED
    BY <1>8, <1>9, <2>1, <2>4, <2>5, Zenon
<1>13. Held = a + b /\ Held' = a2 + b2
  BY <1>8, <1>9, Zenon DEF Held
<1>14. count = Len(free) + Held + lost /\ jsons = j /\ count \in Nat /\ lost \in Nat /\ jsons \in Nat
  BY <1>1, <1>8, Zenon DEF Tallied, DatabasesTyped
<1>15. PICK x1, x2, y1, y2, z1, z2 : /\ x1 = One(sql[q].result # NoDb) /\ x2 = One(s.result # NoDb)
                                     /\ y1 = One(sql[q].running) /\ y2 = One(s.running)
                                     /\ z1 = One(sql[q].json) /\ z2 = One(s.json)
  BY Zenon
<1>16. x1 \in Nat /\ x2 \in Nat /\ y1 \in Nat /\ y2 \in Nat /\ z1 \in Nat /\ z2 \in Nat
  BY <1>15, Zenon DEF One
<1>17. PICK n \in Nat, n2 \in Nat : n = Len(free) /\ n2 = Len(free')
  <2>1. free \in Seq(DbNames)
    BY <1>1, Zenon DEF DatabasesTyped
  <2>2. Len(free) \in Nat /\ Len(free') \in Nat
    BY <2>1
  <2> QED
    BY <2>2, Zenon
<1>18. count' = n2 + (a2 + b2) + lost'
  <2>1. count' + n + lost + x1 + y1 = count + n2 + lost' + x2 + y2
    BY <1>15, <1>17, Zenon DEF Accounted
  <2>2. count = n + (a + b) + lost /\ a2 + x1 = a + x2 /\ b2 + y1 = b + y2
    BY <1>10, <1>11, <1>13, <1>14, <1>15, <1>17
  <2>3. PICK c \in Nat, c2 \in Nat, l \in Nat, l2 \in Nat : c = count /\ c2 = count' /\ l = lost /\ l2 = lost'
    BY <1>14, Zenon
  <2>4. c2 + n + l + x1 + y1 = c + n2 + l2 + x2 + y2 /\ c = n + (a + b) + l
    BY <2>1, <2>2, <2>3, SMTT(30)
  <2>5. c2 = n2 + (a2 + b2) + l2
    <3>1. /\ a \in Nat /\ a2 \in Nat /\ b \in Nat /\ b2 \in Nat
          /\ x1 \in Nat /\ x2 \in Nat /\ y1 \in Nat /\ y2 \in Nat
          /\ n \in Nat /\ n2 \in Nat /\ c \in Nat /\ c2 \in Nat /\ l \in Nat /\ l2 \in Nat
      BY <1>10, <1>11, <1>16, Zenon
    <3> QED
      BY <2>2, <2>4, <3>1, Balance, SMTT(30)
  <2> QED
    BY <2>3, <2>5, Zenon
<1>19. jsons' = j2
  <2>1. PICK k \in Nat : k = jsons'
    BY Zenon
  <2>2. k + z1 = j + z2 /\ j2 + z1 = j + z2
    BY <1>12, <1>14, <1>15, <2>1, ZenonT(60) DEF Accounted
  <2>3. k = j2
    BY <1>12, <1>16, <2>2
  <2> QED
    BY <2>1, <2>3, Zenon
<1>20. Tallied'
  BY <1>9, <1>13, <1>17, <1>18, <1>19, Zenon DEF Tallied
<1> QED
  BY <1>5, <1>6, <1>7, <1>20, Zenon DEF DatabasesInv

\* Before the workers start nothing is registered, held or counted.
LEMMA DatabasesInit == InitDatabases => DatabasesInv
<1> SUFFICES ASSUME InitDatabases PROVE DatabasesInv
  BY Zenon
<1>1. /\ name \in [Contexts -> DbNames] /\ databases = [i \in 1 .. NDatabases |-> NoContext]
      /\ loaded = FALSE /\ handle = [c \in Contexts |-> NoDb] /\ count = 0 /\ lost = 0 /\ jsons = 0
      /\ registered = <<>> /\ free = <<>> /\ sql = [q \in Sqls |-> NoSql]
  BY Zenon DEF InitDatabases
<1>2. registered \in Seq(DbNames) /\ free \in Seq(DbNames) /\ Len(free) = 0 /\ Range(free) = {}
  BY <1>1 DEF Range
<1>3. /\ NoSql \in AnySql /\ NoSql.result = NoDb /\ NoSql.query = NoDb /\ NoSql.json = FALSE
      /\ NoSql.running = FALSE
  BY Zenon DEF NoSql, AnySql
<1>4. sql \in [Sqls -> AnySql] /\ \A q \in Sqls : sql[q] = NoSql
  BY <1>1, <1>3, Zenon
<1>5. DatabasesTyped
  BY <1>1, <1>2, <1>4, Zenon DEF DatabasesTyped
<1>6. Slots /\ Reaches /\ OfRegistered
  BY <1>1, <1>2, <1>3, <1>4, Zenon DEF Slots, Reaches, OfRegistered
<1>7. {q \in Sqls : sql[q].result # NoDb} = {} /\ {q \in Sqls : sql[q].running} = {} /\ {q \in Sqls : sql[q].json} = {}
  BY <1>3, <1>4, Zenon
<1>8. Held = 0 /\ Cardinality({q \in Sqls : sql[q].json}) = 0
  BY <1>7, FS_EmptySet DEF Held
<1>9. Tallied
  BY <1>1, <1>2, <1>8, DatabasesAssumption DEF Tallied
<1> QED
  BY <1>5, <1>6, <1>9, Zenon DEF DatabasesInv

\* DbManager::add takes the first empty slot, for a context that has none.
LEMMA AddKeeps ==
  ASSUME DatabasesInv, NEW c \in Contexts, add(c)
  PROVE  DatabasesInv'
<1>1. DatabasesTyped /\ Slots /\ Reaches /\ OfRegistered /\ Tallied
  BY Zenon DEF DatabasesInv
<1>2. PICK empty : empty = {i \in 1 .. NDatabases : databases[i] = NoContext}
  BY Zenon
<1>3. PICK k : k = CHOOSE i \in empty : \A j \in empty : i <= j
  BY Zenon
<1>4. /\ ~loaded /\ {i \in 1 .. NDatabases : databases[i] = c} = {} /\ empty # {}
      /\ databases' = [databases EXCEPT ![k] = c]
      /\ UNCHANGED <<name, loaded, registered, handle, free, count, sql, jsons, lost>>
  BY <1>2, <1>3, Zenon DEF add
<1>5. empty \in SUBSET Nat /\ NDatabases \in Nat
  BY <1>2, DatabasesAssumption
<1>6. \E i \in empty : \A j \in empty : i <= j
  BY <1>4, <1>5, Least, Zenon
<1>7. k \in empty /\ \A j \in empty : k <= j
  BY <1>3, <1>6, Zenon
<1>8. k \in 1 .. NDatabases /\ databases[k] = NoContext
  BY <1>2, <1>7, Zenon
<1>9. \A i \in 1 .. NDatabases : i < k => databases[i] # NoContext
  BY <1>2, <1>5, <1>7, <1>8
<1>10. \A i \in 1 .. NDatabases : databases[i] # c
  BY <1>4, Zenon
<1>11. databases \in [1 .. NDatabases -> Contexts \cup {NoContext}]
  BY <1>1, Zenon DEF DatabasesTyped
<1>12. /\ databases' \in [1 .. NDatabases -> Contexts \cup {NoContext}] /\ databases'[k] = c
       /\ \A i \in 1 .. NDatabases : i # k => databases'[i] = databases[i]
  BY <1>4, <1>8, <1>11, Zenon
<1>13. DatabasesTyped'
  BY <1>1, <1>4, <1>12, Zenon DEF DatabasesTyped
<1>14. Slots'
  <2>1. ASSUME NEW i \in 1 .. NDatabases, NEW j \in 1 .. NDatabases, i < j, databases'[j] # NoContext
        PROVE  databases'[i] # NoContext /\ databases'[i] # databases'[j]
    <3>1. c # NoContext
      BY DatabasesAssumption, Zenon
    <3>2. CASE j = k
      <4>1. i # k /\ databases[i] # NoContext
        BY <1>9, <2>1, <3>2
      <4> QED
        BY <1>10, <1>12, <3>2, <4>1, Zenon
    <3>3. CASE j # k /\ i = k
      BY <1>10, <1>12, <3>1, <3>3, Zenon
    <3>4. CASE j # k /\ i # k
      BY <1>1, <1>12, <2>1, <3>4, Zenon DEF Slots
    <3> QED
      BY <3>2, <3>3, <3>4, Zenon
  <2> QED
    BY <2>1, Zenon DEF Slots
<1>15. Reaches' /\ OfRegistered' /\ Tallied'
  BY <1>1, <1>4, Zenon DEF Reaches, OfRegistered, Tallied, Held
<1> QED
  BY <1>13, <1>14, <1>15, Zenon DEF DatabasesInv

\* An idle connection that is taken is one less.
LEMMA Taken ==
  ASSUME NEW f \in Seq(DbNames), NEW d \in Range(f)
  PROVE  /\ Unlink(f, d) \in Seq(DbNames) /\ Len(Unlink(f, d)) + 1 = Len(f)
         /\ Range(Unlink(f, d)) \subseteq Range(f)
<1>1. \E i \in 1 .. Len(f) : f[i] = d
  BY DEF Range
<1>2. PICK I : I = {i \in 1 .. Len(f) : f[i] = d}
  BY Zenon
<1>3. I \in SUBSET Nat /\ I # {}
  BY <1>1, <1>2
<1>4. PICK k : k = Min(I)
  BY Zenon
<1>5. k \in I
  <2>1. \E i \in I : \A j \in I : i <= j
    BY <1>3, Least, Zenon
  <2> QED
    BY <1>4, <2>1, Zenon DEF Min
<1>6. Search(f, LAMBDA v : v = d) = k
  BY <1>2, <1>3, <1>4, Zenon DEF Search
<1>7. Unlink(f, d) = Delete(f, k)
  BY <1>1, <1>6, Zenon DEF Unlink
<1>8. k \in 1 .. Len(f) /\ Len(f) \in Nat
  BY <1>2, <1>5
<1>9. PICK a, b : a = SubSeq(f, 1, k - 1) /\ b = SubSeq(f, k + 1, Len(f))
  BY Zenon
<1>10. /\ a \in Seq(DbNames) /\ Len(a) = k - 1 /\ \A i \in 1 .. k - 1 : a[i] = f[i]
  BY <1>8, <1>9
<1>11. /\ b \in Seq(DbNames) /\ Len(b) = Len(f) - k /\ \A i \in 1 .. Len(f) - k : b[i] = f[k + i]
  BY <1>8, <1>9
<1>12. PICK r : r = a \o b
  BY Zenon
<1>13. r \in Seq(DbNames) /\ Len(r) = Len(f) - 1
  BY <1>8, <1>10, <1>11, <1>12, SMTT(30)
<1>14. ASSUME NEW i \in 1 .. Len(r) PROVE r[i] \in Range(f)
  <2>1. CASE i \in 1 .. k - 1
    <3>1. r[i] = f[i] /\ i \in 1 .. Len(f)
      BY <1>8, <1>10, <1>11, <1>12, <2>1
    <3> QED
      BY <3>1 DEF Range
  <2>2. CASE i \notin 1 .. k - 1
    <3>1. r[i] = b[i - (k - 1)] /\ i - (k - 1) \in 1 .. Len(f) - k
      BY <1>8, <1>10, <1>11, <1>12, <1>13, <2>2
    <3>2. k + (i - (k - 1)) = i + 1 /\ i + 1 \in 1 .. Len(f)
      BY <1>8, <1>13
    <3>3. r[i] = f[k + (i - (k - 1))]
      BY <1>11, <3>1, Zenon
    <3> QED
      BY <3>2, <3>3 DEF Range
  <2> QED
    BY <2>1, <2>2, Zenon
<1>15. Range(r) \subseteq Range(f)
  BY <1>14 DEF Range
<1>16. Unlink(f, d) = r
  BY <1>7, <1>9, <1>12, Zenon DEF Delete
<1> QED
  BY <1>8, <1>13, <1>15, <1>16

\* A connection that is given back is one more.
LEMMA GivenBack ==
  ASSUME NEW f \in Seq(DbNames), NEW d \in DbNames
  PROVE  Append(f, d) \in Seq(DbNames) /\ Len(Append(f, d)) = Len(f) + 1 /\ Range(Append(f, d)) = Range(f) \cup {d}
<1>1. PICK g : g = Append(f, d)
  BY Zenon
<1>2. g \in Seq(DbNames) /\ Len(g) = Len(f) + 1 /\ Len(f) \in Nat /\ g[Len(f) + 1] = d /\ \A i \in 1 .. Len(f) : g[i] = f[i]
  BY <1>1
<1>3. \A i \in 1 .. Len(g) : i \in 1 .. Len(f) \/ i = Len(f) + 1
  BY <1>2
<1>4. Len(f) + 1 \in 1 .. Len(g) /\ \A i \in 1 .. Len(f) : i \in 1 .. Len(g)
  BY <1>2
<1>5. Range(g) = Range(f) \cup {d}
  BY <1>2, <1>3, <1>4 DEF Range
<1> QED
  BY <1>1, <1>2, <1>5, Zenon

\* The parts of the invariant that the steps of a Sql use.
LEMMA DatabasesKnown ==
  ASSUME DatabasesInv
  PROVE  /\ free \in Seq(DbNames) /\ Len(free) \in Nat /\ count \in Nat /\ lost \in Nat /\ jsons \in Nat
         /\ count <= PoolMax /\ PoolMax \in Nat /\ registered \in Seq(DbNames)
         /\ sql \in [Sqls -> AnySql] /\ OfRegistered /\ Range(registered) \subseteq DbNames /\ NoDb \notin DbNames
<1>1. DatabasesTyped /\ OfRegistered /\ count <= PoolMax
  BY Zenon DEF DatabasesInv, Tallied
<1>2. free \in Seq(DbNames) /\ registered \in Seq(DbNames)
  BY <1>1, Zenon DEF DatabasesTyped
<1>3. Len(free) \in Nat /\ Range(registered) \subseteq DbNames
  BY <1>2 DEF Range
<1> QED
  BY <1>1, <1>2, <1>3, DatabasesAssumption, Zenon DEF DatabasesTyped

\* One is a number.
LEMMA OneFacts ==
  ASSUME NEW b \in BOOLEAN
  PROVE  One(b) \in Nat /\ (b => One(b) = 1) /\ (~b => One(b) = 0)
  BY Zenon DEF One

\* pgsql_conn_next: a connection to the one who asks, idle before or new.
LEMMA ConnectedFacts ==
  ASSUME DatabasesInv, NEW d \in Range(registered), CanConnect(d)
  PROVE  /\ Connected(d).free \in Seq(DbNames) /\ Range(Connected(d).free) \subseteq Range(registered)
         /\ Connected(d).count \in Nat /\ Connected(d).count <= PoolMax
         /\ Connected(d).count + Len(free) = count + Len(Connected(d).free) + 1
<1>1. Range(free) \subseteq Range(registered)
  BY DatabasesKnown, Zenon DEF OfRegistered
<1>2. CASE d \in Range(free)
  <2>1. PICK f : f = Unlink(free, d)
    BY Zenon
  <2>2. Connected(d).free = f /\ Connected(d).count = count
    BY <1>2, <2>1, Zenon DEF Connected
  <2>3. f \in Seq(DbNames) /\ Len(f) + 1 = Len(free) /\ Range(f) \subseteq Range(free)
    BY <1>2, <2>1, DatabasesKnown, Taken, Zenon
  <2>4. Len(f) \in Nat
    BY <2>3
  <2>5. count + Len(free) = count + Len(f) + 1
    BY <2>3, <2>4, DatabasesKnown
  <2> QED
    BY <1>1, <2>2, <2>3, <2>5, DatabasesKnown, Zenon
<1>3. CASE d \notin Range(free)
  <2>1. Connected(d).free = free /\ Connected(d).count = count + 1
    BY <1>3, Zenon DEF Connected
  <2>2. count < PoolMax
    BY <1>3, Zenon DEF CanConnect
  <2>3. count + 1 \in Nat /\ count + 1 <= PoolMax /\ count + 1 + Len(free) = count + Len(free) + 1
    BY <2>2, DatabasesKnown
  <2> QED
    BY <1>1, <2>1, <2>3, DatabasesKnown, Zenon
<1> QED
  BY <1>2, <1>3, Zenon

\* The result that a Sql has gives its connection back.
LEMMA GivenFacts ==
  ASSUME DatabasesInv, NEW q \in Sqls, NEW f \in Seq(DbNames), Range(f) \subseteq Range(registered)
  PROVE  /\ Given(f, sql[q]) \in Seq(DbNames) /\ Range(Given(f, sql[q])) \subseteq Range(registered)
         /\ Len(Given(f, sql[q])) = Len(f) + One(sql[q].result # NoDb)
<1>1. Len(f) \in Nat
  OBVIOUS
<1>2. sql[q].result \in Range(registered) \cup {NoDb}
  BY DatabasesKnown, Zenon DEF OfRegistered
<1>3. CASE sql[q].result = NoDb
  BY <1>1, <1>3 DEF Given, One
<1>4. CASE sql[q].result # NoDb
  <2>1. PICK d \in DbNames : d = sql[q].result /\ d \in Range(registered)
    BY <1>2, <1>4, DatabasesKnown, Zenon
  <2>2. Given(f, sql[q]) = Append(f, d)
    BY <1>4, <2>1, Zenon DEF Given
  <2>3. One(sql[q].result # NoDb) = 1
    BY <1>4, Zenon DEF One
  <2>4. Append(f, d) \in Seq(DbNames) /\ Len(Append(f, d)) = Len(f) + 1 /\ Range(Append(f, d)) = Range(f) \cup {d}
    BY GivenBack, Zenon
  <2> QED
    BY <2>1, <2>2, <2>3, <2>4, Zenon
<1> QED
  BY <1>3, <1>4, Zenon

\* The Json of a result is deleted with it, and it was counted.
LEMMA JsonFacts ==
  ASSUME DatabasesInv, NEW q \in Sqls
  PROVE  JsonsLess(sql[q]) \in Nat /\ JsonsLess(sql[q]) + One(sql[q].json) = jsons
<1>1. PICK A : A = {r \in Sqls : sql[r].json}
  BY Zenon
<1>2. jsons = Cardinality(A) /\ jsons \in Nat
  BY <1>1, DatabasesKnown, Zenon DEF DatabasesInv, Tallied
<1>3. CASE sql[q].json
  <2>1. A \in SUBSET Sqls /\ A \ {q} \in SUBSET Sqls /\ q \in A /\ q \notin A \ {q}
    BY <1>1, <1>3, Zenon
  <2>2. PICK B : B = A \ {q}
    BY Zenon
  <2>3. Cardinality(A) \in Nat /\ Cardinality(B) \in Nat /\ Cardinality(B) + One(q \in A) = Cardinality(A) + One(q \in B)
    BY <2>1, <2>2, CountOne
  <2>4. One(q \in A) = 1 /\ One(q \in B) = 0 /\ One(sql[q].json) = 1
    BY <1>3, <2>1, <2>2, Zenon DEF One
  <2>5. jsons >= 1
    BY <1>2, <2>3, <2>4
  <2>6. JsonsLess(sql[q]) = jsons - 1
    BY <1>3, Zenon DEF JsonsLess
  <2> QED
    BY <1>2, <2>4, <2>5, <2>6
<1>4. CASE ~sql[q].json
  <2>1. JsonsLess(sql[q]) = jsons /\ One(sql[q].json) = 0
    BY <1>4, Zenon DEF JsonsLess, One
  <2> QED
    BY <1>2, <2>1
<1> QED
  BY <1>3, <1>4, Zenon

\* A step that moves no connection: a Sql is made, changes its place or makes a Json.
LEMMA SqlOnly ==
  ASSUME DatabasesInv, NEW q \in Sqls, NEW s \in AnySql, sql' = [sql EXCEPT ![q] = s],
         UNCHANGED <<places, conns>>, jsons' \in Nat, s.result = sql[q].result,
         ~sql[q].running, ~s.running, s.query \in Range(registered) \cup {NoDb},
         jsons' + One(sql[q].json) = jsons + One(s.json)
  PROVE  DatabasesInv'
<1>1. free' = free /\ count' = count /\ lost' = lost
  BY Zenon DEF conns
<1>2. sql[q].result \in Range(registered) \cup {NoDb} /\ Range(free) \subseteq Range(registered)
  BY DatabasesKnown, Zenon DEF OfRegistered
<1>3. One(s.result # NoDb) = One(sql[q].result # NoDb) /\ One(s.running) = One(sql[q].running)
  BY Zenon DEF One
<1>4. Accounted(q, s)
  BY <1>1, <1>3, Zenon DEF Accounted
<1> QED
  BY <1>1, <1>2, <1>4, DatabasesKnown, SqlKeeps, Zenon

\* Sql::setResult: the new result in the place of the old one, which gives its connection back.
LEMMA ResultKeeps ==
  ASSUME DatabasesInv, NEW q \in Sqls, sql[q].mode = "handler", NEW f \in Seq(DbNames),
         Range(f) \subseteq Range(registered), NEW new \in AnySql, setResult(q, f, new), UNCHANGED places,
         new.result \in Range(registered) \cup {NoDb}, new.query = NoDb, ~new.running, ~new.json,
         count' \in Nat, lost' \in Nat, count' <= PoolMax,
         NEW x \in Nat, x = One(new.result # NoDb), count' + Len(free) + lost = count + Len(f) + lost' + x
  PROVE  DatabasesInv'
<1>1. sql' = [sql EXCEPT ![q] = new] /\ free' = Given(f, sql[q]) /\ jsons' = JsonsLess(sql[q])
  BY Zenon DEF setResult
<1>2. PICK r : r = One(sql[q].result # NoDb)
  BY Zenon
<1>3. r \in Nat
  BY <1>2, ZenonT(60) DEF One
<1>4. /\ free' \in Seq(DbNames) /\ Range(free') \subseteq Range(registered) /\ Len(free') = Len(f) + r
      /\ Len(free') \in Nat /\ Len(f) \in Nat
  <2>1. /\ Given(f, sql[q]) \in Seq(DbNames) /\ Range(Given(f, sql[q])) \subseteq Range(registered)
        /\ Len(Given(f, sql[q])) = Len(f) + One(sql[q].result # NoDb)
    BY GivenFacts, ZenonT(60)
  <2> QED
    BY <1>1, <1>2, <2>1, SMTT(30)
<1>5. jsons' \in Nat /\ jsons' + One(sql[q].json) = jsons + One(new.json)
  <2>1. JsonsLess(sql[q]) \in Nat /\ JsonsLess(sql[q]) + One(sql[q].json) = jsons
    BY JsonFacts, Zenon
  <2>2. One(new.json) = 0 /\ jsons \in Nat
    BY DatabasesKnown, Zenon DEF One
  <2> QED
    BY <1>1, <2>1, <2>2, SMTT(30)
<1>6. One(sql[q].running) = 0 /\ One(new.running) = 0
  <2>1. ~sql[q].running
    BY DatabasesKnown, Zenon DEF OfRegistered
  <2> QED
    BY <2>1, Zenon DEF One
<1>7. count' + Len(free) + lost + r + 0 = count + Len(free') + lost' + x + 0
  <2>1. count \in Nat /\ lost \in Nat /\ Len(free) \in Nat
    BY DatabasesKnown, Zenon
  <2>2. PICK c \in Nat, c2 \in Nat, l \in Nat, l2 \in Nat, n \in Nat, n2 \in Nat, m \in Nat :
              c = count /\ c2 = count' /\ l = lost /\ l2 = lost' /\ n = Len(free) /\ n2 = Len(free') /\ m = Len(f)
    BY <1>4, <2>1, Zenon
  <2>3. c2 + n + l = c + m + l2 + x /\ n2 = m + r
    BY <1>4, <2>2, Zenon
  <2>4. c2 + n + l + r + 0 = c + n2 + l2 + x + 0
    BY <1>3, <2>3, SMTT(30)
  <2> QED
    BY <2>2, <2>4, Zenon
<1>8. Accounted(q, new)
  BY <1>2, <1>5, <1>6, <1>7, Zenon DEF Accounted
<1> QED
  BY <1>1, <1>4, <1>5, <1>8, SqlKeeps, Zenon

\* db::query with a context's exec.
LEMMA QueryKeeps ==
  ASSUME DatabasesInv, NEW q \in Sqls, NEW id \in 0 .. NDatabases + 1, query(q, id)
  PROVE  DatabasesInv'
<1>1. PICK c : c = get(id)
  BY Zenon
<1>2. PICK d : d = handle[c]
  BY Zenon
<1>3. /\ sql[q].mode = "handler" /\ c # NoContext /\ UNCHANGED places
      /\ \/ /\ d # NoDb /\ CanConnect(d)
            /\ \/ /\ \E n \in 0 .. MaxRows : setResult(q, Connected(d).free, PgSqlResult(d, n))
                  /\ UNCHANGED lost
               \/ /\ lost < MaxLost /\ setResult(q, Connected(d).free, NoResult)
                  /\ lost' = lost + 1
            /\ count' = Connected(d).count
         \/ /\ d = NoDb \/ ~CanConnect(d)
            /\ setResult(q, free, NoResult)
            /\ UNCHANGED <<count, lost>>
  BY <1>1, <1>2, Zenon DEF query
<1>4. c \in Contexts
  <2>1. databases \in [1 .. NDatabases -> Contexts \cup {NoContext}]
    BY Zenon DEF DatabasesInv, DatabasesTyped
  <2> QED
    BY <1>1, <1>3, <2>1, Zenon DEF get
<1>5. d \in Range(registered) \cup {NoDb}
  BY <1>2, <1>4, DatabasesKnown, Zenon DEF OfRegistered
<1>6. /\ NoResult \in AnySql /\ NoResult.result = NoDb /\ NoResult.query = NoDb
      /\ NoResult.running = FALSE /\ NoResult.json = FALSE
  BY Zenon DEF NoResult, NoSql, AnySql
<1>7. One(NoResult.result # NoDb) = 0
  BY <1>6, Zenon DEF One
<1>8. count \in Nat /\ lost \in Nat /\ Len(free) \in Nat /\ count <= PoolMax
  BY DatabasesKnown, ZenonT(60)
<1>9. CASE setResult(q, free, NoResult) /\ UNCHANGED <<count, lost>>
  <2>1. count' + Len(free) + lost = count + Len(free) + lost' + 0
    BY <1>8, <1>9
  <2>2. free \in Seq(DbNames) /\ Range(free) \subseteq Range(registered)
    BY DatabasesKnown, Zenon DEF OfRegistered
  <2> QED
    BY <1>3, <1>6, <1>7, <1>8, <1>9, <2>2, ResultKeeps, SMTT(30)
<1>10. CASE d # NoDb /\ CanConnect(d) /\ count' = Connected(d).count
  <2>1. PICK f, k : f = Connected(d).free /\ k = Connected(d).count
    BY Zenon
  <2>2. /\ f \in Seq(DbNames) /\ Range(f) \subseteq Range(registered)
        /\ k \in Nat /\ k <= PoolMax /\ k + Len(free) = count + Len(f) + 1
    BY <1>5, <1>10, <2>1, ConnectedFacts, Zenon
  <2>3. Len(f) \in Nat /\ d \in Range(registered) /\ d \in DbNames
    BY <1>5, <1>10, <2>2, DatabasesKnown
  <2>4. ASSUME NEW n \in 0 .. MaxRows, setResult(q, f, PgSqlResult(d, n)), lost' = lost PROVE DatabasesInv'
    <3>1. PICK s : s = PgSqlResult(d, n)
      BY Zenon
    <3>2. s = [mode |-> "handler", result |-> d, rows |-> n, json |-> FALSE, query |-> NoDb, running |-> FALSE]
      BY <3>1, Zenon DEF PgSqlResult, NoSql
    <3>3. s \in AnySql /\ s.result = d /\ s.query = NoDb /\ s.running = FALSE /\ s.json = FALSE
      BY <2>3, <3>2 DEF AnySql
    <3>4. One(s.result # NoDb) = 1
      BY <1>10, <3>3, Zenon DEF One
    <3>5. count' + Len(free) + lost = count + Len(f) + lost' + 1
      <4>1. k + Len(free) + lost = count + Len(f) + lost + 1
        BY <1>8, <2>2, <2>3
      <4> QED
        BY <1>10, <2>1, <2>4, <4>1, Zenon
    <3>6. count' \in Nat /\ count' <= PoolMax /\ lost' \in Nat /\ setResult(q, f, s)
      BY <1>8, <1>10, <2>1, <2>2, <2>4, <3>1, ZenonT(60)
    <3> QED
      BY <1>3, <2>2, <2>3, <3>3, <3>4, <3>5, <3>6, ResultKeeps, Zenon
  <2>5. CASE setResult(q, f, NoResult) /\ lost' = lost + 1
    <3>1. count' + Len(free) + lost = count + Len(f) + lost' + 0
      <4>1. k + Len(free) + lost = count + Len(f) + (lost + 1) + 0
        BY <1>8, <2>2, <2>3
      <4> QED
        BY <1>10, <2>1, <2>5, <4>1, Zenon
    <3>2. count' \in Nat /\ count' <= PoolMax /\ lost' \in Nat
      BY <1>8, <1>10, <2>1, <2>2, <2>5
    <3> QED
      BY <1>3, <1>6, <1>7, <2>2, <2>5, <3>1, <3>2, ResultKeeps, SMTT(30)
  <2>6. \/ \E n \in 0 .. MaxRows : setResult(q, f, PgSqlResult(d, n)) /\ lost' = lost
        \/ setResult(q, f, NoResult) /\ lost' = lost + 1
        \/ setResult(q, free, NoResult) /\ UNCHANGED <<count, lost>>
    BY <1>3, <2>1, Zenon
  <2> QED
    BY <1>9, <2>4, <2>5, <2>6, Zenon
<1> QED
  BY <1>3, <1>9, <1>10, Zenon

\* A Sql is made, makes a Json of its result or goes to an asynchronous query.
LEMMA SqlMoves ==
  ASSUME DatabasesInv, NEW q \in Sqls,
         MakeSql(q) \/ toJson(q) \/ \E id \in 0 .. NDatabases + 1 : queryAsync(q, id)
  PROVE  DatabasesInv'
<1>1. /\ sql[q] \in AnySql /\ sql[q].query \in Range(registered) \cup {NoDb}
      /\ sql[q].running => sql[q].mode = "async"
  BY DatabasesKnown, Zenon DEF OfRegistered
<1>2. jsons \in Nat
  BY DatabasesKnown, Zenon
<1>3. CASE MakeSql(q)
  <2>1. /\ sql' = [sql EXCEPT ![q].mode = "handler"] /\ sql[q].mode = "none"
        /\ UNCHANGED <<places, conns>> /\ jsons' = jsons
    BY <1>3, Zenon DEF MakeSql
  <2>2. PICK s : s = [sql[q] EXCEPT !.mode = "handler"]
    BY Zenon
  <2>3. /\ s \in AnySql /\ s.result = sql[q].result /\ s.query = sql[q].query /\ s.json = sql[q].json
        /\ s.running = sql[q].running
    BY <1>1, <2>2, Zenon DEF AnySql
  <2>4. sql' = [sql EXCEPT ![q] = s] /\ ~sql[q].running /\ One(s.json) = One(sql[q].json)
    BY <1>1, <2>1, <2>2, <2>3, Zenon
  <2> QED
    BY <1>1, <1>2, <2>1, <2>3, <2>4, SqlOnly, Zenon
<1>4. CASE toJson(q)
  <2>1. /\ sql' = [sql EXCEPT ![q].json = TRUE] /\ sql[q].result # NoDb /\ ~sql[q].json
        /\ UNCHANGED <<places, conns>> /\ jsons' = jsons + 1
    BY <1>4, Zenon DEF toJson
  <2>2. PICK s : s = [sql[q] EXCEPT !.json = TRUE]
    BY Zenon
  <2>3. /\ s \in AnySql /\ s.result = sql[q].result /\ s.query = sql[q].query /\ s.json = TRUE
        /\ s.running = sql[q].running /\ s.mode = sql[q].mode
    BY <1>1, <2>2, Zenon DEF AnySql
  <2>4. sql' = [sql EXCEPT ![q] = s]
    BY <2>1, <2>2, Zenon
  <2>5. One(sql[q].json) = 0 /\ One(s.json) = 1
    BY <2>1, <2>3, Zenon DEF One
  <2>6. jsons' + One(sql[q].json) = jsons + One(s.json)
    BY <1>2, <2>1, <2>5
  <2>7. free' = free /\ count' = count /\ lost' = lost
    BY <2>1, Zenon DEF conns
  <2>8. sql[q].running => sql[q].query # NoDb /\ sql[q].mode = "async"
    BY DatabasesKnown, Zenon DEF OfRegistered
  <2>9. sql[q].result \in Range(registered) \cup {NoDb} /\ Range(free) \subseteq Range(registered)
    BY DatabasesKnown, Zenon DEF OfRegistered
  <2>10. One(s.result # NoDb) = One(sql[q].result # NoDb) /\ One(s.running) = One(sql[q].running)
    BY <2>3, Zenon
  <2>11. Accounted(q, s)
    BY <2>6, <2>7, <2>10, Zenon DEF Accounted
  <2>12. (s.running => s.query # NoDb /\ s.mode = "async") /\ UNCHANGED places /\ jsons' \in Nat
    BY <1>2, <2>1, <2>3, <2>8
  <2> QED
    BY <1>1, <2>3, <2>4, <2>7, <2>9, <2>11, <2>12, DatabasesKnown, SqlKeeps, Zenon
<1>5. ASSUME NEW id \in 0 .. NDatabases + 1, queryAsync(q, id) PROVE DatabasesInv'
  <2>1. PICK c : c = get(id)
    BY Zenon
  <2>2. PICK d : d = handle[c]
    BY Zenon
  <2>3. /\ sql[q].mode = "handler" /\ c # NoContext /\ sql' = [sql EXCEPT ![q] = PgsqlAsync(@, d)]
        /\ UNCHANGED <<places, conns>> /\ jsons' = jsons
    BY <1>5, <2>1, <2>2, Zenon DEF queryAsync
  <2>4. c \in Contexts
    <3>1. databases \in [1 .. NDatabases -> Contexts \cup {NoContext}]
      BY Zenon DEF DatabasesInv, DatabasesTyped
    <3> QED
      BY <2>1, <2>3, <3>1, Zenon DEF get
  <2>5. d \in Range(registered) \cup {NoDb} /\ d \in DbNames \cup {NoDb}
    BY <2>2, <2>4, DatabasesKnown, Zenon DEF OfRegistered
  <2>6. PICK s : s = [sql[q] EXCEPT !.mode = "async", !.query = d]
    BY Zenon
  <2>7. /\ s \in AnySql /\ s.result = sql[q].result /\ s.query = d /\ s.json = sql[q].json
        /\ s.running = sql[q].running
    BY <1>1, <2>5, <2>6, Zenon DEF AnySql
  <2>8. sql' = [sql EXCEPT ![q] = s] /\ ~sql[q].running /\ One(s.json) = One(sql[q].json)
    BY <1>1, <2>3, <2>6, <2>7, Zenon DEF PgsqlAsync
  <2> QED
    BY <1>2, <2>3, <2>5, <2>7, <2>8, SqlOnly, Zenon
<1> QED
  BY <1>3, <1>4, <1>5, Zenon

\* pgsql_async_init got a connection.
LEMMA AsyncKeeps ==
  ASSUME DatabasesInv, NEW q \in Sqls, AsyncRuns(q)
  PROVE  DatabasesInv'
<1>1. PICK d : d = sql[q].query
  BY Zenon
<1>2. /\ sql[q].mode = "async" /\ d # NoDb /\ ~sql[q].running /\ CanConnect(d)
      /\ sql' = [sql EXCEPT ![q].running = TRUE] /\ free' = Connected(d).free /\ count' = Connected(d).count
      /\ UNCHANGED <<places, jsons, lost>>
  BY <1>1, Zenon DEF AsyncRuns
<1>3. /\ sql[q] \in AnySql /\ d \in Range(registered) /\ sql[q].result \in Range(registered) \cup {NoDb}
  BY <1>1, <1>2, DatabasesKnown, Zenon DEF OfRegistered
<1>4. /\ free' \in Seq(DbNames) /\ Range(free') \subseteq Range(registered)
      /\ count' \in Nat /\ count' <= PoolMax /\ count' + Len(free) = count + Len(free') + 1
  BY <1>2, <1>3, ConnectedFacts, Zenon
<1>5. PICK s : s = [sql[q] EXCEPT !.running = TRUE]
  BY Zenon
<1>6. /\ s \in AnySql /\ s.result = sql[q].result /\ s.query = d /\ s.json = sql[q].json
      /\ s.running = TRUE /\ s.mode = "async"
  BY <1>1, <1>2, <1>3, <1>5, Zenon DEF AnySql
<1>7. sql' = [sql EXCEPT ![q] = s]
  BY <1>2, <1>5, Zenon
<1>8. PICK r : r = One(sql[q].result # NoDb)
  BY Zenon
<1>9. /\ r \in Nat /\ One(s.result # NoDb) = r /\ One(s.json) = One(sql[q].json)
      /\ One(sql[q].running) = 0 /\ One(s.running) = 1
  BY <1>2, <1>6, <1>8, Zenon DEF One
<1>10. Len(free') \in Nat /\ Len(free) \in Nat /\ count \in Nat /\ lost \in Nat /\ jsons \in Nat
  BY <1>4, DatabasesKnown
<1>11. count' + Len(free) + lost + r + 0 = count + Len(free') + lost' + r + 1
  BY <1>2, <1>4, <1>9, <1>10, SMTT(30)
<1>12. Accounted(q, s)
  BY <1>2, <1>8, <1>9, <1>11, Zenon DEF Accounted
<1> QED
  BY <1>2, <1>3, <1>4, <1>6, <1>7, <1>10, <1>12, SqlKeeps, Zenon

\* ~Sql: what it holds goes back.
LEMMA DiscardKeeps ==
  ASSUME DatabasesInv, NEW q \in Sqls, Discard(q)
  PROVE  DatabasesInv'
<1>1. PICK f : f = IF sql[q].running THEN Append(free, sql[q].query) ELSE free
  BY Zenon
<1>2. /\ sql' = [sql EXCEPT ![q] = NoSql] /\ free' = Given(f, sql[q]) /\ jsons' = JsonsLess(sql[q])
      /\ UNCHANGED <<places, count, lost>>
  BY <1>1, Zenon DEF Discard
<1>3. /\ sql[q] \in AnySql /\ sql[q].query \in Range(registered) \cup {NoDb}
      /\ sql[q].running => sql[q].query # NoDb
      /\ Range(free) \subseteq Range(registered) /\ free \in Seq(DbNames) /\ Len(free) \in Nat
  BY DatabasesKnown, Zenon DEF OfRegistered
<1>4. PICK r, a : r = One(sql[q].result # NoDb) /\ a = One(sql[q].running)
  BY Zenon
<1>5. r \in Nat /\ a \in Nat
  BY <1>4, Zenon DEF One
<1>6. f \in Seq(DbNames) /\ Range(f) \subseteq Range(registered) /\ Len(f) = Len(free) + a
  <2>1. CASE sql[q].running
    <3>1. PICK d \in DbNames : d = sql[q].query /\ d \in Range(registered)
      BY <1>3, <2>1, DatabasesKnown, Zenon
    <3>2. f = Append(free, d) /\ a = 1
      BY <1>1, <1>4, <2>1, <3>1, Zenon DEF One
    <3>3. Append(free, d) \in Seq(DbNames) /\ Len(Append(free, d)) = Len(free) + 1 /\ Range(Append(free, d)) = Range(free) \cup {d}
      BY <1>3, GivenBack, Zenon
    <3> QED
      BY <1>3, <3>1, <3>2, <3>3, Zenon
  <2>2. CASE ~sql[q].running
    <3>1. f = free /\ a = 0
      BY <1>1, <1>4, <2>2, Zenon DEF One
    <3> QED
      BY <1>3, <3>1
  <2> QED
    BY <2>1, <2>2, Zenon
<1>7. Len(f) \in Nat
  BY <1>6
<1>8. /\ free' \in Seq(DbNames) /\ Range(free') \subseteq Range(registered) /\ Len(free') = Len(f) + r
  BY <1>2, <1>4, <1>6, GivenFacts, Zenon
<1>9. /\ NoSql \in AnySql /\ NoSql.result = NoDb /\ NoSql.query = NoDb /\ NoSql.running = FALSE /\ NoSql.json = FALSE
  BY Zenon DEF NoSql, AnySql
<1>10. One(NoSql.result # NoDb) = 0 /\ One(NoSql.running) = 0 /\ One(NoSql.json) = 0
  BY <1>9, Zenon DEF One
<1>11. count \in Nat /\ lost \in Nat /\ jsons \in Nat /\ count <= PoolMax
  BY DatabasesKnown, Zenon
<1>12. count' + Len(free) + lost + r + a = count + Len(free') + lost' + 0 + 0
  <2>1. PICK n \in Nat, n2 \in Nat : n = Len(free) /\ n2 = Len(free') /\ n2 = n + a + r
    <3>1. Len(free') = Len(free) + a + r
      BY <1>6, <1>8, Zenon
    <3>2. Len(free') \in Nat
      BY <1>8
    <3> QED
      BY <1>3, <3>1, <3>2, Zenon
  <2>2. count + n + lost + r + a = count + n2 + lost + 0 + 0
    BY <1>5, <1>11, <2>1, SMTT(30)
  <2> QED
    BY <1>2, <2>1, <2>2, Zenon
<1>13. jsons' \in Nat /\ jsons' + One(sql[q].json) = jsons + One(NoSql.json)
  <2>1. JsonsLess(sql[q]) \in Nat /\ JsonsLess(sql[q]) + One(sql[q].json) = jsons
    BY JsonFacts, Zenon
  <2> QED
    BY <1>2, <1>10, <1>11, <2>1, SMTT(30)
<1>14. Accounted(q, NoSql)
  BY <1>4, <1>10, <1>12, <1>13, Zenon DEF Accounted
<1> QED
  BY <1>2, <1>8, <1>9, <1>11, <1>13, <1>14, SqlKeeps, Zenon

\* Induction over 0 .. n.
LEMMA Upto ==
  ASSUME NEW n \in Nat, NEW T, 0 \in T, \A i \in 0 .. n - 1 : i \in T => i + 1 \in T
  PROVE  \A i \in 0 .. n : i \in T
<1> DEFINE U == {i \in 0 .. n : i \notin T}
<1>1. SUFFICES ASSUME U # {} PROVE FALSE
  BY Zenon
<1>2. U \in SUBSET Nat
  OBVIOUS
<1> HIDE DEF U
<1>3. PICK m \in U : \A k \in U : m <= k
  BY <1>1, <1>2, Least, Zenon
<1>4. m \in 0 .. n /\ m \notin T
  BY Zenon DEF U
<1>5. m - 1 \in 0 .. n - 1
  BY <1>4
<1>6. m - 1 \in T
  BY <1>3, <1>5 DEF U
<1> QED
  BY <1>4, <1>5, <1>6

\* There is a function that runs through the slots, so InitSlots is it.
LEMMA SlotByName ==
  /\ InitSlots[0] = NoneYet
  /\ \A k \in 1 .. NDatabases : InitSlots[k] = InitSlot(InitSlots[k - 1], databases[k])
<1> DEFINE Run(g, n) == g = [k \in 0 .. n |-> IF k = 0 THEN NoneYet ELSE InitSlot(g[k - 1], databases[k])]
           T == {n \in 0 .. NDatabases : \E g : Run(g, n)}
<1>1. NDatabases \in Nat
  BY DatabasesAssumption, Zenon
<1>2. 0 \in T
  <2> DEFINE h == [k \in 0 .. 0 |-> NoneYet]
  <2>1. Run(h, 0)
    OBVIOUS
  <2> HIDE DEF Run, h
  <2> QED
    BY <1>1, <2>1
<1>3. ASSUME NEW n \in 0 .. NDatabases - 1, n \in T PROVE n + 1 \in T
  <2>1. PICK g : Run(g, n)
    BY <1>3, Zenon
  <2> DEFINE h == [k \in 0 .. n + 1 |-> IF k = n + 1 THEN InitSlot(g[n], databases[n + 1]) ELSE g[k]]
  <2>2. \A k \in 0 .. n : g[k] = IF k = 0 THEN NoneYet ELSE InitSlot(g[k - 1], databases[k])
    BY <2>1, Zenon
  <2>3. ASSUME NEW k \in 0 .. n + 1
        PROVE  h[k] = IF k = 0 THEN NoneYet ELSE InitSlot(h[k - 1], databases[k])
    <3>1. CASE k = n + 1
      <4>1. k # 0 /\ k - 1 = n /\ n \in 0 .. n + 1 /\ n # n + 1
        BY <3>1
      <4>2. h[k] = InitSlot(g[n], databases[n + 1]) /\ h[n] = g[n]
        BY <3>1, <4>1, Zenon
      <4> HIDE DEF h
      <4> QED
        BY <3>1, <4>1, <4>2, Zenon
    <3>2. CASE k # n + 1
      <4>1. k \in 0 .. n
        BY <3>2
      <4>2. h[k] = g[k]
        BY <3>2, Zenon
      <4>3. k # 0 => k - 1 \in 0 .. n + 1 /\ k - 1 # n + 1
        BY <4>1
      <4>4. k # 0 => h[k - 1] = g[k - 1]
        BY <4>3, Zenon
      <4> HIDE DEF h
      <4> QED
        BY <2>2, <4>1, <4>2, <4>4, Zenon
    <3> QED
      BY <3>1, <3>2, Zenon
  <2>4. h = [k \in 0 .. n + 1 |-> h[k]]
    BY Zenon
  <2> HIDE DEF h
  <2>5. Run(h, n + 1)
    BY <2>3, <2>4, Zenon
  <2> HIDE DEF Run
  <2>6. n + 1 \in 0 .. NDatabases
    BY <1>1
  <2> QED
    BY <2>5, <2>6, Zenon
<1>4. PICK g : Run(g, NDatabases)
  <2> HIDE DEF Run
  <2>1. \A i \in 0 .. NDatabases : i \in T
    <3> HIDE DEF T
    <3> QED
      BY <1>1, <1>2, <1>3, Upto, Zenon
  <2>2. NDatabases \in T
    BY <1>1, <2>1
  <2> QED
    BY <2>2, Zenon
<1> DEFINE F(e) == [k \in 0 .. NDatabases |-> IF k = 0 THEN NoneYet ELSE InitSlot(e[k - 1], databases[k])]
<1>5. g = F(g)
  BY <1>4, Zenon
<1>6. InitSlots = CHOOSE e : e = F(e)
  BY Zenon DEF InitSlots
<1>7. InitSlots = F(InitSlots)
  <2> HIDE DEF F
  <2> QED
    BY <1>5, <1>6, Zenon
<1> DEFINE E == InitSlots
<1> HIDE DEF E
<1>8. E = F(E)
  BY <1>7, Zenon DEF E
<1>9. \A k \in 0 .. NDatabases : E[k] = IF k = 0 THEN NoneYet ELSE InitSlot(E[k - 1], databases[k])
  BY <1>8, Zenon
<1>10. 0 \in 0 .. NDatabases /\ \A k \in 1 .. NDatabases : k \in 0 .. NDatabases /\ k # 0
  BY <1>1
<1> QED
  BY <1>9, <1>10, Zenon DEF E

\* A name that is registered is put in front.
LEMMA Prepended ==
  ASSUME NEW n \in DbNames, NEW s \in Seq(DbNames)
  PROVE  <<n>> \o s \in Seq(DbNames) /\ Range(<<n>> \o s) = Range(s) \cup {n}
<1>1. PICK g : g = <<n>> \o s
  BY Zenon
<1>2. <<n>> \in Seq(DbNames) /\ Len(<<n>>) = 1 /\ <<n>>[1] = n
  OBVIOUS
<1>3. g \in Seq(DbNames) /\ Len(g) = Len(s) + 1 /\ Len(s) \in Nat
  BY <1>1, <1>2
<1>4. g[1] = n /\ \A i \in 1 .. Len(s) : g[i + 1] = s[i]
  BY <1>1, <1>2
<1>5. \A j \in 1 .. Len(g) : j = 1 \/ (j - 1 \in 1 .. Len(s) /\ (j - 1) + 1 = j)
  BY <1>3
<1>6. 1 \in 1 .. Len(g) /\ \A i \in 1 .. Len(s) : i + 1 \in 1 .. Len(g)
  BY <1>3
<1>7. ASSUME NEW j \in 1 .. Len(g) PROVE g[j] \in Range(s) \cup {n}
  <2>1. CASE j = 1
    BY <1>4, <2>1, Zenon
  <2>2. CASE j # 1
    <3>1. j - 1 \in 1 .. Len(s) /\ (j - 1) + 1 = j
      BY <1>5, <2>2, Zenon
    <3>2. g[(j - 1) + 1] = s[j - 1]
      BY <1>4, <3>1, Zenon
    <3> QED
      BY <3>1, <3>2 DEF Range
  <2> QED
    BY <2>1, <2>2, Zenon
<1>8. Range(g) \subseteq Range(s) \cup {n}
  BY <1>7 DEF Range
<1>9. n \in Range(g) /\ \A i \in 1 .. Len(s) : s[i] \in Range(g)
  BY <1>4, <1>6, SMTT(30) DEF Range
<1>10. Range(s) \cup {n} \subseteq Range(g)
  BY <1>9 DEF Range
<1> QED
  BY <1>1, <1>3, <1>8, <1>10, Zenon

\* What the registration may be after some slots.
Loading == [ok : BOOLEAN, db : DbNames \cup {NoDb}, registered : Seq(DbNames), handle : [Contexts -> DbNames \cup {NoDb}]]

\* What the first k slots leave: the registration goes on as long as no name repeats, the
\* names so far are registered, and every context of them has its database or none.
LoadedTo(l, k) ==
  /\ l \in Loading
  /\ l.ok <=> ~\E j \in 1 .. k : databases[j] # NoContext /\ \E i \in 1 .. j - 1 : name[databases[i]] = name[databases[j]]
  /\ l.ok => Range(l.registered) = {name[databases[i]] : i \in {j \in 1 .. k : databases[j] # NoContext}}
  /\ \A c \in Contexts : l.handle[c] \in Range(l.registered) \cup {NoDb}
  /\ \A c \in Contexts : (\A i \in 1 .. k : databases[i] # c) => l.handle[c] = NoDb
  /\ \A id \in 1 .. k : databases[id] # NoContext =>
       l.handle[databases[id]] = IF Repeats(id) THEN NoDb ELSE name[databases[id]]

\* One slot more.
LEMMA OneSlot ==
  ASSUME DatabasesTyped, Slots, NEW k \in 0 .. NDatabases - 1, NEW l, LoadedTo(l, k)
  PROVE  LoadedTo(InitSlot(l, databases[k + 1]), k + 1)
<1>1. NDatabases \in Nat /\ k + 1 \in 1 .. NDatabases /\ k \in Nat /\ NoContext \notin Contexts /\ NoDb \notin DbNames
  BY DatabasesAssumption
<1>2. PICK c : c = databases[k + 1]
  BY Zenon
<1>3. databases \in [1 .. NDatabases -> Contexts \cup {NoContext}] /\ name \in [Contexts -> DbNames]
  BY Zenon DEF DatabasesTyped
<1>4. c \in Contexts \cup {NoContext} /\ \A i \in 1 .. k : i \in 1 .. NDatabases
  BY <1>1, <1>2, <1>3, SMTT(30)
<1>5. \A j \in 1 .. k + 1 : j \in 1 .. k \/ j = k + 1
  BY <1>1
<1>6. \A j \in 1 .. k : j \in 1 .. k + 1
  BY <1>1
<1>7. k + 1 \in 1 .. k + 1 /\ (k + 1) - 1 = k
  BY <1>1
<1>8. PICK m : m = InitSlot(l, c)
  BY Zenon
<1>9. /\ l \in Loading /\ l.ok \in BOOLEAN /\ l.registered \in Seq(DbNames)
      /\ l.handle \in [Contexts -> DbNames \cup {NoDb}]
  BY Zenon DEF LoadedTo, Loading
<1>10. CASE c = NoContext
  <2>1. m = l
    BY <1>8, <1>10, Zenon DEF InitSlot
  <2>2. \A j \in 1 .. k + 1 : databases[j] # NoContext => j \in 1 .. k
    BY <1>2, <1>5, <1>10, Zenon
  <2>3. {j \in 1 .. k + 1 : databases[j] # NoContext} = {j \in 1 .. k : databases[j] # NoContext}
    BY <1>6, <2>2, Zenon
  <2>4. l.ok <=> ~\E j \in 1 .. k + 1 : databases[j] # NoContext /\ \E i \in 1 .. j - 1 : name[databases[i]] = name[databases[j]]
    BY <1>6, <2>2, Zenon DEF LoadedTo
  <2>5. l.ok => Range(l.registered) = {name[databases[i]] : i \in {j \in 1 .. k + 1 : databases[j] # NoContext}}
    BY <2>3, Zenon DEF LoadedTo
  <2>6. \A d \in Contexts : (\A i \in 1 .. k + 1 : databases[i] # d) => l.handle[d] = NoDb
    BY <1>6, Zenon DEF LoadedTo
  <2>7. \A id \in 1 .. k + 1 : databases[id] # NoContext =>
          l.handle[databases[id]] = IF Repeats(id) THEN NoDb ELSE name[databases[id]]
    BY <2>2, Zenon DEF LoadedTo
  <2>8. \A d \in Contexts : l.handle[d] \in Range(l.registered) \cup {NoDb}
    BY Zenon DEF LoadedTo
  <2>9. LoadedTo(l, k + 1)
    BY <2>4, <2>5, <2>6, <2>7, Zenon DEF LoadedTo
  <2> QED
    BY <1>2, <1>8, <2>1, <2>9, Zenon
<1>11. CASE c # NoContext
  <2>1. c \in Contexts /\ name[c] \in DbNames /\ name[c] # NoDb
    BY <1>1, <1>3, <1>4, <1>11, Zenon
  <2>2. \A i \in 1 .. k : databases[i] # NoContext /\ databases[i] # c /\ databases[i] \in Contexts
    <3>1. ASSUME NEW i \in 1 .. k PROVE databases[i] # NoContext /\ databases[i] # c
      <4>1. i \in 1 .. NDatabases /\ i < k + 1
        BY <1>1
      <4> QED
        BY <1>1, <1>2, <1>11, <4>1, Zenon DEF Slots
    <3> QED
      BY <1>3, <1>4, <3>1, Zenon
  <2>3. l.handle[c] = NoDb
    BY <2>1, <2>2, Zenon DEF LoadedTo
  <2> DEFINE Rep == \E j \in 1 .. k : \E i \in 1 .. j - 1 : name[databases[i]] = name[databases[j]]
             Taken1 == \E i \in 1 .. k : name[databases[i]] = name[c]
             names == {name[databases[i]] : i \in 1 .. k}
  <2>4. l.ok <=> ~Rep
    <3>1. l.ok <=> ~\E j \in 1 .. k : databases[j] # NoContext /\ \E i \in 1 .. j - 1 : name[databases[i]] = name[databases[j]]
      BY Zenon DEF LoadedTo
    <3> QED
      BY <2>2, <3>1, Zenon
  <2>5. l.ok => Range(l.registered) = names
    <3>1. {j \in 1 .. k : databases[j] # NoContext} = 1 .. k
      BY <2>2, Zenon
    <3> QED
      BY <3>1, Zenon DEF LoadedTo
  <2>6. Repeats(k + 1) <=> Rep \/ Taken1
    BY <1>2, <1>5, <1>6, <1>7, Zenon DEF Repeats
  <2>7. \A id \in 1 .. k : databases[id] # NoContext =>
          l.handle[databases[id]] = IF Repeats(id) THEN NoDb ELSE name[databases[id]]
    BY Zenon DEF LoadedTo
  <2>8. \A d \in Contexts : l.handle[d] \in Range(l.registered) \cup {NoDb}
    BY Zenon DEF LoadedTo
  <2>9. \A d \in Contexts : (\A i \in 1 .. k + 1 : databases[i] # d) => d # c /\ l.handle[d] = NoDb
    BY <1>2, <1>6, <1>7, Zenon DEF LoadedTo
  <2>10. \A j \in 1 .. k + 1 : databases[j] # NoContext
    BY <1>2, <1>5, <1>11, <2>2, Zenon
  <2>11. (\E j \in 1 .. k + 1 : databases[j] # NoContext /\ \E i \in 1 .. j - 1 : name[databases[i]] = name[databases[j]])
           <=> Repeats(k + 1)
    BY <2>10, Zenon DEF Repeats
  <2>12. {name[databases[i]] : i \in {j \in 1 .. k + 1 : databases[j] # NoContext}} = names \cup {name[c]}
    <3>1. {j \in 1 .. k + 1 : databases[j] # NoContext} = 1 .. k + 1
      BY <2>10, Zenon
    <3>2. ASSUME NEW x PROVE x \in {name[databases[i]] : i \in 1 .. k + 1} <=> x \in names \cup {name[c]}
      BY <1>2, <1>5, <1>6, <1>7, ZenonT(60)
    <3> QED
      BY <3>1, <3>2, Zenon
  <2> HIDE DEF Rep, Taken1, names
  <2>13. CASE ~l.ok
    <3>1. m = l
      BY <1>8, <2>13, Zenon DEF InitSlot
    <3>2. Repeats(k + 1)
      BY <2>4, <2>6, <2>13, Zenon
    <3>3. \A id \in 1 .. k + 1 : databases[id] # NoContext =>
            l.handle[databases[id]] = IF Repeats(id) THEN NoDb ELSE name[databases[id]]
      BY <1>2, <1>5, <2>3, <2>7, <3>2, ZenonT(60)
    <3>4. LoadedTo(l, k + 1)
      BY <2>9, <2>11, <2>13, <3>2, <3>3, Zenon DEF LoadedTo
    <3> QED
      BY <1>2, <1>8, <3>1, <3>4, Zenon
  <2>14. CASE l.ok /\ name[c] \in Range(l.registered)
    <3>1. PICK h : h = [l.handle EXCEPT ![c] = NoDb]
      BY Zenon
    <3>2. m = [ok |-> FALSE, db |-> NoDb, registered |-> l.registered, handle |-> h]
      <4>1. m = InitContext(l, c)
        BY <1>8, <1>11, <2>14, Zenon DEF InitSlot
      <4>2. kore_pgsql_register(l, name[c]) = [l EXCEPT !.db = NoDb]
        BY <2>14, Zenon DEF kore_pgsql_register
      <4> QED
        BY <1>9, <3>1, <4>1, <4>2, Zenon DEF InitContext, Loading
    <3>3. h = l.handle
      BY <1>9, <2>3, <3>1, Zenon
    <3>4. m \in Loading /\ m.ok = FALSE /\ m.registered = l.registered /\ m.handle = l.handle
      BY <1>9, <3>2, <3>3, Zenon DEF Loading
    <3>5. Repeats(k + 1)
      BY <2>5, <2>6, <2>14, SMTT(30) DEF names, Taken1
    <3>6. \A id \in 1 .. k + 1 : databases[id] # NoContext =>
            l.handle[databases[id]] = IF Repeats(id) THEN NoDb ELSE name[databases[id]]
      BY <1>2, <1>5, <2>3, <2>7, <3>5, Zenon
    <3>7. LoadedTo(m, k + 1)
      BY <2>11, <3>4, <3>5, <3>6, SMTT(30) DEF LoadedTo
    <3> QED
      BY <1>2, <1>8, <3>7, Zenon
  <2>15. CASE l.ok /\ name[c] \notin Range(l.registered)
    <3>1. PICK h : h = [l.handle EXCEPT ![c] = name[c]]
      BY Zenon
    <3>2. PICK r : r = <<name[c]>> \o l.registered
      BY Zenon
    <3>3. m = [ok |-> TRUE, db |-> name[c], registered |-> r, handle |-> h]
      <4>1. m = InitContext(l, c)
        BY <1>8, <1>11, <2>15, Zenon DEF InitSlot
      <4>2. kore_pgsql_register(l, name[c]) = [l EXCEPT !.registered = <<name[c]>> \o @, !.db = name[c]]
        BY <2>15, Zenon DEF kore_pgsql_register
      <4>3. PICK p : p = kore_pgsql_register(l, name[c])
        BY Zenon
      <4>4. p = [ok |-> TRUE, db |-> name[c], registered |-> r, handle |-> l.handle]
        BY <1>9, <2>15, <3>2, <4>2, <4>3, Zenon DEF Loading
      <4>5. p.db = name[c] /\ p.db # NoDb /\ p.handle = l.handle
        BY <2>1, <4>4, Zenon
      <4>6. m = [p EXCEPT !.handle[c] = name[c], !.ok = TRUE]
        BY <4>1, <4>3, <4>5, Zenon DEF InitContext
      <4> QED
        BY <3>1, <4>4, <4>6, Zenon
    <3>4. r \in Seq(DbNames) /\ Range(r) = Range(l.registered) \cup {name[c]}
      BY <1>9, <2>1, <3>2, Prepended, Zenon
    <3>5. /\ h \in [Contexts -> DbNames \cup {NoDb}] /\ h[c] = name[c]
          /\ \A d \in Contexts : d # c => h[d] = l.handle[d]
      BY <1>9, <2>1, <3>1, Zenon
    <3>6. m \in Loading /\ m.ok = TRUE /\ m.registered = r /\ m.handle = h
      BY <2>1, <3>3, <3>4, <3>5, Zenon DEF Loading
    <3>7. ~Repeats(k + 1)
      BY <2>4, <2>5, <2>6, <2>15, Zenon DEF names, Taken1
    <3>8. \A id \in 1 .. k + 1 : databases[id] # NoContext =>
            h[databases[id]] = IF Repeats(id) THEN NoDb ELSE name[databases[id]]
      BY <1>2, <1>5, <2>2, <2>7, <3>5, <3>7, Zenon
    <3>9. Range(r) = {name[databases[i]] : i \in {j \in 1 .. k + 1 : databases[j] # NoContext}}
      BY <2>5, <2>12, <2>15, <3>4, Zenon
    <3>10. \A d \in Contexts : h[d] \in Range(r) \cup {NoDb}
      BY <2>8, <3>4, <3>5, Zenon
    <3>11. \A d \in Contexts : (\A i \in 1 .. k + 1 : databases[i] # d) => h[d] = NoDb
      BY <2>9, <3>5, Zenon
    <3>12. LoadedTo(m, k + 1)
      BY <2>11, <3>6, <3>7, <3>8, <3>9, <3>10, <3>11, Zenon DEF LoadedTo
    <3> QED
      BY <1>2, <1>8, <3>12, Zenon
  <2> QED
    BY <2>13, <2>14, <2>15, Zenon
<1> QED
  BY <1>10, <1>11, Zenon

\* kore_onload, in the first worker and in every restarted one.
LEMMA LoadedKeeps ==
  ASSUME DatabasesInv, WorkerEntry
  PROVE  DatabasesInv'
<1>1. DatabasesTyped /\ Slots
  BY Zenon DEF DatabasesInv
<1>2. NDatabases \in Nat
  BY DatabasesAssumption, Zenon
<1> DEFINE T == {k \in 0 .. NDatabases : LoadedTo(InitSlots[k], k)}
<1>3. 0 \in T
  <2>1. NoneYet \in Loading /\ NoneYet.ok = TRUE /\ NoneYet.registered = <<>> /\ NoneYet.handle = [c \in Contexts |-> NoDb]
    BY DEF NoneYet, Loading
  <2>2. Range(NoneYet.registered) = {}
    BY <2>1 DEF Range
  <2>3. {j \in 1 .. 0 : databases[j] # NoContext} = {} /\ \A i \in 1 .. 0 : FALSE
    OBVIOUS
  <2>4. LoadedTo(NoneYet, 0)
    BY <2>1, <2>2, <2>3, Zenon DEF LoadedTo
  <2> QED
    BY <1>2, <2>4, SlotByName, SMTT(30)
<1>4. ASSUME NEW k \in 0 .. NDatabases - 1, k \in T PROVE k + 1 \in T
  <2>1. k + 1 \in 1 .. NDatabases /\ k + 1 \in 0 .. NDatabases /\ (k + 1) - 1 = k
    BY <1>2
  <2>2. LoadedTo(InitSlots[k], k)
    BY <1>4, Zenon
  <2>3. LoadedTo(InitSlot(InitSlots[k], databases[k + 1]), k + 1)
    BY <1>1, <2>2, OneSlot, Zenon
  <2>4. InitSlots[k + 1] = InitSlot(InitSlots[(k + 1) - 1], databases[k + 1])
    BY <2>1, SlotByName, Zenon
  <2> QED
    BY <2>1, <2>3, <2>4, Zenon
<1>5. NDatabases \in T
  <2> HIDE DEF T
  <2>1. \A i \in 0 .. NDatabases : i \in T
    BY <1>2, <1>3, <1>4, Upto, Zenon
  <2> QED
    BY <1>2, <2>1
<1>6. PICK l : l = InitSlots[NDatabases]
  BY Zenon
<1>7. LoadedTo(l, NDatabases)
  BY <1>5, <1>6, Zenon
<1>8. /\ l.registered \in Seq(DbNames) /\ l.handle \in [Contexts -> DbNames \cup {NoDb}]
      /\ \A c \in Contexts : l.handle[c] \in Range(l.registered) \cup {NoDb}
      /\ \A id \in 1 .. NDatabases : databases[id] # NoContext =>
           l.handle[databases[id]] = IF Repeats(id) THEN NoDb ELSE name[databases[id]]
  BY <1>7, Zenon DEF LoadedTo, Loading
<1>9. /\ loaded' = TRUE /\ registered' = l.registered /\ handle' = l.handle /\ UNCHANGED <<name, databases>>
      /\ free' = <<>> /\ count' = 0 /\ lost' = 0 /\ sql' = [q \in Sqls |-> NoSql] /\ jsons' = 0
  BY <1>6, Zenon DEF WorkerEntry, kore_pgsql_init
<1>10. free' \in Seq(DbNames) /\ Len(free') = 0 /\ Range(free') = {}
  BY <1>9 DEF Range
<1>11. /\ NoSql \in AnySql /\ NoSql.result = NoDb /\ NoSql.query = NoDb /\ NoSql.json = FALSE
       /\ NoSql.running = FALSE
  BY Zenon DEF NoSql, AnySql
<1>12. sql' \in [Sqls -> AnySql] /\ \A q \in Sqls : sql'[q] = NoSql
  BY <1>9, <1>11, Zenon
<1>13. DatabasesTyped'
  BY <1>1, <1>8, <1>9, <1>10, <1>12 DEF DatabasesTyped
<1>14. Slots'
  BY <1>1, <1>9, Zenon DEF Slots
<1>15. Reaches'
  <2>1. \A n : Repeats(n)' <=> Repeats(n)
    BY <1>9, Zenon DEF Repeats
  <2> QED
    BY <1>8, <1>9, <2>1, Zenon DEF Reaches
<1>16. OfRegistered'
  BY <1>8, <1>9, <1>10, <1>11, Zenon DEF OfRegistered
<1>17. /\ {q \in Sqls : sql'[q].result # NoDb} = {} /\ {q \in Sqls : sql'[q].running} = {}
       /\ {q \in Sqls : sql'[q].json} = {}
  BY <1>11, <1>12, Zenon
<1>18. Held' = 0 /\ Cardinality({q \in Sqls : sql'[q].json}) = 0
  <2>1. Cardinality({}) = 0
    BY FS_EmptySet, Zenon
  <2>2. Held' = Cardinality({q \in Sqls : sql'[q].result # NoDb}) + Cardinality({q \in Sqls : sql'[q].running})
    BY Zenon DEF Held
  <2>3. Held' = 0 + 0 /\ Cardinality({q \in Sqls : sql'[q].json}) = 0
    BY <1>17, <2>1, <2>2, Zenon
  <2> QED
    BY <2>3
<1>19. Tallied'
  BY <1>9, <1>10, <1>18, DatabasesAssumption DEF Tallied
<1> QED
  BY <1>13, <1>14, <1>15, <1>16, <1>19, Zenon DEF DatabasesInv

\* Every step that has to do with databases.
LEMMA DatabasesNext == DatabasesInv /\ NextDatabases => DatabasesInv'
BY LoadedKeeps, AddKeeps, SqlMoves, AsyncKeeps, DiscardKeeps, QueryKeeps, Zenon DEF NextDatabases

\* While there is no such step the databases stay as they are.
LEMMA DatabasesStay == DatabasesInv /\ UNCHANGED dvars => DatabasesInv'
<1>1. SUFFICES ASSUME DatabasesInv, UNCHANGED dvars PROVE DatabasesInv'
  BY Zenon
<1>2. DatabasesTyped'
  BY <1>1, Zenon DEF DatabasesInv, dvars, DatabasesTyped
<1>3. Slots'
  BY <1>1, Zenon DEF DatabasesInv, dvars, Slots
<1>4. Reaches'
  BY <1>1, Zenon DEF DatabasesInv, dvars, Reaches, Repeats
<1>5. OfRegistered'
  BY <1>1, Zenon DEF DatabasesInv, dvars, OfRegistered
<1>6. Tallied'
  BY <1>1, Zenon DEF DatabasesInv, dvars, Tallied, Held
<1> QED
  BY <1>2, <1>3, <1>4, <1>5, <1>6, Zenon DEF DatabasesInv

\* The invariant says what a handler relies on.
LEMMA DatabasesServed == DatabasesInv => DatabasesServe
<1> SUFFICES ASSUME DatabasesInv, loaded PROVE DatabasesServe
  BY Zenon DEF DatabasesServe
<1>1. \A id \in 1 .. NDatabases : databases[id] # NoContext =>
        handle[databases[id]] = IF \E j \in 1 .. id : \E i \in 1 .. j - 1 : name[databases[i]] = name[databases[j]]
                                THEN NoDb ELSE name[databases[id]]
  BY Zenon DEF DatabasesInv, Reaches, Repeats
<1>2. Range(free) \cup {sql[q].result : q \in Sqls} \subseteq Range(registered) \cup {NoDb}
  BY Zenon DEF DatabasesInv, OfRegistered
<1> QED
  BY <1>1, <1>2, Zenon DEF DatabasesInv, Tallied, DatabasesServe

-----------------------------------------------------------------------------
(* The worker *)

\* While no step of sessions is taken they stay as they are.
LEMMA SessionsStay == SessionsInv /\ UNCHANGED svars => SessionsInv'
<1>1. SUFFICES ASSUME SessionsInv, UNCHANGED svars PROVE SessionsInv'
  BY Zenon
<1>2. SessionsTyped'
  BY <1>1, Zenon DEF SessionsInv, svars, SessionsTyped
<1>3. Numbered'
  BY <1>1, Zenon DEF SessionsInv, svars, Numbered
<1>4. Refreshed'
  BY <1>1, Zenon DEF SessionsInv, svars, Refreshed
<1>5. SessionsHeld'
  BY <1>1, Zenon DEF SessionsInv, svars, SessionsHeld
<1> QED
  BY <1>2, <1>3, <1>4, <1>5 DEF SessionsInv

\* While no file is asked for the cache, the descriptors and the copies stay as they are.
LEMMA FilesStay == FilesInv /\ UNCHANGED fvars => FilesInv'
<1>1. SUFFICES ASSUME FilesInv, UNCHANGED fvars PROVE FilesInv'
  BY Zenon
<1>2. FilesTyped'
  BY <1>1, Zenon DEF FilesInv, fvars, FilesTyped
<1>3. FilesDated'
  BY <1>1, Zenon DEF FilesInv, fvars, FilesDated, Dated
<1>4. FdsOwned'
  BY <1>1, Zenon DEF FilesInv, fvars, FdsOwned
<1> QED
  BY <1>2, <1>3, <1>4, Zenon DEF FilesInv

\* While nothing is received the body stays as it is.
LEMMA ReceptionStays == ReceptionInv /\ UNCHANGED rvars => ReceptionInv'
BY Zenon DEF rvars, ReceptionInv, ReceptionTyped, Counted, RoomOK, BodyWhole

\* A session that exists is held by exactly one address; a request that was given one finds
\* it in the table still, unless it outlived the timeout (SessionManager::find, create, stop).
THEOREM SessionsKept == Spec => []SessionsHeld
<1>1. Init => SessionsInv
  BY SessionsInit, Zenon DEF Init
<1>2. SessionsInv /\ [Next]_vars => SessionsInv'
  BY SessionsNext, SessionsStay, Zenon DEF Next, Step, vars
<1>3. SessionsInv => SessionsHeld
  BY Zenon DEF SessionsInv
<1> QED
  BY <1>1, <1>2, <1>3, PTL DEF Spec

\* A cached file and a client's copy with the mtime of the file on disk have a content that
\* the file had at that mtime; every entry of the cache has its own open descriptor, and no
\* close of StaticFileManager hits that of another (find, loadFile, reloadFile).
THEOREM FilesKept == Spec => []FilesSound
<1>1. Init => FilesInv
  BY FilesInit, Zenon DEF Init
<1>2. FilesInv /\ [Next]_vars => FilesInv'
  BY FilesNext, FilesStay, Zenon DEF Next, Step, vars
<1>3. FilesInv => FilesSound
  BY Zenon DEF FilesInv, FilesDated, Dated, FdsOwned, FilesSound
<1> QED
  BY <1>1, <1>2, <1>3, PTL DEF Spec

\* The id that config::db gave reaches the database of its context unless a name repeated, in
\* every worker that is loaded; every connection is idle, held once or lost, within the limit,
\* and a Json lives as long as its result (DbManager, Sql, PgSqlResult, pgsql_conn_next).
THEOREM DatabasesKept == Spec => []DatabasesServe
<1>1. Init => DatabasesInv
  BY DatabasesInit, Zenon DEF Init
<1>2. DatabasesInv /\ [Next]_vars => DatabasesInv'
  BY DatabasesNext, DatabasesStay, Zenon DEF Next, Step, vars
<1> QED
  BY <1>1, <1>2, DatabasesServed, PTL DEF Spec

\* A request is complete with exactly the announced body, however it was cut, and one
\* that came with too much never is (http_header_recv, http_body_recv, http_body_read).
THEOREM WholeBodies == Spec => []BodyWhole
<1>1. Init => ReceptionInv
  BY InitReceptionInv, Zenon DEF Init
<1>2. ReceptionInv /\ NextReception => ReceptionInv'
  BY HeaderReceptionInv, BodyReceptionInv, ReadReceptionInv, Zenon DEF NextReception
<1>3. ReceptionInv /\ [Next]_vars => ReceptionInv'
  BY <1>2, ReceptionStays, Zenon DEF Next, Step, vars
<1>4. ReceptionInv => BodyWhole
  BY Zenon DEF ReceptionInv
<1> QED
  BY <1>1, <1>3, <1>4, PTL DEF Spec
=============================================================================
