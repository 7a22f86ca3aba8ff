------------------------------ MODULE Sessions ------------------------------
(***************************************************************************)
(* The sessions of one worker (sparc/detail/session.cpp) and the pointer   *)
(* to one that a request keeps (HttpRequest::session).  A request that     *)
(* waits for a query or a timer keeps its pointer while others are served  *)
(* and time passes.                                                        *)
(*                                                                         *)
(* ipToSessionId gives one id per address, so the address stands for it.   *)
(***************************************************************************)
EXTENDS Integers, Sequences, FiniteSets

CONSTANTS Ips,
          Reqs,
          Timeout,     \* *timeout_, negative for sessions that never expire
          Names,       \* of attributes
          MaxTime,     \* bound: the clock
          MaxSessions  \* bound: sessions ever created

ASSUME SessionsAssumption == Timeout \in Int

VARIABLES now,
          session,  \* every HttpSession ever made, by number: what find and the requests see
          table,    \* sessions_: the number of the session of each address, 0 for none
          req       \* each request: its address, session_ (0 for NULL) and when it was looked up

svars == <<now, session, table, req>>

NoReq == [ip |-> "none", ptr |-> 0, since |-> 0]

InitSessions == /\ now = 1
                /\ session = <<>>
                /\ table = [ip \in Ips |-> 0]
                /\ req = [r \in Reqs |-> NoReq]

Expiry == IF Timeout < 0 THEN Timeout ELSE Timeout + now

Expired(s) == session[s].expiryTime > 0 /\ session[s].expiryTime < now

\* A request of a client; HttpRequest begins without a session.
Arrive(r, ip) == /\ req[r] = NoReq
                 /\ req' = [req EXCEPT ![r] = [NoReq EXCEPT !.ip = ip]]
                 /\ UNCHANGED <<now, session, table>>

\* Mutant: the time of expiry is not set again.
FoundUnrefreshed(s) == [session EXCEPT ![s].new = FALSE]

\* A session that is found lives for another timeout, and is new no longer.
Found(s) == [session EXCEPT ![s].expiryTime = Expiry, ![s].new = FALSE]

\* HttpRequest::session(create), when it has none yet: HttpSessionManager::create finds
\* the session of the address and sets its expiry anew, or discards an expired one, and
\* makes a new one when asked to.
lookup(r, create) ==
  LET ip == req[r].ip
      s == table[ip]
      found == s # 0 /\ ~Expired(s)
      freed == IF s # 0 /\ Expired(s) THEN [session EXCEPT ![s].live = FALSE] ELSE session
      new == [live |-> TRUE, expiryTime |-> Expiry, new |-> TRUE, attributes |-> {}]
  IN /\ req[r] # NoReq /\ req[r].ptr = 0
     /\ \/ /\ found
           /\ session' = Found(s)
           /\ req' = [req EXCEPT ![r].ptr = s, ![r].since = now]
           /\ UNCHANGED table
        \/ /\ ~found /\ create /\ Len(session) < MaxSessions
           /\ session' = Append(freed, new)
           /\ table' = [table EXCEPT ![ip] = Len(session) + 1]
           /\ req' = [req EXCEPT ![r].ptr = Len(session) + 1, ![r].since = now]
        \/ /\ ~found /\ ~create
           /\ session' = freed
           /\ table' = [table EXCEPT ![ip] = 0]
           /\ UNCHANGED req
     /\ UNCHANGED now

\* addAttribute and removeAttribute through session_.  What they do to a session that
\* is gone is lost with it.
SetAttributes(r, names) ==
  /\ req[r].ptr # 0
  /\ session' = [session EXCEPT ![req[r].ptr].attributes = names]
  /\ UNCHANGED <<now, table, req>>
addAttribute(r, name) == SetAttributes(r, session[req[r].ptr].attributes \cup {name})
removeAttribute(r, name) == /\ name \in session[req[r].ptr].attributes
                            /\ SetAttributes(r, session[req[r].ptr].attributes \ {name})

\* The request is deleted; the session stays.
Leave(r) == /\ req[r] # NoReq
            /\ req' = [req EXCEPT ![r] = NoReq]
            /\ UNCHANGED <<now, session, table>>

Tick == now < MaxTime /\ now' = now + 1 /\ UNCHANGED <<session, table, req>>

NextSessions == \/ Tick
                \/ \E r \in Reqs : \/ \E ip \in Ips : Arrive(r, ip)
                                   \/ \E create \in BOOLEAN : lookup(r, create)
                                   \/ req[r].ptr # 0 /\ \E n \in Names : addAttribute(r, n) \/ removeAttribute(r, n)
                                   \/ Leave(r)

-----------------------------------------------------------------------------
\* The sessions that live are those in the table, one of each address.  The one a
\* request holds is that of its address, so that two requests of an address see each
\* other's attributes, until the request has held it longer than the timeout: only then
\* may another request of the address have found it expired and deleted it, and what the
\* request holds is gone.
SessionsHeld ==
  /\ \A s \in DOMAIN session : session[s].live <=> \E ip \in Ips : table[ip] = s
  /\ \A i, j \in Ips : table[i] = table[j] /\ table[i] # 0 => i = j
  /\ \A r \in Reqs : req[r].ptr # 0 =>
       \/ table[req[r].ip] = req[r].ptr
       \/ ~session[req[r].ptr].live /\ Timeout >= 0 /\ now > req[r].since + Timeout
=============================================================================
