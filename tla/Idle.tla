-------------------------------- MODULE Idle --------------------------------
(***************************************************************************)
(* The idle timers of a worker's connections (base/kore/connection.c): the *)
(* check of kore_connection_check_timeout, every ten seconds of the        *)
(* worker's loop, and the pruning behind it.                               *)
(***************************************************************************)
EXTENDS Lists

CONSTANTS Conns,    \* connections of clients
          MsgConns  \* connections to other processes, without a timeout

VARIABLES connections,  \* the list, in order
          idle          \* of a connection: "running", "expired", or "none" when there is none

ivars == <<connections, idle>>

InitIdle == /\ connections = CHOOSE q \in Injection(1 .. Cardinality(MsgConns), MsgConns) : TRUE
            /\ idle = [c \in Conns |-> "none"]

\* kore_connection_accept: at the end of the list, with its timer started.
AcceptIdle(c) == /\ idle[c] = "none"
                 /\ connections' = Append(connections, c)
                 /\ idle' = [idle EXCEPT ![c] = "running"]

\* Time passes without an event of the connection.
Expire(c) == idle[c] = "running" /\ idle' = [idle EXCEPT ![c] = "expired"] /\ UNCHANGED connections

\* kore_connection_handle stops the timer and starts it anew.
HandleIdle(c) == /\ idle[c] # "none"
                 /\ idle' = [idle EXCEPT ![c] = "running"]
                 /\ UNCHANGED connections

\* Mutant: the walk ends at a client whose timer has not run out.
WalkedShort == LET k == Search(connections, LAMBDA c : c \notin MsgConns)
               IN IF k > 0 /\ idle[connections[k]] = "expired" THEN k ELSE 0

\* kore_connection_check_timeout: the walk disconnects a connection that is expired, which
\* moves it to the end of the other list, so that there is no next one and the walk is over.
Walked == Search(connections, LAMBDA c : c \notin MsgConns /\ idle[c] = "expired")

\* A turn of the worker's loop with the check due: check, then prune.
CheckIdle == /\ Walked > 0
             /\ idle' = [idle EXCEPT ![connections[Walked]] = "none"]
             /\ connections' = Delete(connections, Walked)

NextIdle == \/ \E c \in Conns : AcceptIdle(c) \/ Expire(c) \/ HandleIdle(c)
            \/ CheckIdle

\* A connection whose timer has run out is disconnected and pruned, or heard of again:
\* though a check takes at most one, and clients keep coming.
ExpiredGoes == \A c \in Conns : idle[c] = "expired" ~> idle[c] # "expired"
=============================================================================
