-------------------------------- MODULE Site --------------------------------
(***************************************************************************)
(* What a worker keeps between requests and within one: sessions, static   *)
(* files, databases and the results of queries, the body that is received, *)
(* the request and response a handler sees, and the idle timers of         *)
(* connections.  They share no state but the worker that runs them one at  *)
(* a time, so a behaviour is of one part.                                  *)
(***************************************************************************)
EXTENDS Sessions, StaticFiles, Databases, Reception, Exchange, Idle

VARIABLE part

vars == <<part, svars, fvars, dvars, rvars, xvars, ivars>>

Init == /\ part \in {"sessions", "files", "databases", "reception", "request", "response", "idle"}
        /\ InitSessions /\ InitFiles /\ InitDatabases /\ InitReception
        /\ InitExchange /\ InitIdle
        /\ part # "request" => unread = 0 /\ cookied
        /\ part # "reception" => coming = 0 /\ length = 0
        /\ part # "databases" => \A c \in Contexts : name[c] = CHOOSE n \in DbNames : TRUE

Step(p, A, others) == part = p /\ A /\ UNCHANGED <<part, others>>

CheckDue == Step("idle", CheckIdle, <<svars, fvars, dvars, rvars, xvars>>)

Next == \/ Step("sessions", NextSessions, <<fvars, dvars, rvars, xvars, ivars>>)
        \/ Step("files", NextFiles, <<svars, dvars, rvars, xvars, ivars>>)
        \/ Step("databases", NextDatabases, <<svars, fvars, rvars, xvars, ivars>>)
        \/ Step("reception", NextReception, <<svars, fvars, dvars, xvars, ivars>>)
        \/ Step("request", NextRequest, <<svars, fvars, dvars, rvars, ivars>>)
        \/ Step("response", NextResponse, <<svars, fvars, dvars, rvars, ivars>>)
        \/ Step("idle", NextIdle, <<svars, fvars, dvars, rvars, xvars>>)

\* The worker's loop goes round, so the check comes due again and again.
Spec == Init /\ [][Next]_vars /\ WF_vars(CheckDue)
=============================================================================
