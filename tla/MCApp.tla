------------------------------- MODULE MCApp --------------------------------
(* An instance of App for TLC: two routes; of the fidecs some match both,  *)
(* some only one, and some neither.                                        *)
EXTENDS App

RoutePrefixes == {<<"/", "a">>, <<"/", "b">>}

BeforeFidecs == <<<<>>, <<"/", "a">>, <<"/", "a", "c">>, <<"/">>>>

AfterFidecs == <<<<"/", "b", "c">>, <<>>, <<"/", "b">>>>

\* 7 is none of sparc.h's codes.
AllCodes == {ABORT, CONTINUE, SKIP_FLUSH, ASYNC, 7, OK, NOT_FOUND}
=============================================================================
