---------------------------- MODULE MCRequests ----------------------------
(* Instances of Requests for TLC.                                          *)
EXTENDS Requests, TLC

CONSTANTS r1, r2, r3, c1, c2, d1, d2

Symmetry == Permutations(Reqs) \cup Permutations(Conns) \cup Permutations(DBs)

Rows == <<"tuples", "null">>
Command == <<"command", "null">>
Failure == <<"error", "null">>
Copy == <<"copy", "null">>

AnyReply == {Rows, Failure, Command, Copy}
\* What a query that is no COPY is answered with.
NoCopy == AnyReply \ {Copy}
RowsOnly == {Rows}
============================================================================
