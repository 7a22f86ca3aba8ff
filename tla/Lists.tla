------------------------------- MODULE Lists -------------------------------
(***************************************************************************)
(* The lists of <sys/queue.h> that the server keeps its objects in, as     *)
(* sequences with the head first.  SequencesExt has more of them, but      *)
(* brings in modules that slow the prover down in all that extends it.     *)
(***************************************************************************)
EXTENDS Integers, Sequences, FiniteSetsExt

\* TAILQ_LAST
Last(q) == q[Len(q)]

\* TAILQ_FOREACH that ends at the first element that passes: its place, or 0.
Search(q, Test(_)) == LET passing == {i \in 1 .. Len(q) : Test(q[i])}
                      IN IF passing = {} THEN 0 ELSE Min(passing)

\* TAILQ_INSERT_BEFORE of e, before the element at place i.
InsertBefore(q, i, e) == SubSeq(q, 1, i - 1) \o <<e>> \o SubSeq(q, i, Len(q))

\* TAILQ_REMOVE of the element at place i.
Delete(q, i) == SubSeq(q, 1, i - 1) \o SubSeq(q, i + 1, Len(q))

\* The same of an element that is known by name.
Unlink(q, e) == IF e \in Range(q) THEN Delete(q, Search(q, LAMBDA x : x = e)) ELSE q
=============================================================================
