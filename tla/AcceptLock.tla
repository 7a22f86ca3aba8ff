----------------------------- MODULE AcceptLock -----------------------------
(***************************************************************************)
(* What the accept lock of worker.c promises: a lock with one holder at a  *)
(* time, which the parent frees when the holder dies in its possession,    *)
(* and which can be lost for good when the holder dies or leaves without   *)
(* the parent being able to tell that it held the lock.                    *)
(***************************************************************************)
CONSTANT Slots

VARIABLES status,   \* "free", "held", "dead" (its holder is) or "lost"
          holder    \* the set of holders

Init == status = "free" /\ holder = {}

Grab(w) == status = "free" /\ status' = "held" /\ holder' = {w}

Drop == status = "held" /\ status' = "free" /\ holder' = {}

\* The holder died and the parent knows whose lock it is.
Die == status = "held" /\ status' = "dead" /\ holder' = {}

Recover == status = "dead" /\ status' = "free" /\ holder' = {}

\* Nobody will release the lock any more.
Lose == status \in {"held", "dead"} /\ status' = "lost" /\ holder' = {}

Next == (\E w \in Slots : Grab(w)) \/ Drop \/ Die \/ Recover \/ Lose

Spec == Init /\ [][Next]_<<status, holder>>
=============================================================================
