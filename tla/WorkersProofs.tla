--------------------------- MODULE WorkersProofs ---------------------------
(***************************************************************************)
(* Proofs about Workers, for any number of workers, any capacity and any   *)
(* number of crashes and signals.                                          *)
(***************************************************************************)
EXTENDS Workers, TLAPS

\* Pids are handed out once, and the table names the process of every worker
\* that entered its loop.
PidInv ==
  /\ \A w \in Slots : mypid[w] <= npid
  /\ \A v, w \in Slots : mypid[v] = mypid[w] /\ mypid[v] # 0 => v = w
  /\ \A w \in Slots : pc[w] # "none" => mypid[w] # 0
  /\ \A w \in Slots : pc[w] \in Looping \cup {"entry"} => wpid[w] = mypid[w]

\* Where the parent is about to fork, the slot has no process; where it looks
\* at the lock, the table still names the process that died.
ParentInv ==
  /\ ppc \notin {"drain", "stopped"} => slot \in Slots
  /\ ppc = "boot" => \A w \in Slots : w >= slot => pc[w] = "none"
  /\ ppc = "bootpid" => \A w \in Slots : w > slot => pc[w] = "none"
  /\ ppc \in {"recover", "unlock", "respawn"} => pc[slot] = "none"
  /\ ppc = "recover" => wpid[slot] = mypid[slot] /\ mypid[slot] # 0
  /\ ppc \in {"bootpid", "respawnpid"} => mypid[slot] # 0

\* The lock word against its holder, against current and against the parent
\* that unlocks for a dead worker.
LockInv ==
  /\ \A v, w \in Slots : Holds(v) /\ Holds(w) => v = w
  /\ \A w \in Slots : Holds(w) =>
       /\ lock = 1
       /\ ppc # "unlock"
       /\ pc[w] \in {"own", "unlk"} => current = 0
       /\ pc[w] \notin {"own", "unlk"} => current = mypid[w]
  /\ current # 0 => lock = 1
  /\ ppc = "unlock" => lock = 1 /\ current = 0
  /\ \A w \in Slots : pc[w] \in Booting => has_lock[w] = 0

\* The listeners are watched exactly while had_lock says so, and a worker with
\* the lock has room for a client.
AcceptInv == \A w \in Slots :
  /\ pc[w] \in Looping => (accepting[w] <=> had_lock[w] = 1)
  /\ pc[w] \in {"own", "got"} => active[w] < MaxConn
  /\ pc[w] \in {"own", "got", "rel", "unlk"} => WorkerCount > 1
  /\ pc[w] \in {"top", "sigclr", "lock", "wait", "process"} /\ has_lock[w] = 1 /\ WorkerCount > 1
       => active[w] < MaxConn
  /\ pc[w] = "wait" /\ accepting[w] /\ WorkerCount > 1 => has_lock[w] = 1

\* Fewer workers were restarted than it takes to bring the parent's counter back
\* down to MaxConn.
FewForks == npid + MaxConn <= WorkerCount + UintMax + 1

\* worker_active_connections of the parent is 0 minus the restarts, and that of a
\* worker is never below its connections.
CountInv ==
  /\ \A w \in Slots : conns[w] <= active[w]
  /\ ppc = "boot" => npid = slot
  /\ ppc = "bootpid" => npid = slot + 1
  /\ ppc \notin {"boot", "bootpid"} => npid >= WorkerCount
  /\ npid <= WorkerCount => pactive = 0
  /\ npid > WorkerCount /\ FewForks => pactive = UintMax + 1 + WorkerCount - npid
  /\ \A w \in Slots : pc[w] \notin Looping => conns[w] = 0
  /\ FewForks => \A w \in Slots : pc[w] \in Booting \cup Looping =>
                   active[w] = conns[w] \/ (active[w] >= MaxConn /\ conns[w] = 0)

\* current names a worker that holds the lock, or one that ended with it and whose
\* pid the table still has, or nobody that runs.
CurrentInv ==
  /\ current <= npid
  /\ \A w \in Slots : current = mypid[w] /\ current # 0 =>
       \/ Holds(w)
       \/ pc[w] \in Zombies /\ wpid[w] = mypid[w]
       \/ pc[w] = "none"

\* The inductive invariant.
IInv == TypeOK /\ PidInv /\ ParentInv /\ LockInv /\ AcceptInv /\ CountInv /\ CurrentInv

\* Every step keeps the types.
LEMMA TypeStep ==
  TypeOK /\ ParentInv /\ CountInv /\ [Next]_vars => TypeOK'
<1>0. SUFFICES ASSUME TypeOK, ParentInv, CountInv, [Next]_vars PROVE TypeOK'
  BY Zenon
<1>a. {"none", "forked", "zeroed", "entry", "stray", "top", "sigclr", "lock", "own", "got", "wait", "rel",
     "unlk", "process", "crashed", "exited"} \subseteq Places
  BY Zenon DEF Places, Booting, Looping, Zombies
<1>b. {"boot", "bootpid", "loop", "sigclr", "dispatch", "reap", "recover", "unlock", "respawn",
     "respawnpid", "drain", "stopped"} \subseteq ParentPlaces
  BY Zenon DEF ParentPlaces
<1>1. CASE Fork
  <2>1. pactive' \in 0 .. UintMax
    BY <1>0, <1>1, WorkerAssumption DEF Fork, Uncount, TypeOK
  <2>2. active' \in [Slots -> 0 .. UintMax]
    BY <1>0, <1>1, <2>1, Zenon DEF Fork, TypeOK
  <2> QED
    BY <1>a, <1>b, <1>0, <1>1, <2>2 DEF Fork, local, TypeOK
<1>2. CASE StorePid
  <2>1. slot' \in 0 .. WorkerCount /\ ppc' \in ParentPlaces
    <3>1. slot \in 0 .. WorkerCount - 1
      BY <1>0, <1>2, Zenon DEF StorePid, ParentInv, Slots, NoSig
    <3> QED
      BY <1>b, <1>2, <3>1, WorkerAssumption DEF StorePid
  <2>2. wpid' \in [Slots -> Nat]
    BY <1>0, <1>2, Zenon DEF StorePid, ParentInv, TypeOK
  <2> QED
    BY <1>0, <1>2, <2>1, <2>2, Zenon DEF StorePid, local, bounds, counters, TypeOK
<1>3. CASE ParentTop  BY <1>b, <1>0, <1>3, WorkerAssumption DEF ParentTop, shared, local, bounds,
                         counters, TypeOK
<1>4. CASE ParentSigClear  BY <1>b, <1>0, <1>4, Zenon DEF ParentSigClear, shared, local, bounds,
                              counters, TypeOK
<1>5. CASE Dispatch
  <2>1. sig' \in [Slots -> {NoSig, HUP, TERM}]
    BY <1>0, <1>5, Zenon DEF Dispatch, Signalled, TypeOK
  <2>2. slot' \in 0 .. WorkerCount
    BY <1>0, <1>5, WorkerAssumption DEF Dispatch, TypeOK
  <2>3. ppc' \in ParentPlaces /\ done' \in Nat
    BY <1>b, <1>5, Zenon DEF Dispatch
  <2> QED
    BY <1>0, <1>5, <2>1, <2>3, WorkerAssumption DEF Dispatch, shared, local, bounds, counters,
       TypeOK
<1>6. CASE ReapNone  BY <1>b, <1>0, <1>6, Zenon DEF ReapNone, shared, local, bounds, counters,
                        TypeOK
<1>7. ASSUME NEW w \in Slots, Reap(w) PROVE TypeOK'
  <2>1. slot' \in 0 .. WorkerCount
    <3>1. slot' = w \/ slot' = slot
      BY <1>7, Zenon DEF Reap
    <3>2. w \in 0 .. WorkerCount
      BY WorkerAssumption DEF Slots
    <3> QED
      BY <1>0, <3>1, <3>2, Zenon DEF TypeOK
  <2> QED
    BY <1>a, <1>b, <1>0, <1>7, <2>1, Zenon DEF Reap, shared, local, bounds, counters, TypeOK
<1>8. CASE Recover  BY <1>b, <1>0, <1>8 DEF Recover, local, bounds, counters, TypeOK
<1>9. CASE ParentUnlock  BY <1>b, <1>0, <1>9, Zenon DEF ParentUnlock, local, bounds, counters,
                            TypeOK
<1>10. CASE DrainDone
  <2>1. slot' \in 0 .. WorkerCount /\ done' \in Nat
    BY <1>0, <1>10, WorkerAssumption DEF DrainDone, TypeOK
  <2> QED
    BY <1>0, <1>10, WorkerAssumption DEF DrainDone, shared, local, bounds, counters, TypeOK
<1>11. ASSUME NEW w \in Slots, DrainReap(w) PROVE TypeOK'
  <2>1. slot' \in 0 .. WorkerCount
    BY <1>0, <1>11, WorkerAssumption DEF DrainReap, TypeOK
  <2>2. wpid' \in [Slots -> Nat] /\ pc' \in [Slots -> Places]
    BY <1>a, <1>0, <1>11, Zenon DEF DrainReap, TypeOK
  <2> QED
    BY <1>0, <1>11, <2>2, WorkerAssumption DEF DrainReap, local, bounds, counters, TypeOK
<1>12. CASE DrainNoChild  BY <1>0, <1>12, WorkerAssumption DEF DrainNoChild, shared, local, bounds,
                             counters, TypeOK
<1>13. CASE DrainPass  BY <1>b, <1>0, <1>13 DEF DrainPass, shared, local, bounds, counters, TypeOK
<1>14. ASSUME NEW w \in Slots, ChildZero(w) PROVE TypeOK'
  BY <1>a, <1>0, <1>14, Zenon DEF ChildZero, Goto, local, parent, bounds, counters, TypeOK
<1>15. ASSUME NEW w \in Slots, ChildPid(w) PROVE TypeOK'
  BY <1>a, <1>0, <1>15, Zenon DEF ChildPid, Goto, local, parent, bounds, counters, TypeOK
<1>16. ASSUME NEW w \in Slots, WorkerEntry(w) PROVE TypeOK'
  BY <1>a, <1>0, <1>16, WorkerAssumption DEF WorkerEntry, Goto, Forget, shared, parent, bounds,
     counters, TypeOK
<1>17. ASSUME NEW w \in Slots, WorkerTop(w) PROVE TypeOK'
  BY <1>a, <1>0, <1>17, Zenon DEF WorkerTop, Goto, shared, parent, bounds, counters, TypeOK
<1>18. ASSUME NEW w \in Slots, WorkerSigClear(w) PROVE TypeOK'
  BY <1>a, <1>0, <1>18, Zenon DEF WorkerSigClear, Goto, shared, local, parent, bounds, counters,
     TypeOK
<1>19. ASSUME NEW w \in Slots, StayHolder(w) PROVE TypeOK'
  BY <1>a, <1>0, <1>19, Zenon DEF StayHolder, Goto, EnableAccept, parent, bounds, counters, TypeOK
<1>20. ASSUME NEW w \in Slots, GoWithout(w) PROVE TypeOK'
  BY <1>a, <1>0, <1>20, Zenon DEF GoWithout, Goto, DisableAccept, shared, parent, bounds, counters,
     TypeOK
<1>21. ASSUME NEW w \in Slots, TryLock(w) PROVE TypeOK'
  BY <1>a, <1>0, <1>21, Zenon DEF TryLock, Goto, local, parent, bounds, counters, TypeOK
<1>22. ASSUME NEW w \in Slots, SetCurrent(w) PROVE TypeOK'
  BY <1>a, <1>0, <1>22, Zenon DEF SetCurrent, Goto, local, parent, bounds, counters, TypeOK
<1>23. ASSUME NEW w \in Slots, GotLock(w) PROVE TypeOK'
  BY <1>a, <1>0, <1>23, Zenon DEF GotLock, Goto, EnableAccept, parent, bounds, counters, TypeOK
<1>24. ASSUME NEW w \in Slots, EventWait(w) PROVE TypeOK'
  <2>1. PICK n \in 0 .. MaxConn : /\ n > 0 => active[w] + n <= MaxConn
                                  /\ active' = [active EXCEPT ![w] = active[w] + n]
                                  /\ conns' = [conns EXCEPT ![w] = conns[w] + n]
    BY <1>24, Zenon DEF EventWait
  <2>a. active[w] \in 0 .. UintMax /\ conns[w] \in 0 .. MaxConn /\ conns[w] <= active[w]
    BY <1>0, Zenon DEF CountInv, TypeOK
  <2>b. active[w] + n \in 0 .. UintMax /\ conns[w] + n \in 0 .. MaxConn
    <3>1. CASE n = 0  BY <2>a, <3>1
    <3>2. CASE n > 0  BY <2>a, <2>1, WorkerAssumption
    <3> QED  BY <3>1, <3>2
  <2>c. active \in [Slots -> 0 .. UintMax] /\ active' = [active EXCEPT ![w] = active[w] + n]
    BY <1>0, <2>1, Zenon DEF TypeOK
  <2>d. conns \in [Slots -> 0 .. MaxConn] /\ conns' = [conns EXCEPT ![w] = conns[w] + n]
    BY <1>0, <2>1, Zenon DEF TypeOK
  <2>2. active' \in [Slots -> 0 .. UintMax]
    <3> QED  BY <2>b, <2>c, Zenon
  <2>3. conns' \in [Slots -> 0 .. MaxConn]
    <3> QED  BY <2>b, <2>d, Zenon
  <2>4. pc' \in [Slots -> Places]
    BY <1>a, <1>0, <1>24 DEF EventWait, Goto, TypeOK
  <2>5. backoff' \in [Slots -> BOOLEAN]
    BY <1>0, <1>24, Zenon DEF EventWait, TypeOK
  <2> QED
    BY <1>0, <1>24, <2>3, <2>4, WorkerAssumption DEF EventWait, shared, parent, bounds, TypeOK,
       NoSig
<1>25. ASSUME NEW w \in Slots, ReleaseCurrent(w) PROVE TypeOK'
  BY <1>a, <1>0, <1>25, Zenon DEF ReleaseCurrent, Goto, local, parent, bounds, counters, TypeOK
<1>26. ASSUME NEW w \in Slots, ReleaseLock(w) PROVE TypeOK'
  BY <1>a, <1>0, <1>26, Zenon DEF ReleaseLock, Goto, local, parent, bounds, counters, TypeOK
<1>27. ASSUME NEW w \in Slots, Process(w) PROVE TypeOK'
  <2>1. PICK n \in 0 .. conns[w] : /\ conns' = [conns EXCEPT ![w] = conns[w] - n]
                                   /\ active' = [active EXCEPT ![w] = active[w] - n]
    BY <1>27, Zenon DEF Process
  <2>2. conns' \in [Slots -> 0 .. MaxConn]
    BY <1>0, <2>1, WorkerAssumption DEF TypeOK
  <2>3. active' \in [Slots -> 0 .. UintMax]
    BY <1>0, <2>1, WorkerAssumption DEF CountInv, TypeOK
  <2> QED
    BY <1>a, <1>0, <1>27, <2>3, WorkerAssumption DEF Process, Goto, shared, parent, bounds, TypeOK
<1>28. ASSUME NEW w \in Slots, Exit(w) PROVE TypeOK'
  BY <1>a, <1>0, <1>28, WorkerAssumption DEF Exit, Goto, Forget, shared, parent, bounds, TypeOK
<1>29. ASSUME NEW w \in Slots, ChildStray(w) PROVE TypeOK'
  BY <1>a, <1>b, <1>0, <1>29, Zenon DEF ChildStray, Goto, shared, local, parent, bounds, counters,
     TypeOK, HUP
<1>30. ASSUME NEW w \in Slots, BackoffOver(w) PROVE TypeOK'
  BY <1>0, <1>30, Zenon DEF BackoffOver, shared, parent, bounds, counters, TypeOK
<1>31. ASSUME NEW w \in Slots, Crash(w) PROVE TypeOK'
  BY <1>a, <1>0, <1>31, WorkerAssumption DEF Crash, Goto, Forget, Alive, shared, parent, TypeOK
<1>32. ASSUME NEW w \in Slots, NEW s \in {HUP, TERM}, SignalWorker(w, s) PROVE TypeOK'
  BY <1>0, <1>32 DEF SignalWorker, shared, local, parent, counters, TypeOK
<1>33. ASSUME NEW s \in {HUP, TERM}, SignalParent(s) PROVE TypeOK'
  BY <1>0, <1>33 DEF SignalParent, shared, local, parent, counters, TypeOK
<1>34. CASE UNCHANGED vars  BY <1>0, <1>34, Zenon DEF vars, shared, local, parent, bounds, counters,
                               TypeOK
<1> QED
  BY <1>a, <1>b, <1>0, <1>1, <1>2, <1>3, <1>4, <1>5, <1>6, <1>7, <1>8, <1>9, <1>10, <1>11, <1>12,
     <1>13, <1>14, <1>15, <1>16, <1>17, <1>18, <1>19, <1>20, <1>21, <1>22, <1>23, <1>24, <1>25,
     <1>26, <1>27, <1>28, <1>29, <1>30, <1>31, <1>32, <1>33, <1>34, WorkerAssumption, Zenon DEF
     Next, ParentNext, WorkerNext

\* Every step keeps PidInv.
LEMMA PidStep ==
  TypeOK /\ PidInv /\ ParentInv /\ [Next]_vars => PidInv'
<1>0. SUFFICES ASSUME TypeOK, PidInv, ParentInv, [Next]_vars PROVE PidInv'
  BY Zenon
<1>a. DOMAIN pc = Slots /\ DOMAIN wpid = Slots /\ DOMAIN mypid = Slots /\ DOMAIN has_lock = Slots
  BY <1>0, Zenon DEF TypeOK
<1>1. CASE Fork  BY <1>0, <1>1 DEF Fork, TypeOK, PidInv, Looping
<1>2. CASE StorePid
  <2>1. wpid' = [wpid EXCEPT ![slot] = mypid[slot]]
    BY <1>2, Zenon DEF StorePid
  <2>2. UNCHANGED <<pc, mypid, npid>>
    BY <1>2, Zenon DEF StorePid, bounds
  <2> QED
    BY <1>0, <2>1, <2>2 DEF PidInv
<1>3. CASE ParentTop  BY <1>0, <1>3, Zenon DEF ParentTop, shared, bounds, PidInv
<1>4. CASE ParentSigClear  BY <1>0, <1>4, Zenon DEF ParentSigClear, shared, bounds, PidInv
<1>5. CASE Dispatch  BY <1>0, <1>5, Zenon DEF Dispatch, shared, bounds, PidInv
<1>6. CASE ReapNone  BY <1>0, <1>6, Zenon DEF ReapNone, shared, bounds, PidInv
<1>7. ASSUME NEW w \in Slots, Reap(w) PROVE PidInv'  BY <1>0, <1>7 DEF Reap, shared, bounds, PidInv,
                                                        Looping
<1>8. CASE Recover  BY <1>0, <1>8, Zenon DEF Recover, bounds, PidInv
<1>9. CASE ParentUnlock  BY <1>0, <1>9, Zenon DEF ParentUnlock, bounds, PidInv
<1>10. CASE DrainDone  BY <1>0, <1>10, Zenon DEF DrainDone, shared, bounds, PidInv
<1>11. ASSUME NEW w \in Slots, DrainReap(w) PROVE PidInv'  BY <1>a, <1>0, <1>11, Zenon DEF
                                                              DrainReap, bounds, PidInv, Looping
<1>12. CASE DrainNoChild  BY <1>0, <1>12, Zenon DEF DrainNoChild, shared, bounds, PidInv
<1>13. CASE DrainPass  BY <1>0, <1>13, Zenon DEF DrainPass, shared, bounds, PidInv
<1>14. ASSUME NEW w \in Slots, ChildZero(w) PROVE PidInv'  BY <1>0, <1>14 DEF ChildZero, Goto,
                                                              bounds, PidInv, Looping
<1>15. ASSUME NEW w \in Slots, ChildPid(w) PROVE PidInv'  BY <1>a, <1>0, <1>15, Zenon DEF ChildPid,
                                                             Goto, bounds, PidInv
<1>16. ASSUME NEW w \in Slots, WorkerEntry(w) PROVE PidInv'
  BY <1>0, <1>16 DEF WorkerEntry, Goto, shared, bounds, PidInv
<1>17. ASSUME NEW w \in Slots, WorkerTop(w) PROVE PidInv'  BY <1>0, <1>17 DEF WorkerTop, Goto,
                                                              shared, bounds, PidInv, Looping
<1>18. ASSUME NEW w \in Slots, WorkerSigClear(w) PROVE PidInv'
  BY <1>0, <1>18 DEF WorkerSigClear, Goto, shared, bounds, PidInv, Looping
<1>19. ASSUME NEW w \in Slots, StayHolder(w) PROVE PidInv'
  BY <1>0, <1>19 DEF StayHolder, Goto, Locking, bounds, PidInv, Looping
<1>20. ASSUME NEW w \in Slots, GoWithout(w) PROVE PidInv'
  BY <1>0, <1>20 DEF GoWithout, Goto, Locking, shared, bounds, PidInv, Looping
<1>21. ASSUME NEW w \in Slots, TryLock(w) PROVE PidInv'
  BY <1>0, <1>21 DEF TryLock, Goto, Locking, bounds, PidInv, Looping
<1>22. ASSUME NEW w \in Slots, SetCurrent(w) PROVE PidInv'  BY <1>0, <1>22 DEF SetCurrent, Goto,
                                                               bounds, PidInv, Looping
<1>23. ASSUME NEW w \in Slots, GotLock(w) PROVE PidInv'
  BY <1>0, <1>23 DEF GotLock, Goto, bounds, PidInv, Looping
<1>24. ASSUME NEW w \in Slots, EventWait(w) PROVE PidInv'
  <2>1. pc[w] = "wait" /\ (Goto(w, "rel") \/ Goto(w, "process"))
    BY <1>24, Zenon DEF EventWait
  <2>2. UNCHANGED <<shared, mypid, parent, bounds>>
    BY <1>24, Zenon DEF EventWait
  <2> QED
    BY <1>a, <1>0, <2>1, <2>2, Zenon DEF Goto, shared, bounds, PidInv, Looping
<1>25. ASSUME NEW w \in Slots, ReleaseCurrent(w) PROVE PidInv'
  BY <1>0, <1>25 DEF ReleaseCurrent, Goto, bounds, PidInv, Looping
<1>26. ASSUME NEW w \in Slots, ReleaseLock(w) PROVE PidInv'  BY <1>0, <1>26 DEF ReleaseLock, Goto,
                                                                bounds, PidInv, Looping
<1>27. ASSUME NEW w \in Slots, Process(w) PROVE PidInv'  BY <1>0, <1>27 DEF Process, Goto, shared,
                                                            bounds, PidInv, Looping
<1>28. ASSUME NEW w \in Slots, Exit(w) PROVE PidInv'  BY <1>0, <1>28 DEF Exit, Goto, shared, bounds,
                                                         PidInv, Looping
<1>29. ASSUME NEW w \in Slots, ChildStray(w) PROVE PidInv'  BY <1>0, <1>29 DEF ChildStray, Goto,
                                                               shared, bounds, PidInv, Looping
<1>30. ASSUME NEW w \in Slots, BackoffOver(w) PROVE PidInv'  BY <1>0, <1>30, Zenon DEF BackoffOver,
                                                                shared, bounds, PidInv
<1>31. ASSUME NEW w \in Slots, Crash(w) PROVE PidInv'  BY <1>0, <1>31 DEF Crash, Goto, Alive,
                                                          shared, PidInv, Booting, Looping
<1>32. ASSUME NEW w \in Slots, NEW s \in {HUP, TERM}, SignalWorker(w, s) PROVE PidInv'
  BY <1>0, <1>32, Zenon DEF SignalWorker, shared, PidInv
<1>33. ASSUME NEW s \in {HUP, TERM}, SignalParent(s) PROVE PidInv'  BY <1>0, <1>33, Zenon DEF
                                                                       SignalParent, shared, PidInv
<1>34. CASE UNCHANGED vars  BY <1>0, <1>34, Zenon DEF vars, shared, bounds, PidInv
<1> QED
  BY <1>a, <1>0, <1>1, <1>2, <1>3, <1>4, <1>5, <1>6, <1>7, <1>8, <1>9, <1>10, <1>11, <1>12, <1>13,
     <1>14, <1>15, <1>16, <1>17, <1>18, <1>19, <1>20, <1>21, <1>22, <1>23, <1>24, <1>25, <1>26,
     <1>27, <1>28, <1>29, <1>30, <1>31, <1>32, <1>33, <1>34, Zenon DEF Next, ParentNext, WorkerNext

\* Every step keeps ParentInv.
LEMMA ParentStep ==
  TypeOK /\ PidInv /\ ParentInv /\ [Next]_vars => ParentInv'
<1>0. SUFFICES ASSUME TypeOK, PidInv, ParentInv, [Next]_vars PROVE ParentInv'
  BY Zenon
<1>a. DOMAIN pc = Slots /\ DOMAIN wpid = Slots /\ DOMAIN mypid = Slots /\ DOMAIN has_lock = Slots
  BY <1>0, Zenon DEF TypeOK
<1>1. CASE Fork  BY <1>a, <1>0, <1>1 DEF Fork, shared, parent, TypeOK, Slots, ParentInv
<1>2. CASE StorePid
  <2>1. CASE ppc = "bootpid" /\ slot + 1 < WorkerCount
    <3>1. ppc' = "boot" /\ slot' = slot + 1 /\ pc' = pc
      BY <1>2, <2>1, Zenon DEF StorePid
    <3>2. slot' \in Slots /\ \A w \in Slots : w >= slot' => pc[w] = "none"
      BY <1>0, <2>1, <3>1, WorkerAssumption DEF Slots, ParentInv
    <3> QED
      BY <3>1, <3>2, Zenon DEF ParentInv
  <2>2. CASE ~(ppc = "bootpid" /\ slot + 1 < WorkerCount)
    <3>1. ppc' = "loop" /\ slot' \in Slots
      BY <1>2, <2>2, WorkerAssumption DEF StorePid, Slots
    <3> QED
      BY <3>1, Zenon DEF ParentInv
  <2> QED
    BY <2>1, <2>2, Zenon
<1>3. CASE ParentTop
  <2>1. slot' \in Slots /\ ppc' \in {"dispatch", "sigclr"}
    BY <1>3, WorkerAssumption DEF ParentTop, Slots
  <2> QED
    BY <2>1, Zenon DEF ParentInv
<1>4. CASE ParentSigClear
  <2>1. slot' \in Slots /\ ppc' = "reap"
    BY <1>0, <1>4, Zenon DEF ParentSigClear, ParentInv
  <2> QED
    BY <2>1, Zenon DEF ParentInv
<1>5. CASE Dispatch
  <2>1. slot' \in Slots \/ ppc' = "drain"
    BY <1>0, <1>5, WorkerAssumption DEF Dispatch, Slots, ParentInv
  <2> QED
    BY <1>5, <2>1, Zenon DEF Dispatch, ParentInv
<1>6. CASE ReapNone  BY <1>0, <1>6, Zenon DEF ReapNone, ParentInv
<1>7. ASSUME NEW w \in Slots, Reap(w) PROVE ParentInv'
  BY <1>a, <1>0, <1>7, Zenon DEF Reap, Reaping, shared, PidInv, ParentInv, Booting, Looping
<1>8. CASE Recover  BY <1>0, <1>8, Zenon DEF Recover, ParentInv
<1>9. CASE ParentUnlock  BY <1>0, <1>9, Zenon DEF ParentUnlock, ParentInv
<1>10. CASE DrainDone  BY <1>10, Zenon DEF DrainDone, ParentInv
<1>11. ASSUME NEW w \in Slots, DrainReap(w) PROVE ParentInv'  BY <1>11, Zenon DEF DrainReap,
                                                                 ParentInv
<1>12. CASE DrainNoChild  BY <1>12, Zenon DEF DrainNoChild, ParentInv
<1>13. CASE DrainPass  BY <1>13, Zenon DEF DrainPass, ParentInv
<1>14. ASSUME NEW w \in Slots, ChildZero(w) PROVE ParentInv'  BY <1>0, <1>14 DEF ChildZero, Goto,
                                                                 parent, ParentInv
<1>15. ASSUME NEW w \in Slots, ChildPid(w) PROVE ParentInv'  BY <1>0, <1>15 DEF ChildPid, Goto,
                                                                parent, ParentInv
<1>16. ASSUME NEW w \in Slots, WorkerEntry(w) PROVE ParentInv'
  BY <1>0, <1>16 DEF WorkerEntry, Goto, shared, parent, ParentInv
<1>17. ASSUME NEW w \in Slots, WorkerTop(w) PROVE ParentInv'  BY <1>0, <1>17 DEF WorkerTop, Goto,
                                                                 shared, parent, ParentInv
<1>18. ASSUME NEW w \in Slots, WorkerSigClear(w) PROVE ParentInv'
  BY <1>0, <1>18 DEF WorkerSigClear, Goto, shared, parent, ParentInv
<1>19. ASSUME NEW w \in Slots, StayHolder(w) PROVE ParentInv'
  BY <1>0, <1>19 DEF StayHolder, Goto, Locking, parent, ParentInv
<1>20. ASSUME NEW w \in Slots, GoWithout(w) PROVE ParentInv'
  BY <1>0, <1>20 DEF GoWithout, Goto, Locking, shared, parent, ParentInv
<1>21. ASSUME NEW w \in Slots, TryLock(w) PROVE ParentInv'
  BY <1>0, <1>21 DEF TryLock, Goto, Locking, parent, ParentInv
<1>22. ASSUME NEW w \in Slots, SetCurrent(w) PROVE ParentInv'  BY <1>0, <1>22 DEF SetCurrent, Goto,
                                                                  parent, ParentInv
<1>23. ASSUME NEW w \in Slots, GotLock(w) PROVE ParentInv'
  BY <1>0, <1>23 DEF GotLock, Goto, parent, ParentInv
<1>24. ASSUME NEW w \in Slots, EventWait(w) PROVE ParentInv'
  <2>1. pc[w] = "wait" /\ (Goto(w, "rel") \/ Goto(w, "process"))
    BY <1>24, Zenon DEF EventWait
  <2>2. UNCHANGED <<shared, mypid, parent, bounds>>
    BY <1>24, Zenon DEF EventWait
  <2> QED
    BY <1>a, <1>0, <2>1, <2>2, Zenon DEF Goto, shared, parent, ParentInv
<1>25. ASSUME NEW w \in Slots, ReleaseCurrent(w) PROVE ParentInv'
  BY <1>0, <1>25 DEF ReleaseCurrent, Goto, parent, ParentInv
<1>26. ASSUME NEW w \in Slots, ReleaseLock(w) PROVE ParentInv'  BY <1>0, <1>26 DEF ReleaseLock,
                                                                   Goto, parent, ParentInv
<1>27. ASSUME NEW w \in Slots, Process(w) PROVE ParentInv'  BY <1>0, <1>27 DEF Process, Goto,
                                                               shared, parent, ParentInv
<1>28. ASSUME NEW w \in Slots, Exit(w) PROVE ParentInv'  BY <1>0, <1>28 DEF Exit, Goto, shared,
                                                            parent, ParentInv
<1>29. ASSUME NEW w \in Slots, ChildStray(w) PROVE ParentInv'  BY <1>0, <1>29 DEF ChildStray, Goto,
                                                                  shared, parent, ParentInv
<1>30. ASSUME NEW w \in Slots, BackoffOver(w) PROVE ParentInv'
  BY <1>0, <1>30, Zenon DEF BackoffOver, shared, parent, ParentInv
<1>31. ASSUME NEW w \in Slots, Crash(w) PROVE ParentInv'
  BY <1>0, <1>31 DEF Crash, Goto, Alive, shared, parent, ParentInv, Booting, Looping
<1>32. ASSUME NEW w \in Slots, NEW s \in {HUP, TERM}, SignalWorker(w, s) PROVE ParentInv'
  BY <1>0, <1>32, Zenon DEF SignalWorker, shared, parent, ParentInv
<1>33. ASSUME NEW s \in {HUP, TERM}, SignalParent(s) PROVE ParentInv'
  BY <1>0, <1>33, Zenon DEF SignalParent, shared, parent, ParentInv
<1>34. CASE UNCHANGED vars  BY <1>0, <1>34, Zenon DEF vars, shared, parent, ParentInv
<1> QED
  BY <1>a, <1>0, <1>1, <1>2, <1>3, <1>4, <1>5, <1>6, <1>7, <1>8, <1>9, <1>10, <1>11, <1>12, <1>13,
     <1>14, <1>15, <1>16, <1>17, <1>18, <1>19, <1>20, <1>21, <1>22, <1>23, <1>24, <1>25, <1>26,
     <1>27, <1>28, <1>29, <1>30, <1>31, <1>32, <1>33, <1>34, WorkerAssumption, Zenon DEF Next,
     ParentNext, WorkerNext

\* A step that leaves lock and current alone keeps LockInv if it makes no
\* worker a holder and moves no holder across the store to current.
LEMMA HolderFrame ==
  ASSUME LockInv,
         \A v \in Slots : Holds(v)' => Holds(v) /\ (pc'[v] \in {"own", "unlk"} <=> pc[v] \in {"own", "unlk"}),
         \A v \in Slots : pc'[v] \in Booting => has_lock'[v] = 0,
         UNCHANGED <<lock, current, mypid>>,
         ppc' = "unlock" => ppc = "unlock"
  PROVE LockInv'
  BY Zenon DEF LockInv

\* Every step keeps LockInv.
LEMMA LockStep ==
  TypeOK /\ PidInv /\ ParentInv /\ LockInv /\ [Next]_vars => LockInv'
<1>0. SUFFICES ASSUME TypeOK, PidInv, ParentInv, LockInv, [Next]_vars PROVE LockInv'
  BY Zenon
<1>a. DOMAIN pc = Slots /\ DOMAIN wpid = Slots /\ DOMAIN mypid = Slots /\ DOMAIN has_lock = Slots
  BY <1>0, Zenon DEF TypeOK
<1>1. CASE Fork  BY <1>a, <1>0, <1>1 DEF Fork, LockInv, Holds
<1>2. CASE StorePid  BY <1>0, <1>2, Zenon DEF StorePid, LockInv, Holds
<1>3. CASE ParentTop  BY <1>0, <1>3, Zenon DEF ParentTop, shared, LockInv, Holds
<1>4. CASE ParentSigClear  BY <1>0, <1>4, Zenon DEF ParentSigClear, shared, LockInv, Holds
<1>5. CASE Dispatch  BY <1>0, <1>5, Zenon DEF Dispatch, shared, LockInv, Holds
<1>6. CASE ReapNone  BY <1>0, <1>6, Zenon DEF ReapNone, shared, LockInv, Holds
<1>7. ASSUME NEW w \in Slots, Reap(w) PROVE LockInv'
  <2>1. \A v \in Slots : Holds(v)' => Holds(v) /\ (pc'[v] \in {"own", "unlk"} <=> pc[v] \in {"own", "unlk"})
    BY <1>7 DEF Holds, Reap, shared, Looping
  <2>2. \A v \in Slots : pc'[v] \in Booting => has_lock'[v] = 0
    BY <1>0, <1>7 DEF Reap, shared, LockInv, Booting
  <2>3. UNCHANGED <<lock, current, mypid>> /\ (ppc' = "unlock" => ppc = "unlock")
    BY <1>7, Zenon DEF Reap, shared
  <2> QED
    BY <1>0, <2>1, <2>2, <2>3, HolderFrame, Zenon
<1>8. CASE Recover  BY <1>0, <1>8 DEF Recover, ParentInv, PidInv, LockInv, Holds, Looping
<1>9. CASE ParentUnlock  BY <1>0, <1>9, Zenon DEF ParentUnlock, LockInv, Holds
<1>10. CASE DrainDone  BY <1>0, <1>10, Zenon DEF DrainDone, shared, LockInv, Holds
<1>11. ASSUME NEW w \in Slots, DrainReap(w) PROVE LockInv'  BY <1>0, <1>11 DEF DrainReap, LockInv,
                                                               Holds, Booting, Looping
<1>12. CASE DrainNoChild  BY <1>0, <1>12, Zenon DEF DrainNoChild, shared, LockInv, Holds
<1>13. CASE DrainPass  BY <1>0, <1>13, Zenon DEF DrainPass, shared, LockInv, Holds
<1>14. ASSUME NEW w \in Slots, ChildZero(w) PROVE LockInv'  BY <1>0, <1>14 DEF ChildZero, Goto,
                                                               parent, LockInv, Holds, Booting
<1>15. ASSUME NEW w \in Slots, ChildPid(w) PROVE LockInv'  BY <1>0, <1>15 DEF ChildPid, Goto,
                                                              parent, LockInv, Holds, Booting
<1>16. ASSUME NEW w \in Slots, WorkerEntry(w) PROVE LockInv'
  <2>0. pc[w] = "entry" /\ Goto(w, "top") /\ UNCHANGED has_lock
    BY <1>16, Zenon DEF WorkerEntry, shared
  <2>1. \A v \in Slots : Holds(v)' => Holds(v) /\ (pc'[v] \in {"own", "unlk"} <=> pc[v] \in {"own", "unlk"})
    BY <1>0, <2>0 DEF Goto, LockInv, Holds, Booting
  <2>2. \A v \in Slots : pc'[v] \in Booting => has_lock'[v] = 0
    BY <1>0, <1>16 DEF WorkerEntry, Goto, shared, LockInv, Booting
  <2>3. UNCHANGED <<lock, current, mypid>> /\ (ppc' = "unlock" => ppc = "unlock")
    BY <1>16, Zenon DEF WorkerEntry, shared, parent
  <2> QED
    BY <1>0, <2>1, <2>2, <2>3, HolderFrame, Zenon
<1>17. ASSUME NEW w \in Slots, WorkerTop(w) PROVE LockInv'
  <2>1. \A v \in Slots : Holds(v)' => Holds(v) /\ (pc'[v] \in {"own", "unlk"} <=> pc[v] \in {"own", "unlk"})
    BY <1>17 DEF Holds, WorkerTop, Goto, shared, Looping
  <2>2. \A v \in Slots : pc'[v] \in Booting => has_lock'[v] = 0
    BY <1>0, <1>17 DEF WorkerTop, Goto, shared, LockInv, Booting
  <2>3. UNCHANGED <<lock, current, mypid>> /\ (ppc' = "unlock" => ppc = "unlock")
    BY <1>17, Zenon DEF WorkerTop, shared, parent
  <2> QED
    BY <1>0, <2>1, <2>2, <2>3, HolderFrame, Zenon
<1>18. ASSUME NEW w \in Slots, WorkerSigClear(w) PROVE LockInv'
  <2>1. \A v \in Slots : Holds(v)' => Holds(v) /\ (pc'[v] \in {"own", "unlk"} <=> pc[v] \in {"own", "unlk"})
    BY <1>18 DEF Holds, WorkerSigClear, Goto, shared, Looping
  <2>2. \A v \in Slots : pc'[v] \in Booting => has_lock'[v] = 0
    BY <1>0, <1>18 DEF WorkerSigClear, Goto, shared, LockInv, Booting
  <2>3. UNCHANGED <<lock, current, mypid>> /\ (ppc' = "unlock" => ppc = "unlock")
    BY <1>18, Zenon DEF WorkerSigClear, shared, parent
  <2> QED
    BY <1>0, <2>1, <2>2, <2>3, HolderFrame, Zenon
<1>19. ASSUME NEW w \in Slots, StayHolder(w) PROVE LockInv'
  <2>1. \A v \in Slots : WorkerCount > 1 => has_lock'[v] = has_lock[v]
    BY <1>19 DEF StayHolder
  <2>2. pc[w] \in {"top", "lock"} /\ Goto(w, "wait")
    BY <1>19, Zenon DEF StayHolder, Locking, Looping
  <2>3. \A v \in Slots : Holds(v)' => Holds(v) /\ (pc'[v] \in {"own", "unlk"} <=> pc[v] \in {"own", "unlk"})
    BY <2>1, <2>2 DEF Holds, Goto, Looping
  <2>4. \A v \in Slots : pc'[v] \in Booting => has_lock'[v] = 0
    BY <1>0, <1>19, <2>2 DEF StayHolder, Goto, LockInv, Booting
  <2>5. UNCHANGED <<lock, current, mypid>> /\ (ppc' = "unlock" => ppc = "unlock")
    BY <1>19, Zenon DEF StayHolder, parent, Looping, Zombies
  <2> QED
    BY <1>0, <2>3, <2>4, <2>5, HolderFrame, Zenon DEF Zombies
<1>20. ASSUME NEW w \in Slots, GoWithout(w) PROVE LockInv'
  <2>1. \A v \in Slots : Holds(v)' => Holds(v) /\ (pc'[v] \in {"own", "unlk"} <=> pc[v] \in {"own", "unlk"})
    BY <1>a, <1>0, <1>20, Zenon DEF Holds, GoWithout, Goto, Locking, DisableAccept, shared, parent,
       Looping
  <2>2. \A v \in Slots : pc'[v] \in Booting => has_lock'[v] = 0
    BY <1>0, <1>20 DEF GoWithout, Goto, shared, LockInv
  <2>3. UNCHANGED <<lock, current, mypid>> /\ (ppc' = "unlock" => ppc = "unlock")
    BY <1>20, Zenon DEF GoWithout, shared, parent
  <2> QED
    BY <1>0, <2>1, <2>2, <2>3, HolderFrame, Zenon
<1>21. ASSUME NEW w \in Slots, TryLock(w) PROVE LockInv'
  BY <1>0, <1>21 DEF TryLock, Goto, MayTry, parent, LockInv, Holds
<1>22. ASSUME NEW w \in Slots, SetCurrent(w) PROVE LockInv'  BY <1>a, <1>0, <1>22 DEF SetCurrent,
                                                                Goto, parent, PidInv, LockInv,
                                                                Holds, Booting, Looping
<1>23. ASSUME NEW w \in Slots, GotLock(w) PROVE LockInv'
  <2>1. \A v \in Slots : Holds(v)' => Holds(v) /\ (pc'[v] \in {"own", "unlk"} <=> pc[v] \in {"own", "unlk"})
    BY <1>23 DEF Holds, GotLock, Goto
  <2>2. \A v \in Slots : pc'[v] \in Booting => has_lock'[v] = 0
    BY <1>0, <1>23 DEF GotLock, Goto, LockInv, Booting
  <2>3. UNCHANGED <<lock, current, mypid>> /\ (ppc' = "unlock" => ppc = "unlock")
    BY <1>23, Zenon DEF GotLock, parent
  <2> QED
    BY <1>0, <2>1, <2>2, <2>3, HolderFrame, Zenon
<1>24. ASSUME NEW w \in Slots, EventWait(w) PROVE LockInv'
  <2>1. \A v \in Slots : Holds(v)' => Holds(v) /\ (pc'[v] \in {"own", "unlk"} <=> pc[v] \in {"own", "unlk"})
    BY <1>24 DEF Holds, EventWait, Goto, shared, Looping
  <2>2. \A v \in Slots : pc'[v] \in Booting => has_lock'[v] = 0
    BY <1>0, <1>24 DEF EventWait, Goto, shared, LockInv, Booting
  <2>3. UNCHANGED <<lock, current, mypid>> /\ (ppc' = "unlock" => ppc = "unlock")
    BY <1>24, Zenon DEF EventWait, shared, parent
  <2> QED
    BY <1>0, <2>1, <2>2, <2>3, HolderFrame, Zenon
<1>25. ASSUME NEW w \in Slots, ReleaseCurrent(w) PROVE LockInv'
  BY <1>a, <1>0, <1>25, Zenon DEF ReleaseCurrent, Goto, parent, LockInv, Holds, Booting
<1>26. ASSUME NEW w \in Slots, ReleaseLock(w) PROVE LockInv'  BY <1>a, <1>0, <1>26 DEF ReleaseLock,
                                                                 Goto, shared, parent, LockInv,
                                                                 Holds
<1>27. ASSUME NEW w \in Slots, Process(w) PROVE LockInv'
  <2>1. \A v \in Slots : Holds(v)' => Holds(v) /\ (pc'[v] \in {"own", "unlk"} <=> pc[v] \in {"own", "unlk"})
    BY <1>a, <1>27, Zenon DEF Holds, Process, Goto, shared, parent, Looping
  <2>2. \A v \in Slots : pc'[v] \in Booting => has_lock'[v] = 0
    BY <1>0, <1>27 DEF Process, Goto, shared, LockInv, Booting
  <2>3. UNCHANGED <<lock, current, mypid>> /\ (ppc' = "unlock" => ppc = "unlock")
    BY <1>27, Zenon DEF Process, shared, parent
  <2> QED
    BY <1>0, <2>1, <2>2, <2>3, HolderFrame, Zenon
<1>28. ASSUME NEW w \in Slots, Exit(w) PROVE LockInv'
  <2>1. \A v \in Slots : Holds(v)' => Holds(v) /\ (pc'[v] \in {"own", "unlk"} <=> pc[v] \in {"own", "unlk"})
    BY <1>28 DEF Holds, Exit, Goto, shared, Looping
  <2>2. \A v \in Slots : pc'[v] \in Booting => has_lock'[v] = 0
    BY <1>0, <1>28 DEF Exit, Goto, shared, LockInv, Booting, Looping
  <2>3. UNCHANGED <<lock, current, mypid>> /\ (ppc' = "unlock" => ppc = "unlock")
    BY <1>28, Zenon DEF Exit, shared, parent
  <2> QED
    BY <1>0, <2>1, <2>2, <2>3, HolderFrame, Zenon
<1>29. ASSUME NEW w \in Slots, ChildStray(w) PROVE LockInv'  BY <1>0, <1>29 DEF ChildStray, Goto,
                                                                shared, parent, LockInv, Holds,
                                                                Booting
<1>30. ASSUME NEW w \in Slots, BackoffOver(w) PROVE LockInv'
  BY <1>0, <1>30, Zenon DEF BackoffOver, shared, parent, LockInv, Holds
<1>31. ASSUME NEW w \in Slots, Crash(w) PROVE LockInv'
  BY <1>0, <1>31 DEF Crash, Goto, shared, parent, LockInv, Holds, Booting, Looping
<1>32. ASSUME NEW w \in Slots, NEW s \in {HUP, TERM}, SignalWorker(w, s) PROVE LockInv'
  BY <1>0, <1>32, Zenon DEF SignalWorker, shared, parent, LockInv, Holds
<1>33. ASSUME NEW s \in {HUP, TERM}, SignalParent(s) PROVE LockInv'  BY <1>0, <1>33, Zenon DEF
                                                                        SignalParent, shared,
                                                                        parent, PidInv, LockInv,
                                                                        Holds
<1>34. CASE UNCHANGED vars  BY <1>0, <1>34, Zenon DEF vars, shared, parent, LockInv, Holds
<1> QED
  BY <1>a, <1>0, <1>1, <1>2, <1>3, <1>4, <1>5, <1>6, <1>7, <1>8, <1>9, <1>10, <1>11, <1>12, <1>13,
     <1>14, <1>15, <1>16, <1>17, <1>18, <1>19, <1>20, <1>21, <1>22, <1>23, <1>24, <1>25, <1>26,
     <1>27, <1>28, <1>29, <1>30, <1>31, <1>32, <1>33, <1>34, Zenon DEF Next, ParentNext, WorkerNext

\* Every step keeps AcceptInv.
LEMMA AcceptStep ==
  TypeOK /\ ParentInv /\ LockInv /\ CountInv /\ AcceptInv /\ [Next]_vars => AcceptInv'
<1>0. SUFFICES ASSUME TypeOK, ParentInv, LockInv, CountInv, AcceptInv, [Next]_vars PROVE AcceptInv'
  BY Zenon
<1>a. /\ DOMAIN pc = Slots /\ has_lock \in [Slots -> {0, 1}] /\ had_lock \in [Slots -> {0, 1}]
    /\ active \in [Slots -> 0 .. UintMax] /\ accepting \in [Slots -> BOOLEAN]
  BY <1>0, Zenon DEF TypeOK
<1>1. CASE Fork  BY <1>a, <1>0, <1>1, Zenon DEF Fork, local, AcceptInv, Looping
<1>2. CASE StorePid  BY <1>0, <1>2, Zenon DEF StorePid, local, counters, AcceptInv
<1>3. CASE ParentTop  BY <1>0, <1>3, Zenon DEF ParentTop, shared, local, counters, AcceptInv
<1>4. CASE ParentSigClear  BY <1>0, <1>4, Zenon DEF ParentSigClear, shared, local, counters,
                              AcceptInv
<1>5. CASE Dispatch  BY <1>0, <1>5, Zenon DEF Dispatch, shared, local, counters, AcceptInv
<1>6. CASE ReapNone  BY <1>0, <1>6, Zenon DEF ReapNone, shared, local, counters, AcceptInv
<1>7. ASSUME NEW w \in Slots, Reap(w) PROVE AcceptInv'  BY <1>0, <1>7 DEF Reap, shared, local,
                                                           counters, AcceptInv, Looping
<1>8. CASE Recover  BY <1>0, <1>8, Zenon DEF Recover, local, counters, AcceptInv
<1>9. CASE ParentUnlock  BY <1>0, <1>9, Zenon DEF ParentUnlock, local, counters, AcceptInv
<1>10. CASE DrainDone  BY <1>0, <1>10, Zenon DEF DrainDone, shared, local, counters, AcceptInv
<1>11. ASSUME NEW w \in Slots, DrainReap(w) PROVE AcceptInv'  BY <1>0, <1>11 DEF DrainReap, local,
                                                                 counters, AcceptInv, Looping
<1>12. CASE DrainNoChild  BY <1>0, <1>12, Zenon DEF DrainNoChild, local, AcceptInv
<1>13. CASE DrainPass  BY <1>0, <1>13, Zenon DEF DrainPass, shared, local, counters, AcceptInv
<1>14. ASSUME NEW w \in Slots, ChildZero(w) PROVE AcceptInv'  BY <1>0, <1>14 DEF ChildZero, Goto,
                                                                 local, counters, AcceptInv, Looping
<1>15. ASSUME NEW w \in Slots, ChildPid(w) PROVE AcceptInv'  BY <1>0, <1>15 DEF ChildPid, Goto,
                                                                local, counters, AcceptInv, Looping
<1>16. ASSUME NEW w \in Slots, WorkerEntry(w) PROVE AcceptInv'
  <2>1. pc'[w] = "top" /\ ~accepting'[w] /\ had_lock'[w] = 0 /\ UNCHANGED active
    BY <1>a, <1>16, Zenon DEF WorkerEntry, Goto, Forget, counters
  <2>2. \A v \in Slots : v # w => /\ pc'[v] = pc[v]
                                   /\ had_lock'[v] = had_lock[v] /\ accepting'[v] = accepting[v]
    BY <1>16 DEF WorkerEntry, Goto, Forget
  <2>3. has_lock'[w] = 0 /\ UNCHANGED has_lock
    BY <1>0, <1>16, Zenon DEF WorkerEntry, shared, LockInv, Booting
  <2> QED
    BY <1>0, <2>1, <2>2, <2>3 DEF AcceptInv
<1>17. ASSUME NEW w \in Slots, WorkerTop(w) PROVE AcceptInv'  BY <1>0, <1>17 DEF WorkerTop, Goto,
                                                                 shared, counters, AcceptInv,
                                                                 Looping
<1>18. ASSUME NEW w \in Slots, WorkerSigClear(w) PROVE AcceptInv'
  BY <1>0, <1>18 DEF WorkerSigClear, Goto, shared, local, counters, AcceptInv, Looping
<1>19. ASSUME NEW w \in Slots, StayHolder(w) PROVE AcceptInv'
  <2>1. pc[w] \in {"top", "lock"} /\ Goto(w, "wait") /\ UNCHANGED active
    BY <1>19, Zenon DEF StayHolder, Locking, counters
  <2>2. has_lock' = [has_lock EXCEPT ![w] = 1] /\ (WorkerCount > 1 => has_lock[w] = 1)
    BY <1>19 DEF StayHolder
  <2>3. CASE backoff[w]
    <3>1. UNCHANGED <<had_lock, accepting>>
      BY <1>19, <2>3, Zenon DEF StayHolder
    <3>2. has_lock[w] = 1 /\ UNCHANGED has_lock
      BY <1>a, <1>0, <1>19, <2>3, Zenon DEF StayHolder
    <3>3. pc'[w] = "wait" /\ \A v \in Slots : v # w => pc'[v] = pc[v]
      BY <1>a, <2>1, Zenon DEF Goto
    <3> QED
      BY <1>0, <2>1, <3>1, <3>2, <3>3, Zenon DEF AcceptInv, Looping
  <2>4. CASE ~backoff[w]
    <3>1. EnableAccept(w)
      BY <1>19, <2>4, Zenon DEF StayHolder
    <3> QED
      BY <1>a, <1>0, <2>1, <2>2, <3>1, Zenon DEF EnableAccept, Goto, AcceptInv, Looping
  <2> QED
    BY <2>3, <2>4, Zenon
<1>20. ASSUME NEW w \in Slots, GoWithout(w) PROVE AcceptInv'
  <2>1. pc[w] \in {"top", "lock"} /\ Goto(w, "wait") /\ UNCHANGED <<active, has_lock>>
    BY <1>20, Zenon DEF GoWithout, Locking, shared, counters
  <2>2. has_lock[w] = 0 /\ DisableAccept(w)
    BY <1>20, Zenon DEF GoWithout
  <2>3. had_lock'[w] = 0
    BY <1>a, <2>2, Zenon DEF DisableAccept
  <2>4. accepting'[w] <=> accepting[w] /\ had_lock[w] = 0
    BY <1>a, <2>2, Zenon DEF DisableAccept
  <2>5. ~accepting'[w]
    BY <1>0, <2>1, <2>4 DEF AcceptInv, Looping
  <2> QED
    BY <1>0, <2>1, <2>2, <2>3, <2>5 DEF DisableAccept, Goto, AcceptInv
<1>21. ASSUME NEW w \in Slots, TryLock(w) PROVE AcceptInv'
  BY <1>0, <1>21 DEF TryLock, Goto, Locking, MayTry, local, counters, AcceptInv, Looping
<1>22. ASSUME NEW w \in Slots, SetCurrent(w) PROVE AcceptInv'  BY <1>0, <1>22 DEF SetCurrent, Goto,
                                                                  local, counters, AcceptInv,
                                                                  Looping, Zombies
<1>23. ASSUME NEW w \in Slots, GotLock(w) PROVE AcceptInv'
  BY <1>a, <1>0, <1>23, ZenonT(60) DEF GotLock, Goto, EnableAccept, shared, local, counters, AcceptInv,
     Booting, Looping, Zombies
<1>24. ASSUME NEW w \in Slots, EventWait(w) PROVE AcceptInv'
  <2>1. PICK n \in 0 .. MaxConn, failed \in BOOLEAN :
          /\ active' = [active EXCEPT ![w] = active[w] + n]
          /\ Goto(w, IF has_lock[w] = 1 /\ (IF failed THEN 1 ELSE n) > 0 /\ WorkerCount > 1
                     THEN "rel" ELSE "process")
    BY <1>24, Zenon DEF EventWait, Booting, Looping
  <2>2. pc[w] = "wait" /\ UNCHANGED <<shared, had_lock, accepting>>
    BY <1>24, Zenon DEF EventWait
  <2> QED
    BY <1>a, <1>0, <2>1, <2>2 DEF Goto, shared, AcceptInv, Looping
<1>25. ASSUME NEW w \in Slots, ReleaseCurrent(w) PROVE AcceptInv'
  BY <1>0, <1>25 DEF ReleaseCurrent, Goto, local, counters, AcceptInv, Looping
<1>26. ASSUME NEW w \in Slots, ReleaseLock(w) PROVE AcceptInv'  BY <1>a, <1>0, <1>26 DEF
                                                                   ReleaseLock, Goto, local,
                                                                   counters, AcceptInv, Looping
<1>27. ASSUME NEW w \in Slots, Process(w) PROVE AcceptInv'
  <2>1. PICK n \in 0 .. conns[w] : active' = [active EXCEPT ![w] = active[w] - n]
    BY <1>27, Zenon DEF Process
  <2>2. pc[w] = "process" /\ Goto(w, "top") /\ UNCHANGED <<has_lock, had_lock, accepting>>
    BY <1>27, Zenon DEF Process, shared
  <2>3. active'[w] \in Nat /\ active'[w] <= active[w] /\ \A v \in Slots : v # w => active'[v] = active[v]
    BY <1>0, <2>1 DEF CountInv, TypeOK
  <2> QED
    BY <1>a, <1>0, <2>2, <2>3, WorkerAssumption DEF Goto, AcceptInv, Looping
<1>28. ASSUME NEW w \in Slots, Exit(w) PROVE AcceptInv'  BY <1>a, <1>0, <1>28, SMTT(30) DEF Exit, Goto,
                                                            Forget, shared, AcceptInv
<1>29. ASSUME NEW w \in Slots, ChildStray(w) PROVE AcceptInv'  BY <1>0, <1>29 DEF ChildStray, Goto,
                                                                  shared, local, counters,
                                                                  AcceptInv, Looping
<1>30. ASSUME NEW w \in Slots, BackoffOver(w) PROVE AcceptInv'
  BY <1>0, <1>30, Zenon DEF BackoffOver, shared, counters, AcceptInv
<1>31. ASSUME NEW w \in Slots, Crash(w) PROVE AcceptInv'
  BY <1>a, <1>0, <1>31 DEF Crash, Goto, Forget, shared, AcceptInv
<1>32. ASSUME NEW w \in Slots, NEW s \in {HUP, TERM}, SignalWorker(w, s) PROVE AcceptInv'
  BY <1>0, <1>32, Zenon DEF SignalWorker, shared, local, counters, AcceptInv
<1>33. ASSUME NEW s \in {HUP, TERM}, SignalParent(s) PROVE AcceptInv'
  BY <1>0, <1>33, Zenon DEF SignalParent, shared, local, counters, AcceptInv
<1>34. CASE UNCHANGED vars  BY <1>0, <1>34, Zenon DEF vars, shared, local, counters, AcceptInv,
                               Booting
<1> QED
  BY <1>a, <1>0, <1>1, <1>2, <1>3, <1>4, <1>5, <1>6, <1>7, <1>8, <1>9, <1>10, <1>11, <1>12, <1>13,
     <1>14, <1>15, <1>16, <1>17, <1>18, <1>19, <1>20, <1>21, <1>22, <1>23, <1>24, <1>25, <1>26,
     <1>27, <1>28, <1>29, <1>30, <1>31, <1>32, <1>33, <1>34, Zenon DEF Next, ParentNext, WorkerNext

\* A worker that goes from place to place in its loop keeps what the counters are.
LEMMA LoopKeepsCount ==
  ASSUME CountInv, DOMAIN pc = Slots, NEW w \in Slots, pc[w] \in Looping, NEW l \in Looping, Goto(w, l),
         UNCHANGED <<conns, active, ppc, npid, slot, pactive>>
  PROVE  CountInv'
<1>1. pc'[w] \in Looping /\ \A v \in Slots : v # w => pc'[v] = pc[v]
  BY Zenon DEF Goto
<1>2. \A v \in Slots : /\ pc'[v] \notin Looping => pc[v] \notin Looping
                       /\ pc'[v] \in Booting \cup Looping => pc[v] \in Booting \cup Looping
  BY <1>1, Zenon
<1> QED
  BY <1>2, Zenon DEF CountInv, FewForks

\* Every step keeps CountInv.
LEMMA CountStep ==
  TypeOK /\ ParentInv /\ CountInv /\ [Next]_vars => CountInv'
<1>0. SUFFICES ASSUME TypeOK, ParentInv, CountInv, [Next]_vars PROVE CountInv'
  BY Zenon
<1>a. /\ DOMAIN pc = Slots /\ active \in [Slots -> 0 .. UintMax] /\ conns \in [Slots -> 0 .. MaxConn]
    /\ pactive \in 0 .. UintMax /\ npid \in Nat /\ slot \in 0 .. WorkerCount
  BY <1>0, Zenon DEF TypeOK
<1>1. CASE Fork
  <2>1. slot \in Slots /\ pc[slot] = "none" /\ npid' = npid + 1 /\ UNCHANGED conns
    BY <1>a, <1>0, <1>1 DEF Fork, ParentInv, local
  <2>2. /\ npid' <= WorkerCount => pactive' = 0
        /\ npid' > WorkerCount /\ FewForks' => pactive' = UintMax + 1 + WorkerCount - npid'
    BY <1>a, <1>0, <1>1, <2>1, WorkerAssumption DEF Fork, Uncount, Slots, CountInv, FewForks
  <2>3. pactive' \in 0 .. UintMax /\ active' = [active EXCEPT ![slot] = pactive']
    BY <1>a, <1>1, WorkerAssumption DEF Fork, Uncount
  <2>4. pc' = [pc EXCEPT ![slot] = "forked"]
    BY <1>1, Zenon DEF Fork
  <2>5. /\ ppc' = "bootpid" => npid' = slot' + 1
        /\ ppc' # "bootpid" => npid' >= WorkerCount
        /\ ppc' # "boot"
    BY <1>a, <1>0, <1>1, WorkerAssumption DEF Fork, CountInv
  <2> QED
    BY <1>a, <1>0, <2>1, <2>2, <2>3, <2>4, <2>5, WorkerAssumption DEF CountInv, FewForks, Looping
<1>2. CASE StorePid
  BY <1>a, <1>0, <1>2, WorkerAssumption DEF StorePid, local, counters, bounds, CountInv, FewForks
<1>3. CASE ParentTop
  BY <1>0, <1>3, Zenon DEF ParentTop, local, counters, bounds, CountInv, FewForks
<1>4. CASE ParentSigClear
  BY <1>0, <1>4, Zenon DEF ParentSigClear, local, counters, bounds, CountInv, FewForks
<1>5. CASE Dispatch
  BY <1>0, <1>5, Zenon DEF Dispatch, local, counters, parent, bounds, CountInv, FewForks, Booting,
     Looping
<1>6. CASE ReapNone
  BY <1>0, <1>6, Zenon DEF ReapNone, local, counters, bounds, CountInv, FewForks
<1>7. ASSUME NEW w \in Slots, Reap(w) PROVE CountInv'
  BY <1>0, <1>7 DEF Reap, Reaping, local, counters, bounds, CountInv, FewForks, Booting, Looping,
     Zombies
<1>8. CASE Recover
  BY <1>0, <1>8, Zenon DEF Recover, local, counters, bounds, CountInv, FewForks
<1>9. CASE ParentUnlock
  BY <1>0, <1>9, Zenon DEF ParentUnlock, local, counters, bounds, CountInv, FewForks
<1>10. CASE DrainDone
  BY <1>0, <1>10, Zenon DEF DrainDone, local, counters, bounds, CountInv, FewForks
<1>11. ASSUME NEW w \in Slots, DrainReap(w) PROVE CountInv'
  BY <1>0, <1>11 DEF DrainReap, local, counters, bounds, CountInv, FewForks, Booting, Looping,
     Zombies
<1>12. CASE DrainNoChild
  BY <1>0, <1>12, Zenon DEF DrainNoChild, local, counters, bounds, CountInv, FewForks
<1>13. CASE DrainPass
  BY <1>0, <1>13, Zenon DEF DrainPass, local, counters, bounds, CountInv, FewForks
<1>14. ASSUME NEW w \in Slots, ChildZero(w) PROVE CountInv'
  BY <1>0, <1>14 DEF ChildZero, Goto, local, counters, parent, bounds, CountInv, FewForks, Booting,
     Looping
<1>15. ASSUME NEW w \in Slots, ChildPid(w) PROVE CountInv'
  BY <1>0, <1>15 DEF ChildPid, Goto, local, counters, parent, bounds, CountInv, FewForks, Booting,
     Looping
<1>16. ASSUME NEW w \in Slots, WorkerEntry(w) PROVE CountInv'
  BY <1>0, <1>16 DEF WorkerEntry, Goto, Forget, counters, parent, bounds, CountInv, FewForks,
     Booting, Looping
<1>17. ASSUME NEW w \in Slots, WorkerTop(w) PROVE CountInv'
  <2>1. pc[w] \in Looping /\ Goto(w, "sigclr") /\ "sigclr" \in Looping
    BY <1>17, Zenon DEF WorkerTop, Looping
  <2>2. UNCHANGED <<conns, active, ppc, npid, slot, pactive>>
    BY <1>17, Zenon DEF WorkerTop, counters, parent, bounds
  <2> QED
    BY <1>a, <1>0, <2>1, <2>2, LoopKeepsCount, Zenon
<1>18. ASSUME NEW w \in Slots, WorkerSigClear(w) PROVE CountInv'
  <2>1. pc[w] \in Looping /\ Goto(w, "lock") /\ "lock" \in Looping
    BY <1>18, Zenon DEF WorkerSigClear, Looping
  <2>2. UNCHANGED <<conns, active, ppc, npid, slot, pactive>>
    BY <1>18, Zenon DEF WorkerSigClear, local, counters, parent, bounds
  <2> QED
    BY <1>a, <1>0, <2>1, <2>2, LoopKeepsCount, Zenon
<1>19. ASSUME NEW w \in Slots, StayHolder(w) PROVE CountInv'
  <2>1. pc[w] \in Looping /\ Goto(w, "wait") /\ "wait" \in Looping
    BY <1>19, Zenon DEF StayHolder, Locking, Looping
  <2>2. UNCHANGED <<conns, active, ppc, npid, slot, pactive>>
    BY <1>19, Zenon DEF StayHolder, counters, parent, bounds
  <2> QED
    BY <1>a, <1>0, <2>1, <2>2, LoopKeepsCount, Zenon
<1>20. ASSUME NEW w \in Slots, GoWithout(w) PROVE CountInv'
  <2>1. pc[w] \in Looping /\ Goto(w, "wait") /\ "wait" \in Looping
    BY <1>20, Zenon DEF GoWithout, Locking, Looping
  <2>2. UNCHANGED <<conns, active, ppc, npid, slot, pactive>>
    BY <1>20, Zenon DEF GoWithout, counters, parent, bounds
  <2> QED
    BY <1>a, <1>0, <2>1, <2>2, LoopKeepsCount, Zenon
<1>21. ASSUME NEW w \in Slots, TryLock(w) PROVE CountInv'
  <2>1. pc[w] \in Looping /\ Goto(w, "own") /\ "own" \in Looping
    BY <1>21, Zenon DEF TryLock, Locking, Looping
  <2>2. UNCHANGED <<conns, active, ppc, npid, slot, pactive>>
    BY <1>21, Zenon DEF TryLock, local, counters, parent, bounds
  <2> QED
    BY <1>a, <1>0, <2>1, <2>2, LoopKeepsCount, Zenon
<1>22. ASSUME NEW w \in Slots, SetCurrent(w) PROVE CountInv'
  <2>1. pc[w] \in Looping /\ Goto(w, "got") /\ "got" \in Looping
    BY <1>22, Zenon DEF SetCurrent, Looping
  <2>2. UNCHANGED <<conns, active, ppc, npid, slot, pactive>>
    BY <1>22, Zenon DEF SetCurrent, local, counters, parent, bounds
  <2> QED
    BY <1>a, <1>0, <2>1, <2>2, LoopKeepsCount, Zenon
<1>23. ASSUME NEW w \in Slots, GotLock(w) PROVE CountInv'
  <2>1. pc[w] \in Looping /\ Goto(w, "wait") /\ "wait" \in Looping
    BY <1>23, Zenon DEF GotLock, Looping
  <2>2. UNCHANGED <<conns, active, ppc, npid, slot, pactive>>
    BY <1>23, Zenon DEF GotLock, counters, parent, bounds
  <2> QED
    BY <1>a, <1>0, <2>1, <2>2, LoopKeepsCount, Zenon
<1>24. ASSUME NEW w \in Slots, EventWait(w) PROVE CountInv'
  <2>1. PICK n \in 0 .. MaxConn : /\ n > 0 => active[w] + n <= MaxConn
                                  /\ active' = [active EXCEPT ![w] = active[w] + n]
                                  /\ conns' = [conns EXCEPT ![w] = conns[w] + n]
    BY <1>24, Zenon DEF EventWait
  <2>2. pc[w] = "wait" /\ (Goto(w, "rel") \/ Goto(w, "process"))
    BY <1>24, Zenon DEF EventWait
  <2>3. UNCHANGED <<npid, pactive, ppc, slot>>
    BY <1>24, Zenon DEF EventWait, bounds, parent
  <2>a. active' = [active EXCEPT ![w] = active[w] + n] /\ conns' = [conns EXCEPT ![w] = conns[w] + n]
    BY <2>1, Zenon
  <2>b. active'[w] = active[w] + n /\ conns'[w] = conns[w] + n
    BY <1>a, <2>a, Zenon
  <2>c. \A v \in Slots : v # w => active'[v] = active[v] /\ conns'[v] = conns[v]
    BY <2>a
  <2>d. pc'[w] \in Looping /\ \A v \in Slots : v # w => pc'[v] = pc[v]
    BY <1>a, <2>2, Zenon DEF Goto, Looping
  <2>4. active[w] \in Nat /\ conns[w] \in Nat /\ n \in Nat
    BY <1>a
  <2>5. FewForks => active'[w] = conns'[w] \/ (active'[w] >= MaxConn /\ conns'[w] = 0)
    <3>1. CASE n = 0  BY <1>0, <2>b, <2>2, <2>4, <3>1 DEF CountInv, Looping
    <3>2. CASE n > 0  BY <1>0, <2>b, <2>1, <2>2, <2>4, WorkerAssumption DEF CountInv, Looping
    <3> QED  BY <3>1, <3>2, SMTT(30)
  <2>6. \A v \in Slots : conns'[v] <= active'[v]
    BY <1>0, <2>b, <2>c, <2>4 DEF CountInv
  <2>7. \A v \in Slots : pc'[v] \notin Looping => conns'[v] = 0
    BY <1>0, <2>c, <2>d, Zenon DEF CountInv
  <2>8. FewForks => \A v \in Slots : pc'[v] \in Booting \cup Looping =>
                     active'[v] = conns'[v] \/ (active'[v] >= MaxConn /\ conns'[v] = 0)
    BY <1>0, <2>c, <2>d, <2>5, Zenon DEF CountInv
  <2> QED
    BY <1>a, <1>0, <2>3, <2>6, <2>7, <2>8, Zenon DEF CountInv, FewForks
<1>25. ASSUME NEW w \in Slots, ReleaseCurrent(w) PROVE CountInv'
  <2>1. pc[w] \in Looping /\ Goto(w, "unlk") /\ "unlk" \in Looping
    BY <1>25, Zenon DEF ReleaseCurrent, Looping
  <2>2. UNCHANGED <<conns, active, ppc, npid, slot, pactive>>
    BY <1>25, Zenon DEF ReleaseCurrent, local, counters, parent, bounds
  <2> QED
    BY <1>a, <1>0, <2>1, <2>2, LoopKeepsCount, Zenon
<1>26. ASSUME NEW w \in Slots, ReleaseLock(w) PROVE CountInv'
  <2>1. pc[w] \in Looping /\ Goto(w, "process") /\ "process" \in Looping
    BY <1>26, Zenon DEF ReleaseLock, Looping
  <2>2. UNCHANGED <<conns, active, ppc, npid, slot, pactive>>
    BY <1>26, Zenon DEF ReleaseLock, local, counters, parent, bounds
  <2> QED
    BY <1>a, <1>0, <2>1, <2>2, LoopKeepsCount, Zenon
<1>27. ASSUME NEW w \in Slots, Process(w) PROVE CountInv'
  <2>1. PICK n \in 0 .. conns[w] : /\ conns' = [conns EXCEPT ![w] = conns[w] - n]
                                   /\ active' = [active EXCEPT ![w] = active[w] - n]
    BY <1>27, Zenon DEF Process
  <2>2. pc[w] = "process" /\ Goto(w, "top") /\ UNCHANGED <<npid, pactive, ppc, slot>>
    BY <1>27, Zenon DEF Process, bounds, parent
  <2> QED
    BY <1>a, <1>0, <2>1, <2>2 DEF Goto, CountInv, FewForks, Looping
<1>28. ASSUME NEW w \in Slots, Exit(w) PROVE CountInv'
  BY <1>a, <1>0, <1>28 DEF Exit, Goto, Forget, parent, bounds, CountInv, FewForks
<1>29. ASSUME NEW w \in Slots, ChildStray(w) PROVE CountInv'
  BY <1>0, <1>29 DEF ChildStray, Goto, local, counters, parent, bounds, CountInv, FewForks, Booting,
     Looping
<1>30. ASSUME NEW w \in Slots, BackoffOver(w) PROVE CountInv'
  BY <1>0, <1>30, Zenon DEF BackoffOver, counters, parent, bounds, CountInv, FewForks
<1>31. ASSUME NEW w \in Slots, Crash(w) PROVE CountInv'
  BY <1>a, <1>0, <1>31 DEF Crash, Goto, Forget, parent, CountInv, FewForks
<1>32. ASSUME NEW w \in Slots, NEW s \in {HUP, TERM}, SignalWorker(w, s) PROVE CountInv'
  BY <1>0, <1>32, Zenon DEF SignalWorker, local, counters, parent, CountInv, FewForks
<1>33. ASSUME NEW s \in {HUP, TERM}, SignalParent(s) PROVE CountInv'
  BY <1>0, <1>33, Zenon DEF SignalParent, local, counters, parent, CountInv, FewForks
<1>34. CASE UNCHANGED vars
  BY <1>0, <1>34, Zenon DEF vars, local, counters, parent, bounds, CountInv, FewForks
<1> QED
  BY <1>a, <1>0, <1>1, <1>2, <1>3, <1>4, <1>5, <1>6, <1>7, <1>8, <1>9, <1>10, <1>11, <1>12, <1>13,
     <1>14, <1>15, <1>16, <1>17, <1>18, <1>19, <1>20, <1>21, <1>22, <1>23, <1>24, <1>25, <1>26,
     <1>27, <1>28, <1>29, <1>30, <1>31, <1>32, <1>33, <1>34, WorkerAssumption, Zenon DEF Next,
     ParentNext, WorkerNext

\* Every step keeps CurrentInv.
LEMMA CurrentStep ==
  TypeOK /\ PidInv /\ ParentInv /\ LockInv /\ AcceptInv /\ CurrentInv /\ [Next]_vars => CurrentInv'
<1>0. SUFFICES ASSUME TypeOK, PidInv, ParentInv, LockInv, AcceptInv, CurrentInv, [Next]_vars
             PROVE  CurrentInv'
  BY Zenon
<1>a. /\ DOMAIN pc = Slots /\ DOMAIN wpid = Slots /\ DOMAIN mypid = Slots /\ DOMAIN has_lock = Slots
    /\ current \in Nat /\ npid \in Nat /\ wpid \in [Slots -> Nat] /\ mypid \in [Slots -> Nat]
  BY <1>0, Zenon DEF TypeOK
<1>1. CASE Fork  BY <1>a, <1>0, <1>1 DEF Fork, CurrentInv, Holds
<1>2. CASE StorePid  BY <1>0, <1>2 DEF StorePid, bounds, CurrentInv, Holds
<1>3. CASE ParentTop  BY <1>0, <1>3, Zenon DEF ParentTop, shared, bounds, CurrentInv, Holds
<1>4. CASE ParentSigClear  BY <1>0, <1>4, Zenon DEF ParentSigClear, shared, bounds, CurrentInv,
                              Holds
<1>5. CASE Dispatch  BY <1>0, <1>5, Zenon DEF Dispatch, shared, bounds, CurrentInv, Holds
<1>6. CASE ReapNone  BY <1>0, <1>6, Zenon DEF ReapNone, shared, bounds, CurrentInv, Holds
<1>7. ASSUME NEW w \in Slots, Reap(w) PROVE CurrentInv'
  BY <1>0, <1>7 DEF Reap, shared, bounds, CurrentInv, Holds
<1>8. CASE Recover  BY <1>a, <1>0, <1>8 DEF Recover, bounds, CurrentInv, Holds
<1>9. CASE ParentUnlock  BY <1>0, <1>9, Zenon DEF ParentUnlock, bounds, CurrentInv, LockInv
<1>10. CASE DrainDone  BY <1>0, <1>10, Zenon DEF DrainDone, shared, bounds, CurrentInv, Holds
<1>11. ASSUME NEW w \in Slots, DrainReap(w) PROVE CurrentInv'
  BY <1>a, <1>0, <1>11, Zenon DEF DrainReap, bounds, CurrentInv, Holds
<1>12. CASE DrainNoChild  BY <1>0, <1>12, Zenon DEF DrainNoChild, shared, bounds, CurrentInv
<1>13. CASE DrainPass  BY <1>0, <1>13, Zenon DEF DrainPass, shared, bounds, CurrentInv, Holds
<1>14. ASSUME NEW w \in Slots, ChildZero(w) PROVE CurrentInv'
  BY <1>0, <1>14 DEF ChildZero, Goto, bounds, CurrentInv, LockInv, Holds, Booting, Zombies
<1>15. ASSUME NEW w \in Slots, ChildPid(w) PROVE CurrentInv'
  BY <1>0, <1>15 DEF ChildPid, Goto, bounds, CurrentInv, LockInv, Holds, Booting, Zombies
<1>16. ASSUME NEW w \in Slots, WorkerEntry(w) PROVE CurrentInv'
  BY <1>0, <1>16 DEF WorkerEntry, Goto, shared, bounds, CurrentInv, LockInv, Holds, Booting, Zombies
<1>17. ASSUME NEW w \in Slots, WorkerTop(w) PROVE CurrentInv'
  BY <1>a, <1>0, <1>17, Zenon DEF WorkerTop, Goto, shared, bounds, CurrentInv, Holds, Looping,
     Zombies
<1>18. ASSUME NEW w \in Slots, WorkerSigClear(w) PROVE CurrentInv'
  BY <1>a, <1>0, <1>18, Zenon DEF WorkerSigClear, Goto, shared, parent, bounds, CurrentInv, PidInv,
     Holds, Looping, Zombies
<1>19. ASSUME NEW w \in Slots, StayHolder(w) PROVE CurrentInv'
  BY <1>a, <1>0, <1>19, Zenon DEF StayHolder, Goto, Locking, bounds, CurrentInv, Holds, Booting,
     Looping, Zombies
<1>20. ASSUME NEW w \in Slots, GoWithout(w) PROVE CurrentInv'
  BY <1>a, <1>0, <1>20, Zenon DEF GoWithout, Goto, Locking, shared, bounds, CurrentInv, Holds,
     Looping, Zombies
<1>21. ASSUME NEW w \in Slots, TryLock(w) PROVE CurrentInv'
  BY <1>a, <1>0, <1>21, Zenon DEF TryLock, Goto, bounds, CurrentInv, Holds
<1>22. ASSUME NEW w \in Slots, SetCurrent(w) PROVE CurrentInv'
  BY <1>0, <1>22 DEF SetCurrent, Goto, bounds, CurrentInv, PidInv, Holds, Looping
<1>23. ASSUME NEW w \in Slots, GotLock(w) PROVE CurrentInv'
  BY <1>a, <1>0, <1>23, Zenon DEF GotLock, Goto, bounds, AcceptInv, CurrentInv, Holds, Looping
<1>24. ASSUME NEW w \in Slots, EventWait(w) PROVE CurrentInv'
  <2>1. pc[w] = "wait" /\ (Goto(w, "rel") \/ Goto(w, "process"))
    BY <1>24, Zenon DEF EventWait
  <2>2. UNCHANGED <<shared, mypid, bounds>>
    BY <1>24, Zenon DEF EventWait
  <2> QED
    BY <1>a, <1>0, <2>1, <2>2 DEF Goto, shared, bounds, CurrentInv, Holds, Looping, Zombies
<1>25. ASSUME NEW w \in Slots, ReleaseCurrent(w) PROVE CurrentInv'
  BY <1>a, <1>25 DEF ReleaseCurrent, bounds, CurrentInv
<1>26. ASSUME NEW w \in Slots, ReleaseLock(w) PROVE CurrentInv'
  BY <1>0, <1>26, Zenon DEF ReleaseLock, bounds, CurrentInv, LockInv, Holds
<1>27. ASSUME NEW w \in Slots, Process(w) PROVE CurrentInv'
  BY <1>a, <1>0, <1>27, Zenon DEF Process, Goto, shared, bounds, CurrentInv, Holds, Looping, Zombies
<1>28. ASSUME NEW w \in Slots, Exit(w) PROVE CurrentInv'
  BY <1>a, <1>0, <1>28, Zenon DEF Exit, Goto, shared, bounds, CurrentInv, PidInv, Holds, Zombies
<1>29. ASSUME NEW w \in Slots, ChildStray(w) PROVE CurrentInv'
  BY <1>0, <1>29 DEF ChildStray, Goto, shared, bounds, CurrentInv, LockInv, Holds, Booting, Zombies
<1>30. ASSUME NEW w \in Slots, BackoffOver(w) PROVE CurrentInv'
  BY <1>0, <1>30, Zenon DEF BackoffOver, shared, bounds, CurrentInv, Holds
<1>31. ASSUME NEW w \in Slots, Crash(w) PROVE CurrentInv'
  BY <1>0, <1>31 DEF Crash, Goto, Alive, shared, CurrentInv, PidInv, Holds, Booting, Zombies
<1>32. ASSUME NEW w \in Slots, NEW s \in {HUP, TERM}, SignalWorker(w, s) PROVE CurrentInv'
  BY <1>0, <1>32, Zenon DEF SignalWorker, shared, CurrentInv, Holds
<1>33. ASSUME NEW s \in {HUP, TERM}, SignalParent(s) PROVE CurrentInv'
  BY <1>0, <1>33, Zenon DEF SignalParent, shared, CurrentInv, Holds
<1>34. CASE UNCHANGED vars  BY <1>0, <1>34, Zenon DEF vars, shared, bounds, CurrentInv, Holds
<1> QED
  BY <1>a, <1>0, <1>1, <1>2, <1>3, <1>4, <1>5, <1>6, <1>7, <1>8, <1>9, <1>10, <1>11, <1>12, <1>13,
     <1>14, <1>15, <1>16, <1>17, <1>18, <1>19, <1>20, <1>21, <1>22, <1>23, <1>24, <1>25, <1>26,
     <1>27, <1>28, <1>29, <1>30, <1>31, <1>32, <1>33, <1>34, Zenon DEF Next, ParentNext, WorkerNext

\* A step that loses the lock is a LossStep.
LEMMA LossStepOnly ==
  IInv /\ [Next]_vars => (Accounted => Accounted' \/ LossStep)
<1>0. SUFFICES ASSUME IInv, Accounted, [Next]_vars PROVE Accounted' \/ LossStep
  BY Zenon
<1>a. TypeOK /\ PidInv /\ ParentInv /\ LockInv /\ AcceptInv
  BY <1>0, Zenon DEF IInv
<1>b. DOMAIN pc = Slots /\ DOMAIN wpid = Slots /\ DOMAIN mypid = Slots /\ DOMAIN has_lock = Slots
  BY <1>a, Zenon DEF TypeOK
<1>1. CASE Fork
  <2>1. pc[slot] = "none" /\ slot \in Slots
    BY <1>a, <1>1 DEF Fork, ParentInv, Slots
  <2>2. \A v \in Slots : v # slot => /\ pc'[v] = pc[v] /\ has_lock'[v] = has_lock[v]
                                      /\ wpid'[v] = wpid[v] /\ mypid'[v] = mypid[v]
    BY <1>1 DEF Fork
  <2>3. ~Holds(slot) /\ ppc \in {"boot", "respawn"} /\ UNCHANGED <<lock, current>>
    BY <1>1, <2>1, Zenon DEF Fork, ShuttingDown, LossStep, Holds, Looping
  <2>4. \A v \in Slots : Holds(v) => Holds(v)'
    BY <2>2, <2>3, Zenon DEF Holds
  <2>5. \A v \in Slots : pc[v] = "crashed" /\ wpid[v] = mypid[v] /\ current = mypid[v]
                        => pc'[v] = "crashed" /\ wpid'[v] = mypid'[v] /\ current' = mypid'[v]
    BY <2>1, <2>2, <2>3, Zenon
  <2> QED
    BY <1>0, <2>3, <2>4, <2>5, Zenon DEF Accounted, Recoverable, ShuttingDown
<1>2. CASE StorePid  BY <1>b, <1>0, <1>2, Zenon DEF StorePid, Accounted, Recoverable, ShuttingDown,
                        Holds
<1>3. CASE ParentTop  BY <1>0, <1>3, Zenon DEF ParentTop, shared, Accounted, Recoverable,
                         ShuttingDown, Holds
<1>4. CASE ParentSigClear  BY <1>0, <1>4, Zenon DEF ParentSigClear, shared, Accounted, Recoverable,
                              ShuttingDown, Holds
<1>5. CASE Dispatch  BY <1>5, Zenon DEF Dispatch, Accounted, ShuttingDown
<1>6. CASE ReapNone  BY <1>0, <1>6, Zenon DEF ReapNone, shared, Accounted, Recoverable,
                        ShuttingDown, Holds
<1>7. ASSUME NEW w \in Slots, Reap(w) PROVE Accounted' \/ LossStep
  BY <1>b, <1>0, <1>7, Zenon DEF Reap, Reaping, Zombies, shared, Accounted, Recoverable,
     ShuttingDown, Holds, Looping
<1>8. CASE Recover  BY <1>0, <1>8, Zenon DEF Recover, Accounted, Recoverable, ShuttingDown, Holds
<1>9. CASE ParentUnlock  BY <1>9 DEF ParentUnlock, Accounted
<1>10. CASE DrainDone  BY <1>10, Zenon DEF DrainDone, Accounted, ShuttingDown
<1>11. ASSUME NEW w \in Slots, DrainReap(w) PROVE Accounted' \/ LossStep
  BY <1>11, Zenon DEF DrainReap, Accounted, ShuttingDown
<1>12. CASE DrainNoChild  BY <1>12, Zenon DEF DrainNoChild, Accounted, ShuttingDown
<1>13. CASE DrainPass  BY <1>13, Zenon DEF DrainPass, Accounted, ShuttingDown
<1>14. ASSUME NEW w \in Slots, ChildZero(w) PROVE Accounted' \/ LossStep
  BY <1>a, <1>0, <1>14 DEF ChildZero, Goto, parent, ParentInv, LockInv, Accounted, Recoverable,
     ShuttingDown, Holds, Booting
<1>15. ASSUME NEW w \in Slots, ChildPid(w) PROVE Accounted' \/ LossStep
  BY <1>a, <1>b, <1>0, <1>15, Zenon DEF ChildPid, Goto, parent, ParentInv, PidInv, Accounted,
     Recoverable, ShuttingDown, Holds, Looping
<1>16. ASSUME NEW w \in Slots, WorkerEntry(w) PROVE Accounted' \/ LossStep
  BY <1>b, <1>0, <1>16, Zenon DEF WorkerEntry, Goto, shared, parent, Accounted, Recoverable,
     ShuttingDown, Holds, Looping
<1>17. ASSUME NEW w \in Slots, WorkerTop(w) PROVE Accounted' \/ LossStep
  BY <1>b, <1>0, <1>17, Zenon DEF WorkerTop, Goto, shared, parent, Accounted, Recoverable,
     ShuttingDown, Holds, Looping
<1>18. ASSUME NEW w \in Slots, WorkerSigClear(w) PROVE Accounted' \/ LossStep
  BY <1>b, <1>0, <1>18, Zenon DEF WorkerSigClear, Goto, shared, parent, Accounted, Recoverable,
     ShuttingDown, Holds, Booting, Looping, Zombies
<1>19. ASSUME NEW w \in Slots, StayHolder(w) PROVE Accounted' \/ LossStep
  BY <1>b, <1>0, <1>19, Zenon DEF StayHolder, Goto, Locking, parent, Accounted, Recoverable,
     ShuttingDown, Holds, Looping
<1>20. ASSUME NEW w \in Slots, GoWithout(w) PROVE Accounted' \/ LossStep
  <2>1. pc[w] \in {"top", "lock"} /\ has_lock[w] = 0 /\ Goto(w, "wait")
    BY <1>20, Zenon DEF GoWithout, Locking
  <2>2. UNCHANGED <<shared, mypid, parent>>
    BY <1>20, Zenon DEF GoWithout
  <2> QED
    BY <1>b, <1>0, <2>1, <2>2, Zenon DEF Goto, shared, parent, Accounted, Recoverable, ShuttingDown,
       Holds, Looping
<1>21. ASSUME NEW w \in Slots, TryLock(w) PROVE Accounted' \/ LossStep
  BY <1>b, <1>21, Zenon DEF TryLock, Goto, Accounted, Holds
<1>22. ASSUME NEW w \in Slots, SetCurrent(w) PROVE Accounted' \/ LossStep
  BY <1>b, <1>22, Zenon DEF SetCurrent, Goto, Accounted, Holds
<1>23. ASSUME NEW w \in Slots, GotLock(w) PROVE Accounted' \/ LossStep
  <2>1. pc[w] = "got" /\ Goto(w, "wait") /\ has_lock' = [has_lock EXCEPT ![w] = 1]
    BY <1>23, Zenon DEF GotLock
  <2>2. WorkerCount > 1
    BY <1>a, <2>1, Zenon DEF AcceptInv
  <2>3. Holds(w)'
    BY <1>b, <2>1, <2>2, Zenon DEF Goto, Holds, Looping
  <2> QED
    BY <2>3, Zenon DEF Accounted
<1>24. ASSUME NEW w \in Slots, EventWait(w) PROVE Accounted' \/ LossStep
  <2>1. pc[w] = "wait" /\ (Goto(w, "rel") \/ Goto(w, "process"))
    BY <1>24, Zenon DEF EventWait
  <2>2. UNCHANGED <<shared, mypid, parent>>
    BY <1>24, Zenon DEF EventWait
  <2> QED
    BY <1>b, <1>0, <2>1, <2>2, Zenon DEF Goto, shared, parent, Accounted, Recoverable, ShuttingDown,
       Holds, Looping
<1>25. ASSUME NEW w \in Slots, ReleaseCurrent(w) PROVE Accounted' \/ LossStep
  BY <1>b, <1>25, Zenon DEF ReleaseCurrent, Goto, Accounted, ShuttingDown, Holds
<1>26. ASSUME NEW w \in Slots, ReleaseLock(w) PROVE Accounted' \/ LossStep
  <2>1. lock' = 0
    BY <1>26, Zenon DEF ReleaseLock
  <2>2. lock' # 1
    BY <2>1 DEF Looping
  <2> QED
    BY <2>2, Zenon DEF Accounted
<1>27. ASSUME NEW w \in Slots, Process(w) PROVE Accounted' \/ LossStep
  BY <1>b, <1>0, <1>27, Zenon DEF Process, Goto, shared, parent, Accounted, Recoverable,
     ShuttingDown, Holds, Looping
<1>28. ASSUME NEW w \in Slots, Exit(w) PROVE Accounted' \/ LossStep
  BY <1>b, <1>0, <1>28, Zenon DEF Exit, Goto, shared, parent, PidInv, LockInv, Accounted,
     Recoverable, ShuttingDown, LossStep, Holds, Looping
<1>29. ASSUME NEW w \in Slots, ChildStray(w) PROVE Accounted' \/ LossStep
  BY <1>b, <1>0, <1>29, Zenon DEF ChildStray, Goto, shared, parent, Accounted, Recoverable,
     ShuttingDown, Holds, Looping
<1>30. ASSUME NEW w \in Slots, BackoffOver(w) PROVE Accounted' \/ LossStep
  BY <1>0, <1>30, Zenon DEF BackoffOver, shared, parent, Accounted, Recoverable, ShuttingDown, Holds
<1>31. ASSUME NEW w \in Slots, Crash(w) PROVE Accounted' \/ LossStep
  BY <1>a, <1>b, <1>0, <1>31, Zenon DEF Crash, Goto, Alive, shared, parent, PidInv, LockInv,
     Accounted, Recoverable, ShuttingDown, LossStep, Holds, Booting
<1>32. ASSUME NEW w \in Slots, NEW s \in {HUP, TERM}, SignalWorker(w, s) PROVE Accounted' \/ LossStep
  BY <1>0, <1>32, Zenon DEF SignalWorker, shared, parent, Accounted, Recoverable, ShuttingDown,
     Holds
<1>33. ASSUME NEW s \in {HUP, TERM}, SignalParent(s) PROVE Accounted' \/ LossStep
  BY <1>0, <1>33, Zenon DEF SignalParent, shared, parent, Accounted, Recoverable, ShuttingDown,
     Holds
<1>34. CASE UNCHANGED vars  BY <1>0, <1>34, Zenon DEF vars, shared, parent, Accounted, Recoverable,
                               ShuttingDown, Holds
<1> QED
  BY <1>a, <1>b, <1>0, <1>1, <1>2, <1>3, <1>4, <1>5, <1>6, <1>7, <1>8, <1>9, <1>10, <1>11, <1>12,
     <1>13, <1>14, <1>15, <1>16, <1>17, <1>18, <1>19, <1>20, <1>21, <1>22, <1>23, <1>24, <1>25,
     <1>26, <1>27, <1>28, <1>29, <1>30, <1>31, <1>32, <1>33, <1>34, Zenon DEF Next, ParentNext,
     WorkerNext

\* A step the lock of AcceptLock does not see: the lock word and its holder stay, and
\* a lock without a holder is recoverable after it if it was before.
Unseen ==
  /\ lock' = lock
  /\ \A v \in Slots : Holds(v)' <=> Holds(v)
  /\ lock = 0 \/ (\E v \in Slots : Holds(v)) \/ (Recoverable' <=> Recoverable)

\* Such a step changes neither variable of AcceptLock.
LEMMA UnseenStutters ==
  ASSUME Unseen
  PROVE  [AL!Next]_<<LockStatus, LockHolder>>
<1>1. LockHolder' = LockHolder
  BY Zenon DEF Unseen, LockHolder
<1>2. LockStatus' = LockStatus
  BY Zenon DEF Unseen, LockStatus
<1> QED
  BY <1>1, <1>2, Zenon

\* Every step is a step of AcceptLock or is not seen by it: the lock is grabbed by
\* worker_trylock, dropped by kore_worker_acceptlock_release, recovered by
\* kore_worker_wait, and lost where LossStep or the shutdown loses it.
LEMMA LockStepMaps ==
  IInv /\ [Next]_vars => Unseen \/ AL!Next
<1>0. SUFFICES ASSUME IInv, [Next]_vars PROVE Unseen \/ AL!Next
  BY Zenon
<1>a. TypeOK /\ PidInv /\ ParentInv /\ LockInv /\ AcceptInv /\ CurrentInv
  BY <1>0, Zenon DEF IInv
<1>b. /\ DOMAIN pc = Slots /\ DOMAIN wpid = Slots /\ DOMAIN mypid = Slots /\ DOMAIN has_lock = Slots
    /\ lock \in {0, 1} /\ has_lock \in [Slots -> {0, 1}]
  BY <1>a, Zenon DEF TypeOK
<1>1. CASE Fork
  <2>1. pc[slot] = "none" /\ slot \in Slots /\ ppc \in {"boot", "respawn"}
    <3> QED  BY <1>a, <1>1 DEF Fork, ParentInv, Slots
  <2>2. /\ UNCHANGED <<lock, current, wpid>> /\ ppc' \in {"bootpid", "respawnpid"}
        /\ pc'[slot] = "forked"
        /\ \A v \in Slots : v # slot => /\ pc'[v] = pc[v] /\ has_lock'[v] = has_lock[v]
                                      /\ mypid'[v] = mypid[v]
    BY <1>b, <1>1, <2>1, Zenon DEF Fork
  <2>3. \A v \in Slots : Holds(v)' <=> Holds(v)
    BY <1>0, <2>1, <2>2, Zenon DEF Holds, Booting, Looping
  <2>4. Recoverable' <=> Recoverable
    BY <2>1, <2>2, Zenon DEF Recoverable
  <2> QED
    BY <2>2, <2>3, <2>4, Zenon DEF Unseen
<1>2. CASE StorePid  BY <1>a, <1>b, <1>2, Zenon DEF StorePid, PidInv, CurrentInv, Unseen,
                        Recoverable, Holds, Zombies
<1>3. CASE ParentTop  BY <1>3, Zenon DEF ParentTop, shared, Unseen, Recoverable, Holds
<1>4. CASE ParentSigClear  BY <1>4, Zenon DEF ParentSigClear, shared, Unseen, Recoverable, Holds
<1>5. CASE Dispatch  BY <1>5, Zenon DEF Dispatch, shared, Unseen, Recoverable, Holds
<1>6. CASE ReapNone  BY <1>6, Zenon DEF ReapNone, shared, Unseen, Recoverable, Holds
<1>7. ASSUME NEW w \in Slots, Reap(w) PROVE Unseen \/ AL!Next
  BY <1>7 DEF Reap, Reaping, shared, Unseen, Recoverable, Holds, Looping, Zombies
<1>8. CASE Recover  BY <1>8, Zenon DEF Recover, Unseen, Recoverable, Holds
<1>9. CASE ParentUnlock
  <2>1. lock = 1 /\ \A v \in Slots : ~Holds(v)
    BY <1>a, <1>9, Zenon DEF ParentUnlock, LockInv
  <2>2. LockStatus = "dead"
    BY <1>9, <2>1 DEF ParentUnlock, LockStatus, Recoverable
  <2>3. LockStatus' = "free"
    BY <1>9, Zenon DEF ParentUnlock, LockStatus
  <2>4. \A v \in Slots : ~Holds(v)'
    BY <1>9, <2>1, Zenon DEF ParentUnlock, Holds
  <2>5. LockHolder' = {}
    BY <2>4, Zenon DEF LockHolder
  <2> QED
    BY <2>2, <2>3, <2>5, Zenon DEF AL!Next, AL!Recover
<1>10. CASE DrainDone  BY <1>10, Zenon DEF DrainDone, shared, Unseen, Recoverable, Holds
<1>11. ASSUME NEW w \in Slots, DrainReap(w) PROVE Unseen \/ AL!Next
  <2>1. UNCHANGED <<lock, current, mypid, has_lock>> /\ ppc = "drain" /\ ppc' = "drain"
    BY <1>11, Zenon DEF DrainReap
  <2>2. \A v \in Slots : Holds(v)' <=> Holds(v)
    BY <1>b, <1>11, Zenon DEF DrainReap, Holds, Looping, Zombies
  <2>3. Recoverable' => Recoverable
    BY <1>b, <1>11, Zenon DEF DrainReap, Recoverable
  <2>4. CASE lock = 1 /\ (\A v \in Slots : ~Holds(v)) /\ Recoverable /\ ~Recoverable'
    <3>1. LockStatus = "dead" /\ LockStatus' = "lost" /\ LockHolder' = {}
      BY <2>1, <2>2, <2>4 DEF LockStatus, LockHolder
    <3> QED
      BY <3>1, Zenon DEF AL!Next, AL!Lose
  <2>5. CASE ~(lock = 1 /\ (\A v \in Slots : ~Holds(v)) /\ Recoverable /\ ~Recoverable')
    <3> QED
      BY <1>b, <2>1, <2>2, <2>3, <2>5, Zenon DEF Unseen
  <2> QED
    BY <2>4, <2>5, Zenon
<1>12. CASE DrainNoChild  BY <1>12, Zenon DEF DrainNoChild, shared, Unseen, Recoverable, Holds
<1>13. CASE DrainPass  BY <1>13, Zenon DEF DrainPass, shared, Unseen, Recoverable, Holds
<1>14. ASSUME NEW w \in Slots, ChildZero(w) PROVE Unseen \/ AL!Next
  BY <1>a, <1>14 DEF ChildZero, Goto, parent, ParentInv, LockInv, Unseen, Recoverable, Holds,
     Booting
<1>15. ASSUME NEW w \in Slots, ChildPid(w) PROVE Unseen \/ AL!Next
  BY <1>a, <1>b, <1>15, Zenon DEF ChildPid, Goto, parent, ParentInv, Unseen, Recoverable, Holds,
     Looping
<1>16. ASSUME NEW w \in Slots, WorkerEntry(w) PROVE Unseen \/ AL!Next
  BY <1>a, <1>16 DEF WorkerEntry, Goto, shared, parent, LockInv, Unseen, Recoverable, Holds, Booting
<1>17. ASSUME NEW w \in Slots, WorkerTop(w) PROVE Unseen \/ AL!Next
  BY <1>b, <1>0, <1>17, Zenon DEF WorkerTop, Goto, shared, parent, Unseen, Recoverable, Holds,
     Looping
<1>18. ASSUME NEW w \in Slots, WorkerSigClear(w) PROVE Unseen \/ AL!Next
  BY <1>b, <1>18, Zenon DEF WorkerSigClear, Goto, shared, parent, Unseen, Recoverable, Holds,
     Looping
<1>19. ASSUME NEW w \in Slots, StayHolder(w) PROVE Unseen \/ AL!Next
  BY <1>19 DEF StayHolder, Goto, Locking, parent, Unseen, Recoverable, Holds, Looping
<1>20. ASSUME NEW w \in Slots, GoWithout(w) PROVE Unseen \/ AL!Next
  BY <1>b, <1>20, Zenon DEF GoWithout, Goto, Locking, shared, parent, Unseen, Recoverable, Holds,
     Looping
<1>21. ASSUME NEW w \in Slots, TryLock(w) PROVE Unseen \/ AL!Next
  <2>1. lock = 0 /\ lock' = 1 /\ Goto(w, "own") /\ UNCHANGED has_lock
    BY <1>21, Zenon DEF TryLock
  <2>2. \A v \in Slots : ~Holds(v)
    BY <1>a, <2>1 DEF LockInv
  <2>3. \A v \in Slots : Holds(v)' <=> v = w
    BY <1>b, <2>1, <2>2, Zenon DEF Goto, Recoverable, Holds
  <2>4. LockStatus = "free" /\ LockStatus' = "held"
    BY <2>1, <2>3 DEF LockStatus
  <2>5. LockHolder' = {w}
    BY <2>3, Zenon DEF LockHolder
  <2>6. AL!Grab(w)
    BY <2>4, <2>5, Zenon DEF AL!Grab
  <2> QED
    BY <2>6, Zenon DEF AL!Next
<1>22. ASSUME NEW w \in Slots, SetCurrent(w) PROVE Unseen \/ AL!Next
  BY <1>b, <1>22, Zenon DEF SetCurrent, Goto, Unseen, Holds
<1>23. ASSUME NEW w \in Slots, GotLock(w) PROVE Unseen \/ AL!Next
  <2>1. pc[w] = "got" /\ Goto(w, "wait") /\ has_lock' = [has_lock EXCEPT ![w] = 1] /\ lock' = lock
    BY <1>23, Zenon DEF GotLock
  <2>2. WorkerCount > 1
    BY <1>a, <2>1, Zenon DEF AcceptInv
  <2>3. \A v \in Slots : Holds(v)' <=> Holds(v)
    BY <1>b, <2>1, <2>2, Zenon DEF Goto, Holds, Looping
  <2>4. Holds(w)
    BY <2>1, Zenon DEF Holds
  <2> QED
    BY <2>1, <2>3, <2>4, Zenon DEF Unseen
<1>24. ASSUME NEW w \in Slots, EventWait(w) PROVE Unseen \/ AL!Next
  BY <1>24 DEF EventWait, Goto, shared, parent, Unseen, Recoverable, Holds, Looping
<1>25. ASSUME NEW w \in Slots, ReleaseCurrent(w) PROVE Unseen \/ AL!Next
  BY <1>b, <1>25, Zenon DEF ReleaseCurrent, Goto, Unseen, Holds
<1>26. ASSUME NEW w \in Slots, ReleaseLock(w) PROVE Unseen \/ AL!Next
  <2>1. pc[w] = "unlk" /\ lock' = 0 /\ Goto(w, "process") /\ has_lock' = [has_lock EXCEPT ![w] = 0]
    BY <1>26, Zenon DEF ReleaseLock
  <2>2. Holds(w) /\ lock = 1
    BY <1>a, <2>1, Zenon DEF LockInv, Holds
  <2>3. \A v \in Slots : ~Holds(v)'
    BY <1>a, <1>b, <2>1 DEF Goto, LockInv, Holds
  <2>4. LockStatus = "held" /\ LockStatus' = "free"
    BY <2>1, <2>2 DEF LockStatus
  <2>5. LockHolder' = {}
    BY <2>3, Zenon DEF LockHolder
  <2> QED
    BY <2>4, <2>5, Zenon DEF AL!Next, AL!Drop
<1>27. ASSUME NEW w \in Slots, Process(w) PROVE Unseen \/ AL!Next
  BY <1>b, <1>27, Zenon DEF Process, Goto, shared, parent, Unseen, Recoverable, Holds, Looping
<1>28. ASSUME NEW w \in Slots, Exit(w) PROVE Unseen \/ AL!Next
  <2>1. pc[w] = "process" /\ Goto(w, "exited") /\ UNCHANGED <<lock, current, wpid, has_lock, mypid, ppc, slot>>
    BY <1>28, Zenon DEF Exit, shared, parent, Zombies
  <2>2. CASE Holds(w)
    <3>1. lock = 1 /\ \A v \in Slots : ~Holds(v)'
      BY <1>a, <1>b, <2>1, <2>2, Zenon DEF Goto, LockInv, Holds, Looping
    <3>2. ~Recoverable'
      BY <1>a, <2>1, <2>2 DEF Goto, ParentInv, PidInv, LockInv, Recoverable
    <3>3. LockStatus = "held" /\ LockStatus' = "lost" /\ LockHolder' = {}
      BY <2>1, <2>2, <3>1, <3>2 DEF LockStatus, LockHolder
    <3> QED
      BY <3>3, Zenon DEF AL!Next, AL!Lose
  <2>3. CASE ~Holds(w)
    BY <2>1, <2>3 DEF Goto, Unseen, Recoverable, Holds, Looping
  <2> QED
    BY <2>2, <2>3, Zenon
<1>29. ASSUME NEW w \in Slots, ChildStray(w) PROVE Unseen \/ AL!Next
  BY <1>b, <1>29, Zenon DEF ChildStray, Goto, shared, parent, Unseen, Recoverable, Holds, Looping
<1>30. ASSUME NEW w \in Slots, BackoffOver(w) PROVE Unseen \/ AL!Next
  BY <1>30, Zenon DEF BackoffOver, shared, parent, Unseen, Recoverable, Holds
<1>31. ASSUME NEW w \in Slots, Crash(w) PROVE Unseen \/ AL!Next
  <2>1. /\ pc[w] \in Booting \cup Looping \cup {"stray"} /\ Goto(w, "crashed")
        /\ UNCHANGED <<lock, current, wpid, has_lock, mypid, ppc, slot>>
    BY <1>31, Zenon DEF Crash, Alive, shared, parent
  <2>2. CASE Holds(w)
    <3>1. lock = 1 /\ \A v \in Slots : ~Holds(v)'
      BY <1>a, <1>b, <2>1, <2>2, Zenon DEF Goto, LockInv, Holds, Looping
    <3>2. CASE pc[w] \in {"own", "unlk"}
      <4>1. ~Recoverable'
        BY <1>a, <2>1, <2>2, <3>2 DEF Goto, ParentInv, PidInv, LockInv, Recoverable, Booting
      <4>2. LockStatus = "held" /\ LockStatus' = "lost" /\ LockHolder' = {}
        BY <2>1, <2>2, <3>1, <4>1 DEF LockStatus, LockHolder
      <4> QED
        BY <4>2, Zenon DEF AL!Next, AL!Lose
    <3>3. CASE pc[w] \notin {"own", "unlk"}
      <4>1. Recoverable'
        BY <1>a, <1>b, <2>1, <2>2, <3>3, Zenon DEF Goto, PidInv, LockInv, Recoverable, Holds,
           Booting
      <4>2. LockStatus = "held" /\ LockStatus' = "dead" /\ LockHolder' = {}
        BY <2>1, <2>2, <3>1, <4>1 DEF LockStatus, LockHolder
      <4> QED
        BY <4>2, Zenon DEF AL!Next, AL!Die
    <3> QED
      BY <3>2, <3>3, Zenon DEF Booting
  <2>3. CASE ~Holds(w)
    <3>1. \A v \in Slots : Holds(v)' <=> Holds(v)
      BY <1>b, <2>1, <2>3, Zenon DEF Goto, Holds, Looping
    <3>2. current # mypid[w]
      BY <1>a, <2>1, <2>3, Zenon DEF PidInv, CurrentInv, Booting, Looping, Zombies
    <3>3. Recoverable' <=> Recoverable
      BY <1>b, <2>1, <3>2, Zenon DEF Goto, Recoverable
    <3> QED
      BY <2>1, <3>1, <3>3, Zenon DEF Unseen
  <2> QED
    BY <2>2, <2>3, Zenon
<1>32. ASSUME NEW w \in Slots, NEW s \in {HUP, TERM}, SignalWorker(w, s) PROVE Unseen \/ AL!Next
  BY <1>32, Zenon DEF SignalWorker, shared, parent, Unseen, Recoverable, Holds
<1>33. ASSUME NEW s \in {HUP, TERM}, SignalParent(s) PROVE Unseen \/ AL!Next
  BY <1>33, Zenon DEF SignalParent, shared, parent, Unseen, Recoverable, Holds
<1>34. CASE UNCHANGED vars  BY <1>34, Zenon DEF vars, shared, parent, Unseen, Recoverable, Holds
<1> QED
  BY <1>a, <1>b, <1>0, <1>1, <1>2, <1>3, <1>4, <1>5, <1>6, <1>7, <1>8, <1>9, <1>10, <1>11, <1>12,
     <1>13, <1>14, <1>15, <1>16, <1>17, <1>18, <1>19, <1>20, <1>21, <1>22, <1>23, <1>24, <1>25,
     <1>26, <1>27, <1>28, <1>29, <1>30, <1>31, <1>32, <1>33, <1>34, Zenon DEF Next, ParentNext,
     WorkerNext

\* The initial state satisfies the inductive invariant.
LEMMA InitIInv == Init => IInv
<1>0. SUFFICES ASSUME Init PROVE IInv
  BY Zenon
<1>1. TypeOK
  BY <1>0, WorkerAssumption DEF TypeOK, Places, ParentPlaces, Init
<1>2. PidInv
  BY <1>0 DEF PidInv, Init
<1>3. ParentInv
  BY <1>0, WorkerAssumption DEF ParentInv, Slots, Init
<1>4. LockInv
  BY <1>0 DEF LockInv, Holds, Init
<1>5. AcceptInv
  BY <1>0 DEF AcceptInv, Init
<1>6. CountInv
  BY <1>0, WorkerAssumption DEF CountInv, Init
<1>7. CurrentInv
  BY <1>0 DEF CurrentInv, Init
<1> QED
  BY <1>1, <1>2, <1>3, <1>4, <1>5, <1>6, <1>7, Zenon DEF IInv

\* Every step preserves it.
LEMMA NextIInv == IInv /\ [Next]_vars => IInv'
  BY TypeStep, PidStep, ParentStep, LockStep, AcceptStep, CountStep, CurrentStep, Zenon DEF IInv

\* The inductive invariant holds in every reachable state.
THEOREM Invariance == Spec => []IInv
  BY InitIInv, NextIInv, PTL DEF Spec

\* The types of Workers hold whatever the number of workers, of crashes and of
\* signals.
THEOREM TypeCorrect == Spec => []TypeOK
<1>1. IInv => TypeOK
  BY Zenon DEF IInv
<1> QED
  BY <1>1, Invariance, PTL

\* worker_trylock and worker_unlock exclude: at most one worker holds the accept
\* lock, however many workers there are and wherever they crash.
THEOREM Exclusion == Spec => []MutualExclusion
<1>1. IInv => MutualExclusion
  BY Zenon DEF IInv, LockInv, MutualExclusion
<1> QED
  BY <1>1, Invariance, PTL

\* Only the holder of the lock polls the listening sockets, and it has room for
\* a client.
THEOREM OnlyHolderAccepts == Spec => []AcceptExclusion
<1>1. IInv => MutualExclusion
  BY Zenon DEF IInv, LockInv, MutualExclusion
<1>2. IInv => (WorkerCount > 1 =>
                 \A w \in Slots : pc[w] = "wait" /\ accepting[w] => Holds(w) /\ active[w] < MaxConn)
  BY Zenon DEF IInv, AcceptInv, Holds, Looping
<1>3. IInv => AcceptExclusion
  BY <1>1, <1>2, Zenon DEF AcceptExclusion
<1> QED
  BY <1>3, Invariance, PTL

\* worker_active_connections is exact in a worker forked at the start, and too high
\* for kore_worker_acceptlock_obtain in one that replaced a dead worker.
THEOREM ReplacementsStarve == Spec => []CountsOrStarves
<1>1. IInv => CountsOrStarves
  BY Zenon DEF IInv, CountInv, CountsOrStarves, FewForks
<1> QED
  BY <1>1, Invariance, PTL

\* The accept lock is lost only by a crash next to the store to current or by an
\* exit with the lock held; every other death gives it back.
THEOREM LossCauses == Spec => LockLostOnlyByExitOrWindow
<1>1. IInv /\ [Next]_vars => [Accounted => Accounted' \/ LossStep]_vars
  BY LossStepOnly, Zenon
<1> QED
  BY <1>1, Invariance, PTL DEF Spec, LockLostOnlyByExitOrWindow

\* The lock word, current and the table of pids of worker.c implement the lock that
\* AcceptLock specifies, with any number of workers, crashes and signals.
THEOREM RefinesAcceptLock == Spec => ImplementsAcceptLock
<1>1. Init => AL!Init
  <2>0. SUFFICES ASSUME Init PROVE AL!Init
    BY Zenon
  <2>1. lock = 0 /\ \A v \in Slots : ~Holds(v)
    BY <2>0 DEF Init, Holds
  <2> QED
    BY <2>1, Zenon DEF AL!Init, LockStatus, LockHolder
<1>2. IInv /\ [Next]_vars => [AL!Next]_<<LockStatus, LockHolder>>
  BY LockStepMaps, UnseenStutters, Zenon
<1> QED
  BY <1>1, <1>2, Invariance, PTL DEF Spec, ImplementsAcceptLock, AL!Spec
============================================================================
