------------------------------ MODULE Workers ------------------------------
(***************************************************************************)
(* The process model of the server: one parent, WorkerCount forked         *)
(* workers, and the accept lock they share (base/kore/worker.c; the        *)
(* parent's loop and the shutdown are in sparc/detail/embed.cpp).          *)
(*                                                                         *)
(* The lock and the worker table (pid and has_lock of every slot) live in  *)
(* one System V shared memory segment, so every read and write of lock,    *)
(* current and wpid is a step of its own.  A worker may die between any    *)
(* two steps and a signal may reach any process between any two steps.     *)
(* Everything a worker does with its connections is abstracted to their    *)
(* number, conns; worker_active_connections is the counter the code keeps  *)
(* of it.                                                                  *)
(***************************************************************************)
EXTENDS Integers

CONSTANTS WorkerCount,  \* worker_count
          MaxConn,      \* worker_max_connections
          UintMax,      \* the largest u_int32_t
          MaxCrashes,   \* bound: abnormal deaths of workers
          MaxSignals,   \* bound: signals sent to the parent from outside
          MaxStrays,    \* bound: signals sent to single workers from outside
          MaxFaults     \* bound: all of these

ASSUME WorkerAssumption == /\ WorkerCount \in Nat \ {0}
                           /\ MaxConn \in Nat \ {0}
                           /\ UintMax \in Nat /\ MaxConn <= UintMax
                           /\ MaxCrashes \in Nat
                           /\ MaxSignals \in Nat /\ MaxStrays \in Nat /\ MaxFaults \in Nat

Slots == 0 .. WorkerCount - 1

\* The values of sig_recv.  SIGQUIT and SIGINT are handled as SIGTERM is.
NoSig == "none"
HUP == "hup"
TERM == "term"

VARIABLES
  lock, current,          \* struct wlock: the lock word and its holder's pid
  wpid, has_lock,         \* the shared table: kw->pid and kw->has_lock
  pc, mypid,              \* the process of a slot: its place in the code, its pid
  sig, quit,              \* a worker's sig_recv and quit
  had_lock, accepting,    \* had_lock; are the listeners in the worker's epoll set
  conns, backoff,         \* its client connections; is now <= next_lock
  active, pactive,        \* worker_active_connections: the copies of the workers and of the parent
  ppc, slot, done,        \* the parent's place in the code and its loop variables
  psig,                   \* the parent's sig_recv
  npid,                   \* the last pid the kernel handed out
  crashes, signals, strays  \* what is used up of the bounds

shared == <<lock, current, wpid, has_lock>>
local == <<quit, had_lock, accepting, conns, backoff>>
counters == <<active, pactive>>
parent == <<ppc, slot, done>>
bounds == <<npid, crashes, signals, strays>>
vars == <<shared, pc, mypid, sig, local, counters, parent, psig, bounds>>

\* A zombie is a process that ended and that the parent has not waited for.
Zombies == {"crashed", "exited"}
Booting == {"forked", "zeroed", "entry"}
Looping == {"top", "sigclr", "lock", "own", "got", "wait", "rel", "unlk", "process"}
Places == Booting \cup Looping \cup Zombies \cup {"none", "stray"}
ParentPlaces == {"boot", "bootpid", "loop", "sigclr", "dispatch", "reap", "recover", "unlock",
                 "respawn", "respawnpid", "drain", "stopped"}
Alive(w) == pc[w] \in Booting \cup Looping \cup {"stray"}

Init == /\ lock = 0 /\ current = 0
        /\ wpid = [w \in Slots |-> 0] /\ has_lock = [w \in Slots |-> 0]
        /\ pc = [w \in Slots |-> "none"] /\ mypid = [w \in Slots |-> 0]
        /\ sig = [w \in Slots |-> NoSig]
        /\ quit = [w \in Slots |-> FALSE]
        /\ had_lock = [w \in Slots |-> 0] /\ accepting = [w \in Slots |-> FALSE]
        /\ conns = [w \in Slots |-> 0] /\ active = [w \in Slots |-> 0] /\ pactive = 0
        /\ backoff = [w \in Slots |-> FALSE]
        /\ ppc = "boot" /\ slot = 0 /\ done = 0 /\ psig = NoSig
        /\ npid = 0 /\ crashes = 0 /\ signals = 0 /\ strays = 0

-----------------------------------------------------------------------------
(* The parent                                                              *)

\* kore_msg_parent_remove takes the message connection of the dead worker off
\* the counter of the parent, where no client was ever added.
Uncount == IF pactive = 0 THEN UintMax ELSE pactive - 1

\* kore_worker_spawn up to fork(): the child starts as a copy of the parent.
Fork == /\ ppc \in {"boot", "respawn"}
        /\ has_lock' = [has_lock EXCEPT ![slot] = 0]
        /\ npid' = npid + 1
        /\ mypid' = [mypid EXCEPT ![slot] = npid + 1]
        /\ pc' = [pc EXCEPT ![slot] = "forked"]
        /\ sig' = [sig EXCEPT ![slot] = psig]
        /\ ppc' = IF ppc = "boot" THEN "bootpid" ELSE "respawnpid"
        /\ pactive' = IF ppc = "boot" THEN pactive ELSE Uncount
        /\ active' = [active EXCEPT ![slot] = pactive']
        /\ UNCHANGED <<lock, current, wpid, local, slot, done, psig, crashes,
                        signals, strays>>

\* The parent's half of kw->pid = fork(), and what follows the spawn: the next
\* slot of kore_worker_init, or the end of kore_worker_wait.
StorePid == /\ ppc \in {"bootpid", "respawnpid"}
            /\ wpid' = [wpid EXCEPT ![slot] = mypid[slot]]
            /\ IF ppc = "bootpid" /\ slot + 1 < WorkerCount
               THEN ppc' = "boot" /\ slot' = slot + 1
               ELSE ppc' = "loop" /\ slot' = 0
            /\ UNCHANGED <<lock, current, has_lock, pc, mypid, sig, local, done, psig, bounds, counters>>

\* The top of the parent's loop, when it reads a signal from sig_recv.
ParentTop == /\ ppc = "loop" /\ psig # NoSig
             /\ ppc' = IF psig = TERM THEN "dispatch" ELSE "sigclr"
             /\ slot' = 0
             /\ UNCHANGED <<shared, pc, mypid, sig, local, done, psig, bounds, counters>>

\* sig_recv = 0, a step after its value was read.
ParentSigClear == /\ ppc = "sigclr"
                  /\ ppc' = "reap" /\ psig' = NoSig
                  /\ UNCHANGED <<shared, pc, mypid, sig, local, slot, done, bounds, counters>>

\* What kill(pid, SIGTERM) does to the workers; pid 0 is the whole group.
Signalled(pid) == [w \in Slots |-> IF Alive(w) /\ (pid = 0 \/ mypid[w] = pid)
                                   THEN TERM ELSE sig[w]]

\* One iteration of kore_worker_dispatch_signal.
Dispatch == /\ ppc = "dispatch"
            /\ sig' = Signalled(wpid[slot])
            /\ IF slot + 1 < WorkerCount
               THEN slot' = slot + 1 /\ ppc' = ppc
               ELSE slot' = 0 /\ ppc' = "drain"
            /\ done' = 0
            /\ UNCHANGED <<shared, pc, mypid, local, psig, bounds, counters>>

\* The parent is past the signal part of an iteration: it read no signal, or
\* has cleared the one it read.
Reaping == ppc = "reap" \/ (ppc = "loop" /\ psig = NoSig)

\* kore_worker_wait(0) and the event loop.  A worker that ended cleanly is only
\* logged: its pid stays in the table.
ReapNone == /\ ppc = "reap"
            /\ \A w \in Slots : pc[w] \notin Zombies
            /\ ppc' = "loop"
            /\ UNCHANGED <<shared, pc, mypid, sig, local, slot, done, psig, bounds, counters>>

Reap(w) == /\ Reaping
           /\ pc[w] \in Zombies
           /\ pc' = [pc EXCEPT ![w] = "none"]
           /\ IF pc[w] = "crashed" /\ wpid[w] = mypid[w]
              THEN ppc' = "recover" /\ slot' = w
              ELSE ppc' = "loop" /\ slot' = slot
           /\ UNCHANGED <<shared, mypid, sig, local, done, psig, bounds, counters>>

\* Mutant: the parent restarts a worker without looking at the lock.
RecoverNever == /\ ppc = "recover"
                /\ ppc' = "respawn"
                /\ UNCHANGED <<shared, pc, mypid, sig, local, slot, done, psig, bounds, counters>>

\* if (kw->pid == accept_lock->current) worker_unlock(): its first half.
Recover == /\ ppc = "recover"
           /\ IF wpid[slot] = current
              THEN current' = 0 /\ ppc' = "unlock"
              ELSE current' = current /\ ppc' = "respawn"
           /\ UNCHANGED <<lock, wpid, has_lock, pc, mypid, sig, local, slot, done, psig, bounds, counters>>

\* worker_unlock: the compare and swap.
ParentUnlock == /\ ppc = "unlock"
                /\ lock' = 0 /\ ppc' = "respawn"
                /\ UNCHANGED <<current, wpid, has_lock, pc, mypid, sig, local, slot, done, psig,
                               bounds, counters>>

\* kore_worker_shutdown, one iteration of its inner loop.  kore_worker_wait(1)
\* blocks while a child runs and none has ended, and returns at once with an
\* error when there is no child left.
DrainDone == /\ ppc = "drain" /\ slot < WorkerCount
             /\ wpid[slot] = 0
             /\ done' = done + 1 /\ slot' = slot + 1
             /\ UNCHANGED <<shared, pc, mypid, sig, local, ppc, psig, bounds, counters>>

\* Mutant: kore_worker_wait(1) leaves kw->pid as kore_worker_wait(0) does.
DrainKeepsPid(w) == /\ ppc = "drain" /\ slot < WorkerCount
                    /\ wpid[slot] # 0
                    /\ pc[w] \in Zombies
                    /\ pc' = [pc EXCEPT ![w] = "none"]
                    /\ slot' = slot + 1
                    /\ UNCHANGED <<shared, mypid, sig, local, ppc, done, psig, bounds, counters>>

DrainReap(w) == /\ ppc = "drain" /\ slot < WorkerCount
                /\ wpid[slot] # 0
                /\ pc[w] \in Zombies
                /\ pc' = [pc EXCEPT ![w] = "none"]
                /\ wpid' = IF wpid[w] = mypid[w] THEN [wpid EXCEPT ![w] = 0] ELSE wpid
                /\ slot' = slot + 1
                /\ UNCHANGED <<lock, current, has_lock, mypid, sig, local, ppc, done, psig, bounds, counters>>

DrainNoChild == /\ ppc = "drain" /\ slot < WorkerCount
                /\ wpid[slot] # 0
                /\ \A w \in Slots : pc[w] = "none"
                /\ slot' = slot + 1
                /\ UNCHANGED <<shared, pc, mypid, sig, local, ppc, done, psig, bounds, counters>>

DrainPass == /\ ppc = "drain" /\ slot = WorkerCount
             /\ IF done = WorkerCount THEN ppc' = "stopped" ELSE ppc' = ppc
             /\ slot' = 0 /\ done' = 0
             /\ UNCHANGED <<shared, pc, mypid, sig, local, psig, bounds, counters>>

ParentNext == \/ Fork \/ StorePid \/ ParentTop \/ ParentSigClear \/ Dispatch
              \/ ReapNone \/ (\E w \in Slots : Reap(w)) \/ Recover \/ ParentUnlock
              \/ DrainDone \/ (\E w \in Slots : DrainReap(w)) \/ DrainNoChild \/ DrainPass

-----------------------------------------------------------------------------
(* A worker                                                                *)

Goto(w, l) == pc' = [pc EXCEPT ![w] = l]

\* The variables of kore_worker_entry, and a process's knowledge when it ends.
Forget(w) == /\ sig' = [sig EXCEPT ![w] = NoSig]
             /\ quit' = [quit EXCEPT ![w] = FALSE]
             /\ had_lock' = [had_lock EXCEPT ![w] = 0]
             /\ accepting' = [accepting EXCEPT ![w] = FALSE]
             /\ conns' = [conns EXCEPT ![w] = 0]
             /\ backoff' = [backoff EXCEPT ![w] = FALSE]

\* The child's half of kw->pid = fork(): it stores 0 in the shared table.
ChildZero(w) == /\ pc[w] = "forked"
                /\ wpid' = [wpid EXCEPT ![w] = 0]
                /\ Goto(w, "zeroed")
                /\ UNCHANGED <<lock, current, has_lock, mypid, sig, local, parent, psig, bounds, counters>>

\* if (kw->pid == 0) kw->pid = getpid()
ChildPid(w) == /\ pc[w] = "zeroed"
               /\ wpid' = [wpid EXCEPT ![w] = mypid[w]]
               /\ Goto(w, "entry")
               /\ UNCHANGED <<lock, current, has_lock, mypid, sig, local, parent, psig, bounds, counters>>

\* The test reads kw->pid again, and the parent has already stored the pid of
\* the child there: the child takes itself for the parent and returns from
\* kore_worker_spawn.  It is no worker; what it does next is not modelled.
ChildStray(w) == /\ pc[w] = "zeroed"
                 /\ wpid[w] # 0
                 /\ Goto(w, "stray")
                 /\ UNCHANGED <<shared, mypid, sig, local, parent, psig, bounds, counters>>

\* kore_worker_entry up to its loop.  sig_recv = 0 drops any signal that came
\* since the fork.
WorkerEntry(w) == /\ pc[w] = "entry"
                  /\ Forget(w)
                  /\ Goto(w, "top")
                  /\ UNCHANGED <<shared, mypid, parent, psig, bounds, counters>>

\* The top of the loop, when it reads a signal from sig_recv, and the reset of
\* sig_recv a step later.
WorkerTop(w) == /\ pc[w] = "top" /\ sig[w] # NoSig
                /\ quit' = [quit EXCEPT ![w] = @ \/ sig[w] = TERM]
                /\ Goto(w, "sigclr")
                /\ UNCHANGED <<shared, mypid, sig, had_lock, accepting, conns, backoff, parent,
                               psig, bounds, counters>>

WorkerSigClear(w) == /\ pc[w] = "sigclr"
                     /\ sig' = [sig EXCEPT ![w] = NoSig]
                     /\ Goto(w, "lock")
                     /\ UNCHANGED <<shared, mypid, local, parent, psig, bounds, counters>>

\* The worker is past the signal part of an iteration.
Locking(w) == pc[w] = "lock" \/ (pc[w] = "top" /\ sig[w] = NoSig)

\* Mutant: had_lock is reset and the listeners stay in the epoll set.
ForgetAccept(w) == had_lock' = [had_lock EXCEPT ![w] = 0] /\ UNCHANGED accepting

\* if (!worker->has_lock) if (had_lock == 1): leave the listeners.
DisableAccept(w) == /\ had_lock' = [had_lock EXCEPT ![w] = 0]
                    /\ accepting' = [accepting EXCEPT ![w] = accepting[w] /\ had_lock[w] = 0]

\* if (had_lock == 0): watch the listeners.
EnableAccept(w) == /\ had_lock' = [had_lock EXCEPT ![w] = 1]
                   /\ accepting' = [accepting EXCEPT ![w] = accepting[w] \/ had_lock[w] = 0]

\* Mutant: the last connection slot is never offered.
MayTryStrict(w) == /\ ~backoff[w]
                   /\ has_lock[w] = 0
                   /\ WorkerCount > 1
                   /\ active[w] + 1 < MaxConn

\* kore_worker_acceptlock_obtain may try the lock word.
MayTry(w) == /\ ~backoff[w]
             /\ has_lock[w] = 0
             /\ WorkerCount > 1
             /\ active[w] < MaxConn

\* The lock part of an iteration: a worker that has the lock, or needs none
\* because it is alone, keeps it.
StayHolder(w) == /\ Locking(w)
                 /\ has_lock[w] = 1 \/ (WorkerCount = 1 /\ ~backoff[w])
                 /\ has_lock' = [has_lock EXCEPT ![w] = 1]
                 /\ IF backoff[w] THEN UNCHANGED <<had_lock, accepting>> ELSE EnableAccept(w)
                 /\ Goto(w, "wait")
                 /\ UNCHANGED <<lock, current, wpid, mypid, sig, quit, conns, backoff, parent, psig,
                                bounds, counters>>

\* A worker that does not try the lock, or finds it taken, goes without.
GoWithout(w) == /\ Locking(w)
                /\ has_lock[w] = 0 /\ (WorkerCount > 1 \/ backoff[w])
                /\ MayTry(w) => lock = 1
                /\ DisableAccept(w)
                /\ Goto(w, "wait")
                /\ UNCHANGED <<shared, mypid, sig, quit, conns, backoff, parent, psig, bounds, counters>>

\* Mutant: the lock word is set whatever it was.
TryLockAlways(w) == /\ Locking(w)
                    /\ MayTry(w)
                    /\ lock' = 1
                    /\ Goto(w, "own")
                    /\ UNCHANGED <<current, wpid, has_lock, mypid, sig, local, parent, psig, bounds, counters>>

\* worker_trylock: the compare and swap, then the store of the pid.
TryLock(w) == /\ Locking(w)
              /\ MayTry(w)
              /\ lock = 0
              /\ lock' = 1
              /\ Goto(w, "own")
              /\ UNCHANGED <<current, wpid, has_lock, mypid, sig, local, parent, psig, bounds, counters>>

SetCurrent(w) == /\ pc[w] = "own"
                 /\ current' = wpid[w]
                 /\ Goto(w, "got")
                 /\ UNCHANGED <<lock, wpid, has_lock, mypid, sig, local, parent, psig, bounds, counters>>

GotLock(w) == /\ pc[w] = "got"
              /\ has_lock' = [has_lock EXCEPT ![w] = 1]
              /\ EnableAccept(w)
              /\ Goto(w, "wait")
              /\ UNCHANGED <<lock, current, wpid, mypid, sig, quit, conns, backoff, parent, psig,
                             bounds, counters>>

\* Mutant: a client is counted only when the accept loop ends with an error.
EventWaitUncounted(w) == \E n \in 0 .. MaxConn, failed \in BOOLEAN :
  /\ pc[w] = "wait"
  /\ n > 0 => active[w] + n <= MaxConn
  /\ (n > 0 \/ failed) => accepting[w]
  /\ active' = [active EXCEPT ![w] = IF failed THEN @ + n ELSE @]
  /\ conns' = [conns EXCEPT ![w] = @ + n]
  /\ Goto(w, "process")
  /\ UNCHANGED <<shared, mypid, sig, quit, had_lock, accepting, backoff, pactive, parent, psig, bounds>>

\* kore_platform_event_wait: accept while there is room, until a client is
\* missing (n so far) or accept fails (r = 1).
EventWait(w) == \E n \in 0 .. MaxConn, failed \in BOOLEAN :
  /\ pc[w] = "wait"
  /\ n > 0 => active[w] + n <= MaxConn
  /\ (n > 0 \/ failed) => accepting[w]
  /\ failed => active[w] + n < MaxConn
  /\ active' = [active EXCEPT ![w] = @ + n] /\ conns' = [conns EXCEPT ![w] = @ + n]
  /\ LET r == IF failed THEN 1 ELSE n
         released == has_lock[w] = 1 /\ r > 0
     IN /\ Goto(w, IF released /\ WorkerCount > 1 THEN "rel" ELSE "process")
        /\ backoff' = [backoff EXCEPT ![w] = @ \/ released]
  /\ UNCHANGED <<shared, mypid, sig, quit, had_lock, accepting, pactive, parent, psig, bounds>>

\* kore_worker_acceptlock_release: the two halves of worker_unlock.
ReleaseCurrent(w) == /\ pc[w] = "rel"
                     /\ current' = 0
                     /\ Goto(w, "unlk")
                     /\ UNCHANGED <<lock, wpid, has_lock, mypid, sig, local, parent, psig, bounds, counters>>

ReleaseLock(w) == /\ pc[w] = "unlk"
                  /\ lock' = 0
                  /\ has_lock' = [has_lock EXCEPT ![w] = 0]
                  /\ Goto(w, "process")
                  /\ UNCHANGED <<current, wpid, mypid, sig, local, parent, psig, bounds, counters>>

\* http_process, the idle check and the prune, then the test of quit.
Process(w) == /\ pc[w] = "process" /\ ~quit[w]
              /\ \E n \in 0 .. conns[w] : /\ conns' = [conns EXCEPT ![w] = @ - n]
                                         /\ active' = [active EXCEPT ![w] = @ - n]
              /\ Goto(w, "top")
              /\ UNCHANGED <<shared, mypid, sig, quit, had_lock, accepting, backoff, parent, psig,
                             bounds, pactive>>

\* The same last iteration when quit is set, the cleanup and exit(0), which does
\* not give the lock back.
Exit(w) == /\ pc[w] = "process" /\ quit[w]
           /\ Goto(w, "exited") /\ Forget(w) /\ active' = [active EXCEPT ![w] = 0]
           /\ UNCHANGED <<shared, mypid, pactive, parent, psig, bounds>>

WorkerNext(w) == \/ ChildZero(w) \/ ChildPid(w) \/ WorkerEntry(w)
                 \/ WorkerTop(w) \/ WorkerSigClear(w)
                 \/ StayHolder(w) \/ GoWithout(w) \/ TryLock(w) \/ SetCurrent(w) \/ GotLock(w)
                 \/ EventWait(w) \/ ReleaseCurrent(w) \/ ReleaseLock(w) \/ Process(w) \/ Exit(w)

-----------------------------------------------------------------------------
(* The environment                                                         *)

\* now > next_lock: WORKER_LOCK_TIMEOUT passed since the release.
BackoffOver(w) == /\ backoff[w] /\ Locking(w)
                  /\ backoff' = [backoff EXCEPT ![w] = FALSE]
                  /\ UNCHANGED <<shared, pc, mypid, sig, quit, had_lock, accepting, conns, parent,
                                 psig, bounds, counters>>

MoreFaults == crashes + signals + strays < MaxFaults

\* A worker dies of fatal(), of a fault in a handler or of a kill.
Crash(w) == /\ crashes < MaxCrashes /\ MoreFaults
            /\ Alive(w)
            /\ crashes' = crashes + 1
            /\ Goto(w, "crashed") /\ Forget(w) /\ active' = [active EXCEPT ![w] = 0]
            /\ UNCHANGED <<shared, mypid, pactive, parent, psig, npid, signals, strays>>

\* kore_signal in the process that is signalled.  sig_recv holds one signal.
SignalWorker(w, s) == /\ strays < MaxStrays /\ MoreFaults
                      /\ Alive(w)
                      /\ strays' = strays + 1
                      /\ sig' = [sig EXCEPT ![w] = s]
                      /\ UNCHANGED <<shared, pc, mypid, local, parent, psig, npid, crashes, signals, counters>>

SignalParent(s) == /\ signals < MaxSignals /\ MoreFaults
                   /\ ppc # "stopped"
                   /\ signals' = signals + 1
                   /\ psig' = s
                   /\ UNCHANGED <<shared, pc, mypid, sig, local, parent, npid, crashes, strays, counters>>

Next == \/ ParentNext
        \/ \E w \in Slots : \/ WorkerNext(w) \/ ChildStray(w) \/ BackoffOver(w) \/ Crash(w)
                            \/ \E s \in {HUP, TERM} : SignalWorker(w, s)
        \/ \E s \in {HUP, TERM} : SignalParent(s)

\* The kernel schedules every process and epoll_wait is timed.  The clock runs
\* on between iterations, so one of them reads a time past next_lock.  Nothing
\* forces a crash, a signal or the stray outcome of the race.
Fairness == /\ WF_vars(ParentNext)
            /\ \A w \in Slots : WF_vars(WorkerNext(w)) /\ SF_vars(BackoffOver(w))

Spec == Init /\ [][Next]_vars
FairSpec == Spec /\ Fairness

-----------------------------------------------------------------------------
(* Properties                                                              *)

\* The types of the state; no worker ever has more than MaxConn connections
\* (worker_max_connections, kore_platform_event_wait).
TypeOK == /\ lock \in {0, 1} /\ current \in Nat
          /\ wpid \in [Slots -> Nat] /\ has_lock \in [Slots -> {0, 1}]
          /\ pc \in [Slots -> Places]
          /\ mypid \in [Slots -> Nat]
          /\ sig \in [Slots -> {NoSig, HUP, TERM}] /\ quit \in [Slots -> BOOLEAN]
          /\ had_lock \in [Slots -> {0, 1}] /\ accepting \in [Slots -> BOOLEAN]
          /\ conns \in [Slots -> 0 .. MaxConn]
          /\ active \in [Slots -> 0 .. UintMax] /\ pactive \in 0 .. UintMax
          /\ backoff \in [Slots -> BOOLEAN]
          /\ ppc \in ParentPlaces
          /\ slot \in 0 .. WorkerCount /\ done \in Nat /\ psig \in {NoSig, HUP, TERM}
          /\ npid \in Nat /\ crashes \in Nat /\ signals \in Nat /\ strays \in Nat

\* The worker of slot w is between winning the lock word and giving it back.
Holds(w) == \/ pc[w] \in {"own", "got", "rel", "unlk"}
            \/ pc[w] \in Looping /\ has_lock[w] = 1 /\ WorkerCount > 1

\* At most one worker holds the accept lock, and the lock word is 1 while one
\* does, whatever dies in between and whatever the parent unlocks for the dead.
MutualExclusion == /\ \A v, w \in Slots : Holds(v) /\ Holds(w) => v = w
                   /\ (\E w \in Slots : Holds(w)) => lock = 1

\* The lock excludes, and with several workers the one that polls the listening
\* sockets holds it and has room: no two workers ever wait for the same client.
AcceptExclusion ==
  /\ MutualExclusion
  /\ WorkerCount > 1 =>
       \A w \in Slots : pc[w] = "wait" /\ accepting[w] => Holds(w) /\ active[w] < MaxConn

\* worker_active_connections counts the connections of a worker exactly, or the
\* worker replaced a dead one: it then started from the parent's copy, wrapped
\* below zero by kore_connection_remove for the message connection, and has no
\* room and no connection however long it runs (until 2^32 - MaxConn restarts).
CountsOrStarves == npid + MaxConn <= WorkerCount + UintMax + 1 =>
  \A w \in Slots : pc[w] \in Looping =>
    active[w] = conns[w] \/ (active[w] >= MaxConn /\ conns[w] = 0)

ShuttingDown == ppc \in {"dispatch", "drain", "stopped"}

\* A worker died while current named it, and the parent has not unlocked yet.
Recoverable == \/ \E w \in Slots : pc[w] = "crashed" /\ wpid[w] = mypid[w] /\ current = mypid[w]
               \/ ppc = "recover" /\ current = wpid[slot]
               \/ ppc = "unlock"

\* Every lock that is taken is held by a worker, or the parent is about to
\* release it for one that crashed.
Accounted == lock = 1 => (\E w \in Slots : Holds(w)) \/ Recoverable \/ ShuttingDown

\* The steps after which nobody will ever release the lock: a crash on either
\* side of the store to current, and an exit with the lock held.
LossStep == \E w \in Slots : \/ pc[w] \in {"own", "unlk"} /\ pc'[w] = "crashed"
                             \/ has_lock[w] = 1 /\ pc'[w] = "exited"

\* Only those steps lose the lock: no other crash, signal, reap, restart or
\* interleaving leaves it taken with nobody to release it.
LockLostOnlyByExitOrWindow == [][Accounted => Accounted' \/ LossStep]_vars

\* The state of the lock that AcceptLock speaks of.
LockStatus == IF lock = 0 THEN "free"
              ELSE IF \E w \in Slots : Holds(w) THEN "held"
              ELSE IF Recoverable THEN "dead" ELSE "lost"
LockHolder == {w \in Slots : Holds(w)}

AL == INSTANCE AcceptLock WITH status <- LockStatus, holder <- LockHolder

\* The lock word, current and the table of pids implement the lock of
\* AcceptLock: no hand-over from holder to holder, no way back from "lost".
ImplementsAcceptLock == AL!Spec

\* A lock whose holder crashed while current named it is released
\* (kore_worker_wait), unless the parent is shutting down.
DeadHolderReleased == Recoverable ~> lock = 0 \/ ShuttingDown

\* A free lock does not stay free while a worker has room: it is taken, or the
\* worker quits, dies or fills up.
FreeLockIsTaken == \A w \in Slots :
  lock = 0 /\ WorkerCount > 1 /\ pc[w] \in Looping /\ ~quit[w] /\ active[w] < MaxConn
    ~> lock = 1 \/ pc[w] \notin Looping \/ quit[w]

\* kore_worker_shutdown has nothing left to wait for in slot w, or the worker
\* there has its SIGTERM.
Doomed(w) == \/ pc[w] = "none" /\ wpid[w] = 0
             \/ pc[w] \in Zombies /\ wpid[w] \in {0, mypid[w]}
             \/ pc[w] \in Looping /\ (quit[w] \/ (sig[w] = TERM /\ pc[w] # "sigclr"))

\* kore_worker_shutdown returns when every worker has got the signal of the
\* parent (a later SIGHUP would overwrite it in sig_recv).
ShutdownCompletes ==
  ppc = "drain" /\ (\A w \in Slots : Doomed(w))
    ~> ppc = "stopped" \/ \E w \in Slots : sig[w] = HUP
============================================================================
