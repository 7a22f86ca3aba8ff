------------------------------- MODULE Timers -------------------------------
(***************************************************************************)
(* The timers of a worker: the list of base/kore/timer.c, which            *)
(* kore_timer_run serves at the top of every iteration, and the background *)
(* timers of sparc/detail/bgtimer.cpp, which an application schedules and  *)
(* cancels, from its handlers or from inside a timer's callback.           *)
(*                                                                         *)
(* Times are relative to the clock: nextrun[t] is how long there is to go, *)
(* and falls as time passes.  The time kore_timer_run was called with is   *)
(* late units ago.                                                         *)
(***************************************************************************)
EXTENDS Lists

CONSTANTS Timers,     \* every timer the application schedules
          Intervals,  \* their intervals
          MaxLate     \* bound: how long the callbacks of one kore_timer_run take

None == "none"

ASSUME TimersAssumption == /\ Intervals \subseteq Nat \ {0} /\ MaxLate \in Nat
                           /\ None \notin Timers

VARIABLES list,       \* kore_timers
          waitlist,   \* BgTimerManager: waitlist_, used until flush
          cache,      \* BgTimerManager: cache_
          life,       \* a struct kore_timer: unborn, live or freed
          flags,      \* its flags
          interval, nextrun,
          bg,         \* its background_timer: unborn, live, canceled or deleted
          arg,        \* does timer->arg point to it
          known,      \* did the handler get the timerid
          fired,      \* how often its handler was invoked, up to 2
          running,    \* the timer whose callback is running
          pc, late

tvars == <<life, flags, interval, nextrun, bg, arg, known, fired>>
vars == <<list, waitlist, cache, tvars, running, pc, late>>

Init == /\ list = <<>> /\ waitlist = <<>> /\ cache = TRUE
        /\ life = [t \in Timers |-> "unborn"] /\ flags = [t \in Timers |-> {}]
        /\ interval = [t \in Timers |-> 0] /\ nextrun = [t \in Timers |-> 0]
        /\ bg = [t \in Timers |-> "unborn"] /\ arg = [t \in Timers |-> FALSE]
        /\ known = {} /\ fired = [t \in Timers |-> 0]
        /\ running = None /\ pc = "boot" /\ late = 0

-----------------------------------------------------------------------------

\* The loop of kore_timer_set, kore_timer_add and kore_timer_run: before the
\* first timer that is later, or at the tail.
Insert(q, nx, t) ==
  LET later == Search(q, LAMBDA u : nx[u] > nx[t])
  IN IF later = 0 THEN Append(q, t) ELSE InsertBefore(q, later, t)

\* The loop of BgTimerManager::flush: kore_timer_set of one timer of the waitlist after
\* the other.
Flushed(q, nx) ==
  LET upto[k \in 0 .. Len(q)] == IF k = 0 THEN <<>> ELSE Insert(upto[k - 1], nx, q[k])
  IN upto[Len(q)]

\* An application may call these in a handler, an event or a callback.
App == pc \in {"boot", "loop", "callback"}

\* BgTimerManager::schedule: kore_timer_new, then the waitlist or kore_timer_set.
schedule(t, i, oneshot) ==
  /\ App /\ life[t] = "unborn"
  /\ life' = [life EXCEPT ![t] = "live"]
  /\ interval' = [interval EXCEPT ![t] = i]
  /\ nextrun' = [nextrun EXCEPT ![t] = i]
  /\ bg' = [bg EXCEPT ![t] = "live"] /\ arg' = [arg EXCEPT ![t] = TRUE]
  /\ flags' = [flags EXCEPT ![t] = (IF oneshot THEN {"oneshot"} ELSE {}) \cup
                                   (IF cache THEN {} ELSE {"inplace"})]
  /\ IF cache THEN waitlist' = Append(waitlist, t) /\ UNCHANGED list
     ELSE list' = Insert(list, nextrun', t) /\ UNCHANGED waitlist
  /\ UNCHANGED <<cache, known, fired, running, pc, late>>

\* BgTimerManager::flush, called by kore_onload when the worker starts.
flush == /\ pc = "boot"
         /\ cache' = FALSE /\ waitlist' = <<>> /\ pc' = "loop"
         /\ nextrun' = [t \in Timers |-> interval[t]]
         /\ flags' = [t \in Timers |-> IF t \in Range(waitlist) THEN flags[t] \cup {"inplace"}
                                       ELSE flags[t]]
         /\ list' = Flushed(waitlist, nextrun')
         /\ UNCHANGED <<life, interval, bg, arg, known, fired, running, late>>

\* Mutant: canceled and timer->arg are left alone.
CancelQuietly(t) ==
  /\ App /\ t \in known /\ bg[t] = "live"
  /\ flags' = [flags EXCEPT ![t] = @ \cup {"oneshot"}]
  /\ UNCHANGED <<list, waitlist, cache, life, interval, nextrun, bg, arg, known, fired, running,
                 pc, late>>

\* Mutant: the timer is freed whether it is in place or not.
CancelFrees(t) ==
  /\ App /\ t \in known /\ bg[t] = "live"
  /\ bg' = [bg EXCEPT ![t] = "canceled"] /\ arg' = [arg EXCEPT ![t] = FALSE]
  /\ list' = Unlink(list, t) /\ life' = [life EXCEPT ![t] = "freed"]
  /\ UNCHANGED <<waitlist, cache, flags, interval, nextrun, known, fired, running, pc, late>>

\* background_timer::cancel, by an application that was given the timerid.
cancel(t) ==
  /\ App /\ t \in known /\ bg[t] = "live"
  /\ bg' = [bg EXCEPT ![t] = "canceled"] /\ arg' = [arg EXCEPT ![t] = FALSE]
  /\ IF "inplace" \in flags[t]
     THEN list' = Unlink(list, t) /\ life' = [life EXCEPT ![t] = "freed"] /\ UNCHANGED flags
     ELSE flags' = [flags EXCEPT ![t] = @ \cup {"oneshot"}] /\ UNCHANGED <<list, life>>
  /\ UNCHANGED <<waitlist, cache, interval, nextrun, known, fired, running, pc, late>>

-----------------------------------------------------------------------------
(* kore_timer_run                                                          *)

RunBegin == /\ pc = "loop"
            /\ pc' = "run" /\ late' = 0
            /\ UNCHANGED <<list, waitlist, cache, tvars, running>>

Due(t) == nextrun[t] + late <= 0

RunEnd == /\ pc = "run"
          /\ list # <<>> => ~Due(Head(list))
          /\ pc' = "loop" /\ late' = 0
          /\ UNCHANGED <<list, waitlist, cache, tvars, running>>

\* The first timer is due: off the list, and into handle_timeout.  A callback
\* without a context is only logged; fire invokes the handler with the timerid.
Callback == /\ pc = "run" /\ list # <<>> /\ Due(Head(list))
            /\ LET t == Head(list)
               IN /\ list' = Tail(list) /\ running' = t
                  /\ flags' = [flags EXCEPT ![t] = @ \ {"inplace"}]
                  /\ IF arg[t]
                     THEN /\ pc' = "callback" /\ known' = known \cup {t}
                          /\ fired' = [fired EXCEPT ![t] = IF @ < 2 THEN @ + 1 ELSE @]
                     ELSE pc' = "returned" /\ UNCHANGED <<known, fired>>
            /\ UNCHANGED <<waitlist, cache, life, interval, nextrun, bg, arg, late>>

\* The handler returns to handle_timeout: a timer that is one-shot or was
\* cancelled loses its background_timer (the destructor cancels it).
HandlerReturns ==
  /\ pc = "callback" /\ pc' = "returned"
  /\ LET t == running
     IN IF "oneshot" \in flags[t] \/ bg[t] = "canceled"
        THEN /\ bg' = [bg EXCEPT ![t] = "deleted"] /\ arg' = [arg EXCEPT ![t] = FALSE]
             /\ flags' = [flags EXCEPT ![t] = @ \cup {"oneshot"}]
             /\ known' = known \ {t}
        ELSE UNCHANGED <<bg, arg, flags, known>>
  /\ UNCHANGED <<list, waitlist, cache, life, interval, nextrun, fired, running, late>>

\* Mutant: the timer is freed, periodic or not.
ReinsertNever == /\ pc = "returned" /\ pc' = "run" /\ running' = None
                 /\ life' = [life EXCEPT ![running] = "freed"]
                 /\ UNCHANGED <<list, nextrun, waitlist, cache, flags, interval, bg, arg, known,
                                fired, late>>

\* Back in kore_timer_run: free it, or sort it in for its next run.
Reinsert == /\ pc = "returned" /\ pc' = "run" /\ running' = None
            /\ LET t == running
               IN IF "oneshot" \in flags[t]
                  THEN life' = [life EXCEPT ![t] = "freed"] /\ UNCHANGED <<list, nextrun>>
                  ELSE /\ nextrun' = [nextrun EXCEPT ![t] = interval[t] - late]
                       /\ list' = Insert(list, nextrun', t)
                       /\ UNCHANGED life
            /\ UNCHANGED <<waitlist, cache, flags, interval, bg, arg, known, fired, late>>

\* Time passes, in the event loop or in a callback.  How late a timer is beyond
\* MaxLate makes no difference.
Tick == /\ pc = "loop" \/ (pc = "callback" /\ late < MaxLate)
        /\ late' = IF pc = "loop" THEN 0 ELSE late + 1
        /\ nextrun' = [t \in Timers |-> IF nextrun[t] > -MaxLate THEN nextrun[t] - 1
                                        ELSE nextrun[t]]
        /\ UNCHANGED <<list, waitlist, cache, life, flags, interval, bg, arg, known, fired,
                       running, pc>>

Run == RunBegin \/ RunEnd \/ Callback \/ HandlerReturns \/ Reinsert

Next == \/ Run \/ flush \/ Tick
        \/ \E t \in Timers : \/ cancel(t)
                             \/ \E i \in Intervals, o \in BOOLEAN : schedule(t, i, o)

Spec == Init /\ [][Next]_vars

\* The worker starts, its loop goes round, callbacks return and the clock runs
\* on between two rounds.
FairSpec == Spec /\ WF_vars(flush) /\ WF_vars(Run) /\ SF_vars(Tick /\ pc = "loop")

-----------------------------------------------------------------------------
(* Properties                                                              *)

\* The types of the state; no timer is further away than the interval it was
\* scheduled with (kore_timer_run counts the next run from the last).
TypeOK == /\ list \in Seq(Timers) /\ waitlist \in Seq(Timers) /\ cache \in BOOLEAN
          /\ life \in [Timers -> {"unborn", "live", "freed"}]
          /\ flags \in [Timers -> SUBSET {"oneshot", "inplace"}]
          /\ interval \in [Timers -> Intervals \cup {0}]
          /\ \A t \in Timers : \E i \in Intervals \cup {0} : nextrun[t] \in -MaxLate .. i
          /\ bg \in [Timers -> {"unborn", "live", "canceled", "deleted"}]
          /\ arg \in [Timers -> BOOLEAN] /\ known \subseteq Timers
          /\ fired \in [Timers -> 0 .. 2] /\ running \in Timers \cup {None}
          /\ pc \in {"boot", "loop", "run", "callback", "returned"} /\ late \in 0 .. MaxLate

\* The list is sorted, so that looking at its head is enough, whatever callbacks
\* that took long, scheduled or cancelled did to it.  A timer's memory: one that
\* is live is on one list, once, or running; a freed one is on none; and
\* timer->arg never points to a deleted background_timer.  A timer in place is on
\* the list; one on the list is in place until it has fired, after that the flag
\* is not set again (kore_timer_run).
Owned ==
  /\ TypeOK
  /\ \A i, j \in DOMAIN list : i < j => nextrun[list[i]] <= nextrun[list[j]]
  /\ IsInjective(list) /\ IsInjective(waitlist)
  /\ \A t \in Timers :
       LET places == {p \in {"list", "waitlist", "running"} :
                        \/ p = "list" /\ t \in Range(list)
                        \/ p = "waitlist" /\ t \in Range(waitlist)
                        \/ p = "running" /\ running = t}
       IN /\ life[t] = "live" <=> places # {}
          /\ \A p, q \in places : p = q
          /\ arg[t] <=> bg[t] = "live"
          /\ life[t] = "freed" => ~arg[t]
          /\ "inplace" \in flags[t] => t \in Range(list)
          /\ t \in Range(list) /\ "inplace" \notin flags[t] => fired[t] > 0

\* The handler of a timer that was cancelled is not invoked again, and that of a
\* one-shot timer is invoked once.
CancelledIsQuiet ==
  [][\A t \in Timers : fired'[t] # fired[t] => bg[t] = "live" /\ ("oneshot" \in flags[t] => fired[t] = 0)]_vars

\* Cancelling is final: the handler of a timer that was cancelled is not invoked
\* again (and that of a one-shot timer is invoked once), and the timer is freed,
\* although the INPLACE flag that cancel reads is not set again when a periodic
\* timer goes back to the list.
CancelIsFinal ==
  /\ CancelledIsQuiet
  /\ \A t \in Timers : bg[t] = "canceled" ~> life[t] = "freed"

\* A timer that is scheduled fires, and a periodic one again until it is cancelled.
TimerFires == \A t \in Timers :
  /\ bg[t] = "live" ~> fired[t] > 0
  /\ bg[t] = "live" /\ fired[t] = 1 ~> fired[t] = 2 \/ bg[t] # "live"
=============================================================================
