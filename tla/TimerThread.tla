----------------------------- MODULE TimerThread -----------------------------
(***************************************************************************)
(* Timers: the thread of TimerThread.cpp counts, the main thread posts.    *)
(* A pass of the thread triggers the timers that are due, puts them into   *)
(* Pending, posts one native event for all of them and sleeps until the    *)
(* next is due.  Proc, called by the event loop, fires them: a Timer of    *)
(* the script posts onTimer events up to its capacity.  Every step holds   *)
(* TVPTimerCS from its beginning to its end.  The timers are those of the  *)
(* script: the watch timer of the system keeps the list from being empty,  *)
(* so the thread is not deleted before the program ends.  Pending is a     *)
(* vector in the code, where a timer may come twice: firing it again does  *)
(* nothing.                                                                *)
(***************************************************************************)
EXTENDS Naturals, FiniteSetsExt

CONSTANTS
  Timer,
  Intervals,    \* in milliseconds
  Capacity,     \* of a timer: events in the queue
  Burst,        \* 40 in the code: more at once are discarded
  Least,        \* TVP_LEAST_TIMER_INTERVAL
  MaxTick       \* bound on the clock

VARIABLES
  now,          \* TVPGetTickCount, in milliseconds
  list,         \* List
  enabled, interval, next,   \* of a timer: Enabled, Interval, NextTick
  count,        \* PendingCount
  pending,      \* Pending
  available,    \* PendingEventsAvailable
  native,       \* events TVP_EV_TIMER_THREAD in the queue of SDL
  awake,        \* Event is set
  sleeps,       \* when the thread wakes by itself; Forever
  posted        \* onTimer events in the queue of the script

timerVars  == <<list, enabled, interval, next, count>>
threadVars == <<available, awake, sleeps>>
vars == <<now, timerVars, pending, threadVars, native, posted>>

Forever == MaxTick + 1000

TypeOK ==
  /\ list \subseteq Timer /\ enabled \subseteq Timer
  /\ interval \in [Timer -> Nat] /\ next \in [Timer -> Nat] /\ count \in [Timer -> Nat]
  /\ pending \subseteq Timer /\ {available, awake} \subseteq BOOLEAN
  /\ sleeps \in Nat /\ now \in 0 .. MaxTick /\ native \in 0 .. 1
  /\ posted \in [Timer -> 0 .. Capacity]

\* A timer has an interval of a second.
Init ==
  /\ now = 0 /\ list = {} /\ enabled = {}
  /\ interval = [t \in Timer |-> Max(Intervals)]
  /\ next = [t \in Timer |-> 0] /\ count = [t \in Timer |-> 0]
  /\ pending = {} /\ available = FALSE /\ native = 0
  /\ awake = TRUE /\ sleeps = Forever
  /\ posted = [t \in Timer |-> 0]

-----------------------------------------------------------------------------
Clock == now < MaxTick /\ now' = now + 1 /\ UNCHANGED <<timerVars, pending, threadVars, native, posted>>

Running == {t \in list \cap enabled : interval[t] > 0}
Due == {t \in Running : next[t] < now}

Passed(t) == (now - next[t]) \div interval[t] + 1
Triggered(t) == IF Passed(t) > Burst THEN 1 ELSE Passed(t)
NextTick(t) ==
  IF t \notin Due THEN next[t]
  ELSE IF Passed(t) > Burst THEN now + interval[t] ELSE next[t] + Passed(t) * interval[t]

\* RegisterToPendingItem.
Registered == {t \in Due : count[t] = 0}

\* A pass of Execute.
Pass ==
  /\ awake \/ sleeps <= now
  /\ awake' = FALSE
  /\ next' = [t \in Timer |-> NextTick(t)]
  /\ count' = [t \in Timer |-> IF t \in Due THEN count[t] + Triggered(t) ELSE count[t]]
  /\ pending' = pending \cup Registered
  /\ sleeps' = IF Running = {} THEN Forever
               ELSE now + Max({Least, Min({next'[t] - now : t \in Running})})
  /\ available' = (available \/ Due # {})
  /\ native' = IF Due # {} /\ ~available THEN native + 1 ELSE native
  /\ UNCHANGED <<now, list, enabled, interval, posted>>

\* Fault: the flag is not reset.
FlagKept == available
FlagReset == FALSE

\* Proc: FirePendingEventsAndClear of every timer that is still in the list.
Proc ==
  /\ native > 0 /\ native' = native - 1
  /\ posted' = [t \in Timer |-> IF t \in pending \cap list
                               THEN Min({posted[t] + count[t], Capacity}) ELSE posted[t]]
  /\ count' = [t \in Timer |-> IF t \in pending \cap list THEN 0 ELSE count[t]]
  /\ pending' = {}
  /\ available' = FlagReset
  /\ UNCHANGED <<now, list, enabled, interval, next, awake, sleeps>>

\* The script delivers one.
OnTimer(t) ==
  /\ posted[t] > 0 /\ posted' = [posted EXCEPT ![t] = @ - 1]
  /\ UNCHANGED <<now, timerVars, pending, threadVars, native>>

-----------------------------------------------------------------------------
Add(t) ==
  /\ t \notin list /\ list' = list \cup {t} /\ enabled' = enabled \ {t}
  /\ UNCHANGED <<now, interval, next, count, pending, threadVars, native, posted>>

\* Invalidate: RemoveItem, ZeroPendingCount, CancelEvents.
Remove(t) ==
  /\ t \in list /\ list' = list \ {t}
  /\ pending' = pending \ {t}
  /\ count' = [count EXCEPT ![t] = 0] /\ posted' = [posted EXCEPT ![t] = 0]
  /\ UNCHANGED <<now, enabled, interval, next, threadVars, native>>

\* Fault: a timer that is switched on waits for the next wake-up.
WakesNobody == awake
Wakes == TRUE

Enable(t) ==
  /\ t \in list
  /\ enabled' = enabled \cup {t} /\ next' = [next EXCEPT ![t] = now + interval[t]]
  /\ awake' = Wakes
  /\ UNCHANGED <<now, list, interval, count, pending, available, sleeps, native, posted>>

\* Fault: only the events that were posted already are cancelled.
Uncounted(t) == count
Zeroed(t) == [count EXCEPT ![t] = 0]

Disable(t) ==
  /\ t \in list
  /\ enabled' = enabled \ {t}
  /\ posted' = [posted EXCEPT ![t] = 0] /\ count' = Zeroed(t)
  /\ UNCHANGED <<now, list, interval, next, pending, threadVars, native>>

SetInterval(t, n) ==
  /\ t \in list
  /\ interval' = [interval EXCEPT ![t] = n]
  /\ IF t \in enabled
     THEN /\ posted' = [posted EXCEPT ![t] = 0] /\ count' = Zeroed(t)
          /\ next' = [next EXCEPT ![t] = now + n] /\ awake' = Wakes
     ELSE UNCHANGED <<posted, count, next, awake>>
  /\ UNCHANGED <<now, list, enabled, pending, available, sleeps, native>>

Next ==
  \/ Clock \/ Pass \/ Proc
  \/ \E t \in Timer :
       \/ Add(t) \/ Remove(t) \/ Enable(t) \/ Disable(t) \/ OnTimer(t)
       \/ \E n \in Intervals : SetInterval(t, n)

Spec == Init /\ [][Next]_vars
-----------------------------------------------------------------------------
\* What the thread triggered is not forgotten: a timer with a count waits in
\* Pending, a native event is on its way whenever one waits, and there is
\* never more than one.
NoLostTrigger ==
  /\ \A t \in list : count[t] > 0 => t \in pending
  /\ (\E t \in list : count[t] > 0) => native = 1
  /\ native = 1 <=> available

\* The thread never sleeps past a timer by more than the least interval,
\* whichever timers are switched on, off, changed and removed meanwhile.
WakesInTime ==
  awake \/ \A t \in Running : sleeps <= next[t] + Least

\* A timer that is switched off or gone has no event in the queue, and none
\* is posted for it by what the thread counted before.
DisabledIsSilent ==
  \A t \in Timer : t \notin list \cap enabled => posted[t] = 0 /\ count[t] = 0

\* The thread that counts and the main thread that fires agree.
TimersAgree == NoLostTrigger /\ WakesInTime /\ DisabledIsSilent
=============================================================================
