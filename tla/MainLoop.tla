------------------------------ MODULE MainLoop ------------------------------
(***************************************************************************)
(* The main thread of the SDL2 build, tTVPApplication::Run over and over,  *)
(* and who wakes it: the timer thread with its watch timer (TimerThread),  *)
(* the thread that limits continuous events (option -contfreq), and the    *)
(* user.  Posting an event of the script wakes nobody: InvokeEvents and    *)
(* CallDeliverAllEventsOnIdle are empty here, and Run waits in             *)
(* SDL_WaitEvent unless continuous events are called without a limit.      *)
(***************************************************************************)
EXTENDS Naturals, Sequences

CONSTANTS
  Limited,      \* -contfreq is not 0
  MaxQueue,     \* bound on the queue of SDL, which holds 65535
  MaxBurst,     \* bound on events that come during one sdl_process_events, which ends
  MaxPosted     \* bound on events in the queue of the script

VARIABLES
  pc,           \* of Run: "poll", "idle", "rest", "clear", "call", "beat", "wait", or "stopped"
  sdl,          \* the queue of SDL: "timer", "limit", "input", "quit"
  posted,       \* events in the queues of the script
  held,         \* TVPExclusiveEventPosted or TVPEventInterrupting
  hooks,        \* a continuous handler is registered
  calling,      \* ContinuousEventCalling
  limiting,     \* Enabled, of the limit thread
  posting,      \* the limit thread has set the flag and not yet posted its event
  flag,         \* TVPProcessContinuousHandlerEventFlag
  available,    \* PendingEventsAvailable, of the timer thread
  burst,        \* how many came since the last ended
  terminated,   \* tarminate_
  turn          \* history: changes with each call of the continuous handlers

script == <<posted, held, hooks, calling, limiting, terminated>>
vars == <<pc, sdl, script, posting, flag, available, burst, turn>>

TypeOK ==
  /\ pc \in {"poll", "idle", "rest", "clear", "call", "beat", "wait", "stopped"}
  /\ sdl \in Seq({"timer", "limit", "input", "quit"}) /\ Len(sdl) <= MaxQueue
  /\ posted \in 0 .. MaxPosted
  /\ burst \in 0 .. MaxBurst
  /\ {held, hooks, calling, limiting, posting, flag, available, terminated, turn} \subseteq BOOLEAN

Init ==
  /\ pc = "poll" /\ sdl = <<>> /\ posted = 0 /\ held = FALSE
  /\ hooks = FALSE /\ calling = FALSE /\ limiting = FALSE /\ posting = FALSE /\ flag = FALSE
  /\ available = FALSE /\ burst = 0 /\ terminated = FALSE /\ turn = FALSE

-----------------------------------------------------------------------------
(* What a handler of the script does: it posts events, exclusive ones too, *)
(* registers the continuous handler or removes it, throws, and terminates. *)
\* TVPBeginContinuousEvent.  SetEnabled waits for the limit thread to leave
\* its critical section.
Begin ==
  /\ hooks' = TRUE
  /\ IF Limited THEN ~posting /\ limiting' = TRUE /\ UNCHANGED calling
     ELSE calling' = TRUE /\ UNCHANGED limiting

\* TVPEndContinuousEvent.
End == ~posting /\ calling' = FALSE /\ limiting' = FALSE

\* Removing leaves an empty cell, and the calling goes on.
Remove == hooks' = FALSE /\ UNCHANGED <<calling, limiting>>

Handlers(left, before) ==
  /\ posted' \in left .. MaxPosted
  /\ held' \in {before, TRUE}
  /\ Begin \/ Remove \/ UNCHANGED <<hooks, calling, limiting>>
  /\ terminated' \in {terminated, TRUE}

\* Fault: the timer thread is not told that its event came.
TimerKept == available
TimerTaken == FALSE

\* sdl_process_events, of one event.  TVPTimer calls the system control and
\* that the script; input is posted to the script; a quit nobody takes
\* terminates.
Poll ==
  /\ pc = "poll" /\ sdl # <<>> /\ sdl' = Tail(sdl)
  /\ LET e == Head(sdl)
     IN /\ available' = IF e = "timer" THEN TimerTaken ELSE available
        /\ \/ e = "timer" /\ Handlers(posted, held)
           \/ /\ e = "input" /\ posted' = IF posted < MaxPosted THEN posted + 1 ELSE posted
              /\ UNCHANGED <<held, hooks, calling, limiting, terminated>>
           \/ /\ e = "quit" /\ terminated' = TRUE
              /\ UNCHANGED <<posted, held, hooks, calling, limiting>>
           \/ e = "limit" /\ UNCHANGED script
  /\ UNCHANGED <<pc, posting, flag, burst, turn>>

\* Run returns at once when the application terminates, and process_events
\* uninitialises the system.
Polled ==
  /\ pc = "poll" /\ sdl = <<>>
  /\ pc' = (IF terminated THEN "stopped" ELSE "idle") /\ burst' = 0
  /\ UNCHANGED <<sdl, script, posting, flag, available, turn>>

\* Fault: continuous events are left to the limit thread.
FlagOfThread == flag
FlagForIdle == flag \/ calling

\* DeliverEvents and the script pass of TVPDeliverAllEvents, which begins by
\* clearing what held back the last one.
Deliver ==
  /\ pc = "idle" /\ pc' = "rest"
  /\ flag' = FlagForIdle
  /\ IF posted > 0 THEN Handlers(0, FALSE)
     ELSE held' = FALSE /\ UNCHANGED <<posted, hooks, calling, limiting, terminated>>
  /\ UNCHANGED <<sdl, posting, available, burst, turn>>

\* An exclusive event that waits, or an interrupted pass, holds back idle
\* events, continuous events and the redraw.
HeldBack ==
  /\ pc = "rest" /\ held /\ pc' = "beat"
  /\ UNCHANGED <<sdl, script, posting, flag, available, burst, turn>>

\* Idle events, then the test of the flag.
Idle ==
  /\ pc = "rest" /\ ~held /\ pc' = (IF flag THEN "clear" ELSE "beat")
  /\ (posted > 0 /\ Handlers(0, FALSE)) \/ UNCHANGED script
  /\ UNCHANGED <<sdl, posting, flag, available, burst, turn>>

\* The flag is cleared, whoever set it since it was looked at.
Clear ==
  /\ pc = "clear" /\ flag' = FALSE /\ pc' = "call"
  /\ UNCHANGED <<sdl, script, posting, available, burst, turn>>

\* TVPDeliverContinuousEvent: the handlers are called, and the calling ends
\* when none is left, which is seen now or in the next delivery.  An
\* exclusive event of an idle handler stops it at the first empty cell.
Call ==
  /\ pc = "call" /\ pc' = "beat"
  /\ \/ hooks /\ turn' = ~turn /\ Handlers(posted, held)
     \/ hooks /\ turn' = ~turn /\ hooks' = FALSE /\ End /\ UNCHANGED <<posted, held, terminated>>
     \/ ~hooks /\ End /\ UNCHANGED <<posted, held, hooks, terminated, turn>>
     \/ held /\ UNCHANGED <<script, turn>>
  /\ UNCHANGED <<sdl, posting, flag, available, burst>>

\* The update of windows, TickBeat, then the wait.  It starts as well when
\* the application terminates.
Beat ==
  /\ pc = "beat"
  /\ pc' = IF ~calling THEN "wait" ELSE IF terminated THEN "stopped" ELSE "poll"
  /\ UNCHANGED <<sdl, script, posting, flag, available, burst, turn>>

\* SDL_WaitEvent leaves the event in the queue.
Woken ==
  /\ pc = "wait" /\ sdl # <<>>
  /\ pc' = IF terminated THEN "stopped" ELSE "poll"
  /\ UNCHANGED <<sdl, script, posting, flag, available, burst, turn>>

-----------------------------------------------------------------------------
\* There is room in the queue, beside that of an event under way.
Room == Len(sdl) + (IF posting THEN 1 ELSE 0) < MaxQueue /\ burst < MaxBurst
Post(e) == Room /\ sdl' = Append(sdl, e) /\ burst' = burst + 1

\* The watch timer is due every 50 ms, and tells once for all pending timers.
WatchTimer ==
  /\ pc # "stopped" /\ ~available /\ Post("timer") /\ available' = TRUE
  /\ UNCHANGED <<pc, script, posting, flag, turn>>

\* A tick of the limit thread, in its critical section: flag first, then event.
LimitTick ==
  /\ pc # "stopped" /\ limiting /\ ~posting /\ Room
  /\ flag' = TRUE /\ posting' = TRUE /\ burst' = burst + 1
  /\ UNCHANGED <<pc, sdl, script, available, turn>>

LimitPost ==
  /\ pc # "stopped" /\ posting /\ sdl' = Append(sdl, "limit") /\ posting' = FALSE
  /\ UNCHANGED <<pc, script, flag, available, burst, turn>>

\* The user; the queue never fills up with it.
User ==
  /\ pc # "stopped" /\ Len(sdl) < MaxQueue - 1
  /\ Post("input") \/ Post("quit")
  /\ UNCHANGED <<pc, script, posting, flag, available, turn>>

Main == Poll \/ Polled \/ Deliver \/ HeldBack \/ Idle \/ Clear \/ Call \/ Beat \/ Woken
LimitThread == LimitTick \/ LimitPost
Next == Main \/ WatchTimer \/ LimitThread \/ User

Spec == Init /\ [][Next]_vars
\* The main thread goes on, and a thread that has something to post gets a
\* place in the queue in the end.
Fairness == WF_vars(Main) /\ SF_vars(WatchTimer) /\ SF_vars(LimitThread)
FairSpec == Spec /\ Fairness
-----------------------------------------------------------------------------
\* A registered continuous handler is called again and again, with a limit
\* and without, though the limit thread sets the flag between the test and
\* the clearing in the main thread, unless exclusive events or exceptions
\* hold back one pass after another (EventIntf.cpp:608).
ContinuousCalled ==
  \A b \in BOOLEAN :
    (hooks /\ turn = b) ~> (turn # b \/ ~hooks \/ terminated \/ (held /\ pc = "beat"))

\* While events of the script are queued another pass comes, though posting
\* them wakes nobody, and when no event of the user comes.
PostedDelivered == posted > 0 ~> (pc = "idle" \/ terminated)

\* The program ends when the application is terminated, from a handler as
\* well as by the user.
TerminateEnds == terminated ~> pc = "stopped"

\* The main loop goes on with each of these.
LoopGoesOn == ContinuousCalled /\ PostedDelivered /\ TerminateEnds
=============================================================================
