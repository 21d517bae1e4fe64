----------------------------- MODULE ImageLoader -----------------------------
(***************************************************************************)
(* Bitmap.loadAsync: requests go to the thread of tTVPAsyncImageLoader and *)
(* come back to the main thread (GraphicsLoadThread.cpp).  The thread      *)
(* takes a command when PushCommandQueueEvent was set, loads the image,    *)
(* appends the command to LoadedQueue and posts a native event; the main   *)
(* thread then handles all that are loaded, each with a call of onLoaded.  *)
(* The handler may ask for more images, invalidate bitmaps, and run the    *)
(* event loop in a modal window.  What is loaded from which file is left   *)
(* out; a command stands for its bitmap.                                   *)
(***************************************************************************)
EXTENDS Naturals, Sequences

CONSTANTS
  Bitmap,
  MaxDepth,    \* bound on handlers of onLoaded inside each other
  MaxNative    \* bound on events in the queue of SDL

VARIABLES
  alive,       \* bitmaps that are not invalidated
  loading,     \* bitmaps with Loading
  stuck,       \* history: bitmaps whose loadAsync threw after it had set Loading
  commands,    \* CommandQueue
  held,        \* the command the thread works on: a sequence of one, or empty
  loaded,      \* LoadedQueue
  ready,       \* PushCommandQueueEvent is set
  setting,     \* the main thread has pushed a command and not yet set the event
  native,      \* TVP_EV_IMAGE_LOAD_THREAD events in the queue of SDL
  at,          \* where LoadingThread is
  depth,       \* calls of HandleLoadedImage on the stack
  draining,    \* the innermost of them is in its loop, and not in a handler
  terminated

queueVars == <<commands, held, loaded>>
vars == <<alive, loading, stuck, queueVars, ready, setting, native, at, depth, draining, terminated>>

TypeOK ==
  /\ {alive, loading, stuck} \subseteq SUBSET Bitmap
  /\ {commands, held, loaded} \subseteq Seq(Bitmap) /\ Len(held) <= 1
  /\ {ready, setting, draining, terminated} \subseteq BOOLEAN
  /\ native \in 0 .. MaxNative /\ depth \in 0 .. MaxDepth
  /\ at \in {"wait", "take", "load", "post", "gone"}

Init ==
  /\ alive = Bitmap /\ loading = {} /\ stuck = {}
  /\ commands = <<>> /\ held = <<>> /\ loaded = <<>>
  /\ ready = FALSE /\ setting = FALSE /\ native = 0 /\ at = "wait"
  /\ depth = 0 /\ draining = FALSE /\ terminated = FALSE

-----------------------------------------------------------------------------
(* The script, in the main loop or in a handler of onLoaded.               *)
InScript == ~draining /\ ~setting /\ ~terminated

\* LoadAsync and LoadRequest when the cache has the image: Loading is set and
\* cleared again and onLoaded called, so that nothing changes here.  The
\* other way out is an exception for a file that is not there or of an
\* unknown format, which leaves Loading set.
LoadThrows(b) ==
  /\ InScript /\ b \in alive \ loading
  /\ loading' = loading \cup {b} /\ stuck' = stuck \cup {b}
  /\ UNCHANGED <<alive, queueVars, ready, setting, native, at, depth, draining, terminated>>

\* Fault: a bitmap is asked for again while it is loading.
AskableTwice == alive
Askable == alive \ loading
LoadAsync(b) ==
  /\ InScript /\ b \in Askable
  /\ loading' = loading \cup {b}
  /\ commands' = Append(commands, b) /\ setting' = TRUE
  /\ UNCHANGED <<alive, stuck, held, loaded, ready, native, at, depth, draining, terminated>>

Set ==
  /\ setting /\ setting' = FALSE /\ ready' = TRUE
  /\ UNCHANGED <<alive, loading, stuck, queueVars, native, at, depth, draining, terminated>>

\* A command keeps its bitmap from being deleted, not from being invalidated.
Invalidate(b) ==
  /\ InScript /\ b \in alive /\ alive' = alive \ {b}
  /\ UNCHANGED <<loading, stuck, queueVars, ready, setting, native, at, depth, draining, terminated>>

\* Proc, from the event loop.
Proc ==
  /\ InScript /\ native > 0 /\ native' = native - 1
  /\ depth < MaxDepth /\ depth' = depth + 1 /\ draining' = TRUE
  /\ UNCHANGED <<alive, loading, stuck, queueVars, ready, setting, at, terminated>>

\* HandleLoadedImage takes a command.  A bitmap without its picture, being
\* invalidated, throws when the image is set, which ends this call and not
\* the others; an error of the load is told to a valid object only.
Handle ==
  /\ draining /\ loaded # <<>>
  /\ loaded' = Tail(loaded) /\ loading' = loading \ {Head(loaded)}
  /\ draining' = FALSE
  /\ UNCHANGED depth \/ (Head(loaded) \notin alive /\ depth' = depth - 1)
  /\ UNCHANGED <<alive, stuck, commands, held, ready, setting, native, at, terminated>>

\* The handler returns to the loop.
HandlerReturns ==
  /\ InScript /\ depth > 0 /\ draining' = TRUE
  /\ UNCHANGED <<alive, loading, stuck, queueVars, ready, setting, native, at, depth, terminated>>

Handled ==
  /\ draining /\ loaded = <<>>
  /\ depth' = depth - 1 /\ draining' = FALSE
  /\ UNCHANGED <<alive, loading, stuck, queueVars, ready, setting, native, at, terminated>>

\* ~tTVPAsyncImageLoader, when the program ends.
ExitRequest ==
  /\ InScript /\ depth = 0 /\ terminated' = TRUE /\ ready' = TRUE
  /\ UNCHANGED <<alive, loading, stuck, queueVars, setting, native, at, depth, draining>>

-----------------------------------------------------------------------------
(* LoadingThread.                                                          *)
Wait ==
  /\ at = "wait" /\ ready /\ ready' = FALSE
  /\ at' = IF terminated THEN "gone" ELSE "take"
  /\ UNCHANGED <<alive, loading, stuck, queueVars, setting, native, depth, draining, terminated>>

\* Fault: the command that came last is taken first.
Newest == Len(commands)
Oldest == 1
Take ==
  /\ at = "take" /\ commands # <<>> /\ at' = "load"
  /\ held' = <<commands[Oldest]>>
  /\ commands' = SubSeq(commands, 1, Oldest - 1) \o SubSeq(commands, Oldest + 1, Len(commands))
  /\ UNCHANGED <<alive, loading, stuck, loaded, ready, setting, native, depth, draining, terminated>>

NoneLeft ==
  /\ at = "take" /\ commands = <<>>
  /\ at' = IF terminated THEN "gone" ELSE "wait"
  /\ UNCHANGED <<alive, loading, stuck, queueVars, ready, setting, native, depth, draining, terminated>>

\* LoadImageFromCommand catches every exception.
Load ==
  /\ at = "load" /\ at' = "post"
  /\ loaded' = loaded \o held /\ held' = <<>>
  /\ UNCHANGED <<alive, loading, stuck, commands, ready, setting, native, depth, draining, terminated>>

\* Fault: the thread takes one command each time it wakes.
OnePerEvent == "wait"
UntilNone == "take"

\* PostEvent tries until the queue of SDL has a place.
SendToLoadFinish ==
  /\ at = "post" /\ native < MaxNative /\ native' = native + 1
  /\ at' = IF terminated THEN "gone" ELSE UntilNone
  /\ UNCHANGED <<alive, loading, stuck, queueVars, ready, setting, depth, draining, terminated>>

Thread == Wait \/ Take \/ NoneLeft \/ Load \/ SendToLoadFinish
Main == Set \/ Proc \/ Handle \/ Handled \/ HandlerReturns
Script ==
  \/ \E b \in Bitmap : LoadThrows(b) \/ LoadAsync(b) \/ Invalidate(b)
  \/ ExitRequest
Next == Thread \/ Main \/ Script

Spec == Init /\ [][Next]_vars
\* Handlers return, and the main loop goes on with the queue of SDL.
Fairness == WF_vars(Thread) /\ WF_vars(Main)
-----------------------------------------------------------------------------
\* The requests under way, those that come back first at the front.
UnderWay == loaded \o held \o commands

\* A bitmap that says it is loading has one request under way, and one that
\* does not has none, whatever is invalidated, throws or is asked for again:
\* the image of an old request never comes to a bitmap in use (the reason why
\* every method of Bitmap looks at Loading, BitmapIntf.cpp:58-169).
OneRequestEach ==
  /\ \A b \in Bitmap :
       (b \in loading \ stuck) <=> (\E i \in DOMAIN UnderWay : UnderWay[i] = b)
  /\ \A i, j \in DOMAIN UnderWay : UnderWay[i] = UnderWay[j] => i = j

\* Nothing waits for somebody who sleeps: a command that was pushed finds the
\* thread at work or the event set, and an image that is loaded has an event
\* on its way to the main thread or a call of HandleLoadedImage that comes
\* back to it.
NothingStalls ==
  /\ commands # <<>> => ready \/ setting \/ at # "wait"
  /\ native + (IF at = "post" THEN 1 ELSE 0) + depth > 0 \/ loaded = <<>>

\* Images are answered in the order they were asked for.
InOrder ==
  [][ \/ UnderWay' = UnderWay
      \/ UnderWay # <<>> /\ UnderWay' = Tail(UnderWay)
      \/ \E b \in Bitmap : UnderWay' = Append(UnderWay, b) ]_vars

\* Every request is answered, unless the program ends.
RequestsAnswered ==
  \A b \in Bitmap : (b \in loading \ stuck) ~> (b \notin loading \/ terminated)

\* And then the thread ends, for which the main thread waits, if the queue of
\* SDL has a place: no one takes events from it any more, and who posts tries
\* for ever (NativeEventQueue.cpp:98-106).
ThreadEnds == terminated ~> (at = "gone" \/ native = MaxNative)
=============================================================================
