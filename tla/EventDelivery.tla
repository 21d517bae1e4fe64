--------------------------- MODULE EventDelivery ----------------------------
(***************************************************************************)
(* The delivery of events: TVPDeliverAllEvents (EventIntf.cpp), called by  *)
(* the main loop, and by a modal loop while a handler runs, so that passes *)
(* nest.  The C++ call stack is the variable stack: one frame per pass,    *)
(* per TVPDeliverWindowUpdateEvents called by Window.update, and per event *)
(* delivered immediately.  A frame says which loop of the pass is running  *)
(* and whether a handler (a script function or a redraw) is in a call.  A  *)
(* window that is being invalidated has a frame too: the finalizers of the *)
(* objects it owns are script code.                                        *)
(*                                                                         *)
(* Script code runs when the stack is empty (native events, timers) or the *)
(* top frame is in a handler; it may use every operation of the queues.    *)
(* A handler that throws: the exception is taken by the catch of the loop  *)
(* and, when System.exceptionHandler handles it, the engine goes on.  (If  *)
(* it does not, the process exits, which is a behaviour that stops.)       *)
(***************************************************************************)
EXTENDS EventQueue, WindowUpdate, ContinuousEvents

CONSTANTS
  MaxDepth,           \* bound on the call stack: 1 forbids nesting
  MaxSeq,             \* bound on the sequence number
  UninitialisedR,     \* what the uninitialised r of TVPDeliverAllEvents may
                      \* read as after an exception: {TRUE} when the compiler
                      \* folds r, BOOLEAN when it reads the stack
  HandlerPostsInput   \* may handlers post input events?

ASSUME DeliveryAssumption ==
  /\ MaxDepth \in Nat
  /\ MaxSeq \in Nat
  /\ UninitialisedR \in SUBSET BOOLEAN
  /\ UninitialisedR # {}
  /\ HandlerPostsInput \in BOOLEAN

VARIABLE stack

vars == <<queueVars, objVars, winVars, contVars, stack>>

ScriptPhases == {"exclusive", "normal", "idle"}
Phases == ScriptPhases \cup
  {"input", "tail", "interrupt", "continuous", "hooks", "closures",
   "window", "windows", "finish", "update", "immediate", "finalizers"}

Frame == [phase : Phases, running : BOOLEAN, idx : Nat, empties : BOOLEAN,
          win : Windows \cup {None}]

FrameOf(p, run, i, e, w) ==
  [phase |-> p, running |-> run, idx |-> i, empties |-> e, win |-> w]

\* The engine at the start of phase p; a handler called at once.
NewFrame(p)     == FrameOf(p, FALSE, 1, FALSE, None)
CallFrame(p, w) == FrameOf(p, TRUE, 1, FALSE, w)

TypeOK ==
  /\ QueueTypeOK
  /\ WindowTypeOK
  /\ ContinuousTypeOK
  /\ stack \in Seq(Frame)

Init ==
  /\ QueueInit
  /\ WindowInit
  /\ ContinuousInit
  /\ stack = <<>>

-----------------------------------------------------------------------------
Depth == Len(stack)
Top   == stack[Depth]

\* The engine's own code is at phase p of the top frame, or a handler called
\* from there is running.
At(p)       == Depth > 0 /\ Top.phase = p /\ ~Top.running
InHandler(p) == Depth > 0 /\ Top.phase = p /\ Top.running

ScriptRuns == Depth = 0 \/ (Depth > 0 /\ Top.running)

Push(f)   == stack' = Append(stack, f)
Pop       == stack' = [i \in 1 .. Depth - 1 |-> stack[i]]
SetTop(f) == stack' = [stack EXCEPT ![Depth] = f]
Goto(p)   == SetTop(NewFrame(p))

\* The loop of the top frame: it calls, its handler returned, the next cell.
Loop(run, i, e) == SetTop(FrameOf(Top.phase, run, i, e, Top.win))
Call     == Loop(TRUE, Top.idx, Top.empties)
Return   == Loop(FALSE, Top.idx, Top.empties)
NextCell == Loop(FALSE, Top.idx + 1, Top.empties)
SkipCell == Loop(FALSE, Top.idx + 1, TRUE)

-----------------------------------------------------------------------------
(* Script code: the operations of the queues.                              *)

ScriptPosts ==
  /\ \/ \E s \in alive \ Triggers, n \in Names, p \in Prios, disc \in BOOLEAN :
       \E N \in {R \in SUBSET Names : R = {} \/ n \in R} :
          PostEvent(s, n, p, disc, N) /\ UNCHANGED objVars
     \/ \E t \in Triggers, n \in Names : Trigger(t, n)
  /\ UNCHANGED <<winVars, contVars, stack>>

ScriptCancels ==
  /\ \/ \E s \in alive \ Triggers, N \in SUBSET Names :
          CancelEvents(s, N) /\ UNCHANGED objVars
     \/ \E t \in Triggers : CancelTrigger(t)
     \/ \E t \in Triggers, b \in BOOLEAN : SetCached(t, b)
     \/ \E t \in Triggers, m \in Prios : SetMode(t, m)
     \/ \E o \in Objects \ Windows : InvalidateObject(o)
  /\ UNCHANGED <<winVars, contVars, stack>>

ScriptInput ==
  /\ \/ /\ Depth = 0 \/ HandlerPostsInput
        /\ \E w \in Windows \cap alive, tag \in InputTags, repl \in BOOLEAN :
             PostInputEvent(w, tag, repl)
     \/ \E w \in Windows \cap alive, T \in SUBSET InputTags : CancelInputEvents(w, T)
  /\ UNCHANGED <<objVars, winVars, contVars, stack>>

ScriptRequestsUpdate ==
  /\ \E w \in Windows \cap alive : PostWindowUpdate(w)
  /\ UNCHANGED <<queueVars, objVars, contVars, stack>>

\* tTJSNI_BaseWindow::Invalidate, to the invalidation of the objects the
\* window owns.  TJS does not re-enter the invalidation of an object.
InvalidateWindow ==
  /\ Depth < MaxDepth
  /\ \E w \in Windows \cap alive :
       /\ \A d \in DOMAIN stack : stack[d].win # w
       /\ CancelAllOf(w)
       /\ RemoveWindowUpdate(w)
       /\ Push(CallFrame("finalizers", w))
  /\ UNCHANGED <<objVars, contVars>>

ScriptContinuous ==
  /\ \/ \E h \in Hooks : AddHook(h) \/ RemoveHook(h)
     \/ \E c \in Closures : AddClosure(c) \/ RemoveClosure(c)
  /\ UNCHANGED <<queueVars, objVars, winVars, stack>>

\* TVPPostEvent with TVP_EPT_IMMEDIATE: a call, whose exceptions stay inside.
PostImmediate ==
  /\ Depth < MaxDepth
  /\ Push(CallFrame("immediate", None))
  /\ UNCHANGED <<queueVars, objVars, winVars, contVars>>

\* TVPWindowLayer::UpdateWindow: exposure may post an update; the delivery of
\* updates starts unless it is in progress.
UpdateWindow ==
  /\ Depth < MaxDepth
  /\ \E w \in Windows \cap alive : winUpdateQueue' \in {winUpdateQueue, Requested(w)}
  /\ winDelivering' = TRUE
  /\ IF winDelivering THEN UNCHANGED stack ELSE Push(NewFrame("update"))
  /\ UNCHANGED <<queueVars, objVars, contVars>>

\* Fault: the pass keeps the sequence number of the events it delivers.
BeginPassSameNumber ==
  /\ Depth < MaxDepth
  /\ seqToProcess' = IF eventInterrupting THEN seqToProcess ELSE seqNumber
  /\ eventInterrupting' = FALSE
  /\ exclusiveEventPosted' = FALSE
  /\ contFlag' = (contFlag \/ contCalling)
  /\ Push(NewFrame("exclusive"))
  /\ UNCHANGED <<eventQueue, inputQueue, seqNumber, objVars, winVars,
                 hooks, closures, contProcessing, contCalling>>

\* Fault: the pass takes the number before the current one.
BeginPassOneBehind ==
  /\ Depth < MaxDepth
  /\ seqNumber < MaxSeq
  /\ seqToProcess' = seqNumber - 1
  /\ seqNumber' = seqNumber + 1
  /\ eventInterrupting' = FALSE
  /\ exclusiveEventPosted' = FALSE
  /\ contFlag' = (contFlag \/ contCalling)
  /\ Push(NewFrame("exclusive"))
  /\ UNCHANGED <<eventQueue, inputQueue, objVars, winVars,
                 hooks, closures, contProcessing, contCalling>>

\* Fault: the flag of exclusive events outlives the pass it ended.
BeginPassKeepsExclusive ==
  /\ Depth < MaxDepth
  /\ ~eventInterrupting /\ seqNumber < MaxSeq
  /\ seqToProcess' = seqNumber
  /\ seqNumber' = seqNumber + 1
  /\ contFlag' = (contFlag \/ contCalling)
  /\ Push(NewFrame("exclusive"))
  /\ UNCHANGED <<eventQueue, inputQueue, exclusiveEventPosted, eventInterrupting, objVars,
                 winVars, hooks, closures, contProcessing, contCalling>>

\* tTVPSystemControl::DeliverEvents and the first lines of TVPDeliverAllEvents,
\* _TVPDeliverAllEvents and _TVPDeliverAllEvents2.  With scripts running it is
\* the modal loop (or OnCloseQuery) that calls, with none the main loop.
BeginPass ==
  /\ Depth < MaxDepth
  /\ IF eventInterrupting
     THEN UNCHANGED <<seqNumber, seqToProcess>>
     ELSE /\ seqNumber < MaxSeq
          /\ seqToProcess' = seqNumber
          /\ seqNumber' = seqNumber + 1
  /\ eventInterrupting' = FALSE
  /\ exclusiveEventPosted' = FALSE
  /\ contFlag' = (contFlag \/ contCalling)
  /\ Push(NewFrame("exclusive"))
  /\ UNCHANGED <<eventQueue, inputQueue, objVars, winVars,
                 hooks, closures, contProcessing, contCalling>>

Script ==
  /\ ScriptRuns
  /\ \/ ScriptPosts
     \/ ScriptCancels
     \/ ScriptInput
     \/ ScriptRequestsUpdate
     \/ InvalidateWindow
     \/ ScriptContinuous
     \/ PostImmediate
     \/ UpdateWindow
     \/ BeginPass

-----------------------------------------------------------------------------
(* The loops over the script event queue: _TVPDeliverEventByPrio.          *)

\* Fault: events posted during the pass are delivered by it.
DeliverableAny(p) == {i \in DOMAIN eventQueue : eventQueue[i].prio = p}

\* The positions of the events a loop of priority p may deliver.
Deliverable(p) ==
  {i \in DOMAIN eventQueue :
     eventQueue[i].prio = p /\ eventQueue[i].seq <= seqToProcess}

\* Fault: the queue is searched from its end.
DeliverLastEvent(p) ==
  /\ At(p)
  /\ \E i \in Deliverable(p) :
       /\ \A j \in Deliverable(p) : i >= j
       /\ eventQueue' = RemoveAt(eventQueue, i)
       /\ IF eventQueue[i].src \in alive THEN Call ELSE Return
  /\ UNCHANGED <<inputQueue, exclusiveEventPosted, seqVars, objVars, winVars, contVars>>

\* The first of them is erased, then delivered unless its target is invalid.
DeliverEvent(p) ==
  /\ At(p)
  /\ \E i \in Deliverable(p) :
       /\ \A j \in Deliverable(p) : i <= j
       /\ eventQueue' = RemoveAt(eventQueue, i)
       /\ IF eventQueue[i].src \in alive THEN Call ELSE Return
  /\ UNCHANGED <<inputQueue, exclusiveEventPosted, seqVars, objVars, winVars, contVars>>

\* Where a pass goes when the loop of priority p finds nothing more.
AfterLoop(p) ==
  CASE p = "exclusive" -> IF exclusiveEventPosted THEN "tail" ELSE "input"
    [] p = "normal"    -> "tail"
    [] p = "idle"      -> "continuous"

EndLoop(p) ==
  /\ At(p)
  /\ Deliverable(p) = {}
  /\ Goto(AfterLoop(p))
  /\ UNCHANGED <<queueVars, objVars, winVars, contVars>>

DeliverInput ==
  /\ At("input")
  /\ inputQueue # <<>>
  /\ inputQueue' = Tail(inputQueue)
  /\ Call
  /\ UNCHANGED <<eventQueue, exclusiveEventPosted, seqVars, objVars, winVars, contVars>>

EndInput ==
  /\ At("input")
  /\ inputQueue = <<>>
  /\ Goto("normal")
  /\ UNCHANGED <<queueVars, objVars, winVars, contVars>>

\* After _TVPDeliverAllEvents: r is true ("tail"), or was left uninitialised
\* by an exception and read as false ("interrupt").
AfterScriptPass ==
  /\ At("tail") \/ At("interrupt")
  /\ eventInterrupting' = (eventInterrupting \/ Top.phase = "interrupt")
  /\ Goto(IF exclusiveEventPosted \/ eventInterrupting' THEN "finish" ELSE "idle")
  /\ UNCHANGED <<eventQueue, inputQueue, exclusiveEventPosted, seqNumber, seqToProcess,
                 objVars, winVars, contVars>>

EndPassAlwaysResets ==  \* Fault: the number is reset with events queued.
  /\ At("finish")
  /\ seqNumber' = 0
  /\ Pop
  /\ UNCHANGED <<eventQueue, inputQueue, exclusiveEventPosted, seqToProcess,
                 eventInterrupting, objVars, winVars, contVars>>

EndPass ==
  /\ At("finish")
  /\ seqNumber' = IF eventQueue = <<>> THEN 0 ELSE seqNumber
  /\ Pop
  /\ UNCHANGED <<eventQueue, inputQueue, exclusiveEventPosted, seqToProcess,
                 eventInterrupting, objVars, winVars, contVars>>

-----------------------------------------------------------------------------
(* Continuous events: TVPDeliverContinuousEvent.                           *)

BeginContinuous ==
  /\ At("continuous")
  /\ contFlag' = FALSE
  /\ contProcessing' = (contProcessing \/ contFlag)
  /\ Goto(IF contFlag /\ ~contProcessing THEN "hooks" ELSE "window")
  /\ UNCHANGED <<queueVars, objVars, winVars, hooks, closures, contCalling>>

CallHook ==
  /\ At("hooks")
  /\ Top.idx <= Len(hooks)
  /\ hooks[Top.idx] # None
  /\ Call
  /\ UNCHANGED <<queueVars, objVars, winVars, contVars>>

\* An empty cell is remembered; an exclusive event ends the delivery.
SkipHook ==
  /\ At("hooks")
  /\ Top.idx <= Len(hooks)
  /\ hooks[Top.idx] = None
  /\ IF exclusiveEventPosted
     THEN Goto("window") /\ contProcessing' = FALSE
     ELSE SkipCell /\ UNCHANGED contProcessing
  /\ UNCHANGED <<queueVars, objVars, winVars, hooks, closures, contFlag, contCalling>>

EndHooks ==
  /\ At("hooks")
  /\ Top.idx > Len(hooks)
  /\ hooks' \in Erased(hooks, IF Top.empties THEN CellsIn(hooks, None) ELSE {})
  /\ Goto("closures")
  /\ UNCHANGED <<queueVars, objVars, winVars, closures, contProcessing, contFlag, contCalling>>

CallClosure ==
  /\ At("closures")
  /\ Top.idx <= Len(closures)
  /\ closures[Top.idx] # None
  /\ Call
  /\ UNCHANGED <<queueVars, objVars, winVars, contVars>>

SkipClosureUnseen ==  \* Fault: the empty cell is not remembered.
  /\ At("closures")
  /\ Top.idx <= Len(closures)
  /\ closures[Top.idx] = None
  /\ NextCell
  /\ UNCHANGED <<queueVars, objVars, winVars, contVars>>

SkipClosure ==
  /\ At("closures")
  /\ Top.idx <= Len(closures)
  /\ closures[Top.idx] = None
  /\ SkipCell
  /\ UNCHANGED <<queueVars, objVars, winVars, contVars>>

\* Fault: the hooks are not looked at.
EndClosuresAlone ==
  /\ At("closures")
  /\ Top.idx > Len(closures)
  /\ closures' \in Erased(closures, IF Top.empties THEN CellsIn(closures, None) ELSE {})
  /\ contCalling' = (contCalling /\ closures' # <<>>)
  /\ contProcessing' = FALSE
  /\ Goto("window")
  /\ UNCHANGED <<queueVars, objVars, winVars, hooks, contFlag>>

\* The end of _TVPDeliverContinuousEvent: TVPEndContinuousEvent when nothing
\* is registered any more.
EndClosures ==
  /\ At("closures")
  /\ Top.idx > Len(closures)
  /\ closures' \in Erased(closures, IF Top.empties THEN CellsIn(closures, None) ELSE {})
  /\ contCalling' = (contCalling /\ (hooks # <<>> \/ closures' # <<>>))
  /\ contProcessing' = FALSE
  /\ Goto("window")
  /\ UNCHANGED <<queueVars, objVars, winVars, hooks, contFlag>>

-----------------------------------------------------------------------------
(* Window updates: TVPDeliverWindowUpdateEvents, in a pass ("windows") or   *)
(* on its own ("update").                                                   *)

BeginWindowsReentrant ==  \* Fault: re-entered.
  /\ At("window")
  /\ Goto("windows")
  /\ winDelivering' = TRUE
  /\ UNCHANGED winUpdateQueue
  /\ UNCHANGED <<queueVars, objVars, contVars>>

BeginWindows ==
  /\ At("window")
  /\ IF winDelivering
     THEN Goto("finish") /\ UNCHANGED winVars
     ELSE Goto("windows") /\ StartWindowUpdates
  /\ UNCHANGED <<queueVars, objVars, contVars>>

UpdateContent(p) ==
  /\ At(p)
  /\ Top.idx <= Len(winUpdateQueue)
  /\ IF winUpdateQueue[Top.idx] = None THEN NextCell ELSE Call
  /\ UNCHANGED <<queueVars, objVars, winVars, contVars>>

EndWindows(p) ==
  /\ At(p)
  /\ Top.idx > Len(winUpdateQueue)
  /\ EndWindowUpdates
  /\ IF p = "windows" THEN Goto("finish") ELSE Pop
  /\ UNCHANGED <<queueVars, objVars, contVars>>
-----------------------------------------------------------------------------
(* The end of a handler.                                                   *)

\* A script event handler, a redraw, an immediate event return.
ReturnPlain ==
  /\ Depth > 0 /\ Top.running
  /\ \/ /\ Top.phase \in ScriptPhases
        /\ Return
     \/ /\ Top.phase \in {"windows", "update"}
        /\ NextCell
     \/ /\ Top.phase = "immediate"
        /\ Pop
  /\ UNCHANGED <<queueVars, objVars, winVars, contVars>>

\* Fault: no check for an exclusive event.
ReturnInputUnchecked ==
  /\ InHandler("input")
  /\ Return
  /\ UNCHANGED <<queueVars, objVars, winVars, contVars>>

\* After an input event the pass checks for an exclusive event.
ReturnInput ==
  /\ InHandler("input")
  /\ IF exclusiveEventPosted THEN Goto("tail") ELSE Return
  /\ UNCHANGED <<queueVars, objVars, winVars, contVars>>

\* After a continuous callback too; a closure may return an error, which
\* unregisters it.
ReturnContinuous ==
  /\ InHandler("hooks") \/ InHandler("closures")
  /\ \E failed \in IF Top.phase = "closures" THEN BOOLEAN ELSE {FALSE} :
       /\ IF failed THEN DropClosure(Top.idx) ELSE UNCHANGED closures
       /\ IF exclusiveEventPosted
          THEN Goto("window") /\ contProcessing' = FALSE
          ELSE /\ Loop(FALSE, Top.idx + 1, Top.empties \/ failed)
               /\ UNCHANGED contProcessing
  /\ UNCHANGED <<queueVars, objVars, winVars, hooks, contFlag, contCalling>>

\* An exception in the script pass leaves it: r stays uninitialised.
ThrowInScriptPass ==
  /\ InHandler("exclusive") \/ InHandler("input") \/ InHandler("normal")
  /\ \E r \in UninitialisedR : Goto(IF r THEN "tail" ELSE "interrupt")
  /\ UNCHANGED <<queueVars, objVars, winVars, contVars>>

ThrowIdle ==
  /\ InHandler("idle")
  /\ Goto("continuous")
  /\ UNCHANGED <<queueVars, objVars, winVars, contVars>>

\* A closure that throws is unregistered.
ThrowContinuous ==
  /\ InHandler("hooks") \/ InHandler("closures")
  /\ IF Top.phase = "closures" THEN DropClosure(Top.idx) ELSE UNCHANGED closures
  /\ contProcessing' = FALSE
  /\ Goto("window")
  /\ UNCHANGED <<queueVars, objVars, winVars, hooks, contFlag, contCalling>>

ThrowWindowsGuarded ==  \* Fault: the guard flag stays set.
  /\ InHandler("windows") \/ InHandler("update")
  /\ winUpdateQueue' = <<>>
  /\ UNCHANGED winDelivering
  /\ IF Top.phase = "windows" THEN Goto("finish") ELSE Pop
  /\ UNCHANGED <<queueVars, objVars, contVars>>

ThrowWindows ==
  /\ InHandler("windows") \/ InHandler("update")
  /\ EndWindowUpdates
  /\ IF Top.phase = "windows" THEN Goto("finish") ELSE Pop
  /\ UNCHANGED <<queueVars, objVars, contVars>>

\* The rest of the invalidation of a window, of tTJSNI_BaseWindow and of
\* tTJSNI_Window: the same again, for what the finalizers left behind.
EndInvalidateOnce ==  \* Fault: not again.
  /\ InHandler("finalizers")
  /\ alive' = alive \ {Top.win}
  /\ Pop
  /\ UNCHANGED <<queueVars, winVars, cached, mode, contVars>>

EndInvalidateWindow ==
  /\ InHandler("finalizers")
  /\ CancelAllOf(Top.win)
  /\ RemoveWindowUpdate(Top.win)
  /\ alive' = alive \ {Top.win}
  /\ Pop
  /\ UNCHANGED <<cached, mode, contVars>>

-----------------------------------------------------------------------------
HandlerEnds ==
  ReturnPlain \/ ReturnInput \/ ReturnContinuous
    \/ ThrowInScriptPass \/ ThrowIdle \/ ThrowContinuous \/ ThrowWindows
    \/ EndInvalidateWindow

Engine ==
  \/ \E p \in ScriptPhases : DeliverEvent(p) \/ EndLoop(p)
  \/ DeliverInput \/ EndInput \/ AfterScriptPass \/ EndPass
  \/ BeginContinuous \/ CallHook \/ SkipHook \/ EndHooks
  \/ CallClosure \/ SkipClosure \/ EndClosures
  \/ BeginWindows
  \/ \E p \in {"windows", "update"} : UpdateContent(p) \/ EndWindows(p)

Next == Script \/ Engine \/ HandlerEnds

Spec == Init /\ [][Next]_vars

\* The engine's thread runs on, and a handler ends: by returning or throwing.
FairSpec == Spec /\ WF_vars(Engine) /\ WF_vars(HandlerEnds)

\* And the main loop comes back to ApplicationIdle, as it does while
\* ContinuousEventCalling is set: it does not block in SDL_WaitEvent then
\* (Application::Run).  Strong fairness, because native events run scripts
\* between two passes.
LoopingSpec == FairSpec /\ SF_vars(contCalling /\ Depth = 0 /\ BeginPass)
=============================================================================
