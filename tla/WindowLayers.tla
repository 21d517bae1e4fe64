---------------------------- MODULE WindowLayers ----------------------------
(***************************************************************************)
(* The windows of the SDL2 build: the list of TVPWindowLayer and the       *)
(* current one (SDLApplication.cpp), the window objects of the script that *)
(* own them (WindowImpl.cpp), and the three ways to close one: by the      *)
(* user, by the method close, by invalidation.  A modal loop and the query *)
(* of close run the event loop inside a method, so the script goes on      *)
(* while they wait: they are frames of the call stack.                     *)
(*                                                                         *)
(* A method that meets a NULL TJSNativeInstance ends the process: a step   *)
(* that is not taken.  Events for a window that has not drawn are dropped, *)
(* and so are calls of close while TVPGetBreathing: steps without effect.  *)
(* The script stops calling once the application terminates.               *)
(***************************************************************************)
EXTENDS Naturals, Sequences, FiniteSets, FiniteSetsExt, SequencesExt

CONSTANTS
  Window,       \* every window the script may create, each once
  None,
  MaxFrames,    \* bound on the call stack
  Orderly       \* the script leaves a window alone that waits in a method, and does not make the main window modal

VARIABLES
  list,         \* _lastWindowLayer and the links from it, the first window first
  current,      \* _currentWindowLayer
  open,         \* windows with their object: Form and TJSNativeInstance are set
  shown,        \* SDL_WINDOW_SHOWN
  deleting,     \* isBeingDeleted
  inMode,       \* in_mode_
  result,       \* modal_result_: "none", "cancel" or "accepted" (1)
  closing,      \* ProgramClosing
  canClose,     \* CanCloseWork
  clicked,      \* windows with a tTVPOnCloseInputEvent in the queue
  main,         \* TVPMainWindow
  terminated,   \* Application->IsTarminate
  frames,       \* methods that wait: <<"modal", w>>, <<"query", w>>
  fresh         \* windows not created yet

layerVars == <<list, current, shown, deleting>>
modeVars  == <<inMode, result, closing, canClose>>
appVars   == <<open, clicked, main, terminated>>
vars == <<layerVars, modeVars, appVars, frames, fresh>>

TypeOK ==
  /\ list \in Seq(Window) /\ IsInjective(list)
  /\ current \in ToSet(list) \cup {None} /\ main \in open \cup {None}
  /\ open \subseteq ToSet(list) /\ deleting \subseteq ToSet(list)
  /\ ToSet(list) \subseteq Window \ fresh
  /\ result \in [Window -> {"none", "cancel", "accepted"}]
  /\ canClose \in [Window -> BOOLEAN] /\ terminated \in BOOLEAN
  /\ frames \in Seq({"modal", "query"} \X Window) /\ Len(frames) <= MaxFrames

Init ==
  /\ list = <<>> /\ current = None /\ shown = {} /\ deleting = {}
  /\ inMode = {} /\ result = [w \in Window |-> "none"] /\ closing = {}
  /\ canClose = [w \in Window |-> FALSE]
  /\ open = {} /\ clicked = {} /\ main = None /\ terminated = FALSE
  /\ frames = <<>> /\ fresh = Window

-----------------------------------------------------------------------------
Waiting(w) == \E i \in DOMAIN frames : frames[i][2] = w
MayTouch(w) == w \in open /\ ~terminated /\ (Orderly => ~Waiting(w))

Place(w) == CHOOSE i \in DOMAIN list : list[i] = w

\* SetVisible(false): the window before it, or else after it, is next.
Beside(w) ==
  IF Place(w) > 1 THEN list[Place(w) - 1]
  ELSE IF Place(w) < Len(list) THEN list[Place(w) + 1] ELSE None
Hidden(w) == IF current = w THEN Beside(w) ELSE current

Without(w) == RemoveAt(list, Place(w))

\* Fault: a window that goes leaves the current one as it is.
AfterDeleteStale(w, cur) == cur

\* The destructor: the last window is next.
AfterDelete(w, cur) ==
  IF cur # w THEN cur ELSE IF Without(w) = <<>> THEN None ELSE Last(Without(w))

\* BringToFront tells the current window that it loses the capture.
CanRaise(w) == current \in {w, None} \cup open

\* Fault: the application ends with its last window.
EndsWithLast(w) == open = {w}
EndsApplication(w) == main = w

\* Fault: the input events of a window outlive it.
EventsKept(w) == clicked
EventsWithout(w) == clicked \ {w}

\* tTJSNI_BaseWindow::Invalidate: the end of the main window is the end of
\* the application, and the events of a window are cancelled.
Released(w) ==
  /\ open' = open \ {w} /\ clicked' = EventsWithout(w)
  /\ main' = IF main = w THEN None ELSE main
  /\ terminated' = (terminated \/ EndsApplication(w))

\* InvalidateClose: the window is hidden, then deleted.
Deleted(w) ==
  /\ list' = Without(w) /\ current' = AfterDelete(w, Hidden(w))
  /\ shown' = shown \ {w} /\ deleting' = deleting \ {w}

-----------------------------------------------------------------------------
Construct(w) ==
  /\ w \in fresh /\ ~terminated /\ fresh' = fresh \ {w}
  /\ list' = Append(list, w)
  /\ current' = IF current = None THEN w ELSE current
  /\ shown' = shown \cup {w}
  /\ open' = open \cup {w}
  /\ main' = IF main = None /\ open = {} THEN w ELSE main
  /\ UNCHANGED <<deleting, modeVars, clicked, terminated, frames>>

Show(w) ==
  /\ MayTouch(w) /\ CanRaise(w)
  /\ shown' = shown \cup {w} /\ current' = w
  /\ UNCHANGED <<list, deleting, modeVars, appVars, frames, fresh>>

Hide(w) ==
  /\ MayTouch(w)
  /\ shown' = shown \ {w} /\ current' = Hidden(w)
  /\ UNCHANGED <<list, deleting, modeVars, appVars, frames, fresh>>

BringToFront(w) ==
  /\ MayTouch(w) /\ CanRaise(w) /\ current' = w
  /\ UNCHANGED <<list, shown, deleting, modeVars, appVars, frames, fresh>>

\* ShowModal: TVPClearAllWindowInputEvents, then the loop.
ShowModal(w) ==
  /\ MayTouch(w) /\ CanRaise(w) /\ Len(frames) < MaxFrames
  /\ Orderly => w # main
  /\ clicked' = {}
  /\ inMode' = inMode \cup {w} /\ result' = [result EXCEPT ![w] = "none"]
  /\ current' = w
  /\ frames' = Append(frames, <<"modal", w>>)
  /\ UNCHANGED <<list, shown, deleting, closing, canClose, open, main, terminated, fresh>>

\* Fault: the loop does not look whether the application terminates.
GoesOn(w) == w # current \/ result[w] # "none"
LoopEnds(w) == w # current \/ result[w] # "none" \/ terminated

\* The loop of ShowWindowAsModal ends.
ModalEnds ==
  /\ frames # <<>> /\ Last(frames)[1] = "modal"
  /\ LET w == Last(frames)[2]
     IN /\ LoopEnds(w)
        /\ result' = IF terminated THEN [result EXCEPT ![w] = "cancel"] ELSE result
        /\ inMode' = inMode \ {w}
  /\ frames' = Front(frames)
  /\ UNCHANGED <<layerVars, closing, canClose, appVars, fresh>>

\* Close, of a modal window.
CloseModal(w) ==
  /\ w \in open /\ ~terminated /\ w \in inMode
  /\ result' = [result EXCEPT ![w] = "cancel"]
  /\ closing' = closing \ {w}
  /\ UNCHANGED <<layerVars, inMode, canClose, appVars, frames, fresh>>

\* Close asks the script at once: the handler answers b, and the rest of
\* the events follow.
CloseAsks(w, b) ==
  /\ MayTouch(w) /\ w \notin inMode /\ result[w] # "accepted" /\ Len(frames) < MaxFrames
  /\ closing' = closing \cup {w}
  /\ canClose' = [canClose EXCEPT ![w] = b]
  /\ frames' = Append(frames, <<"query", w>>)
  /\ UNCHANGED <<layerVars, inMode, result, appVars, fresh>>

\* Fault: the main window is freed, and others are kept.
MarksMain(w) == w = main
MarksDeleted(w) == w # main

\* OnClose, called by Close: the object is invalidated.  Only a window that
\* is not the main window goes itself, with the next event that reaches it.
ObjectCloses(w) ==
  /\ Released(w)
  /\ shown' = shown \ {w} /\ current' = Hidden(w)
  /\ deleting' = IF MarksDeleted(w) THEN deleting \cup {w} ELSE deleting
  /\ UNCHANGED list

\* A window that was accepted as modal once is not asked again.
CloseUnasked(w) ==
  /\ MayTouch(w) /\ w \notin inMode /\ result[w] = "accepted"
  /\ ObjectCloses(w)
  /\ closing' = closing \ {w}
  /\ UNCHANGED <<inMode, result, canClose, frames, fresh>>

\* Close goes on after OnCloseQuery.  A nested call of Close for the same
\* window has reset ProgramClosing: then OnClose does nothing but hide.
QueryEnds ==
  /\ frames # <<>> /\ Last(frames)[1] = "query"
  /\ LET w == Last(frames)[2]
     IN \/ canClose[w] /\ w \in closing /\ w \in open /\ ObjectCloses(w) /\ closing' = closing \ {w}
        \/ /\ ~(canClose[w] /\ w \in closing /\ w \in open)
           /\ closing' = closing \ {w}
           /\ IF canClose[w] /\ result[w] # "none"
              THEN shown' = shown \ {w} /\ current' = Hidden(w)
              ELSE UNCHANGED <<shown, current>>
           /\ UNCHANGED <<list, deleting, appVars>>
  /\ frames' = Front(frames)
  /\ UNCHANGED <<inMode, result, canClose, fresh>>

Invalidate(w) ==
  /\ MayTouch(w)
  /\ Released(w) /\ Deleted(w)
  /\ UNCHANGED <<modeVars, frames, fresh>>

-----------------------------------------------------------------------------
\* Fault: a modal window passes events of others on.
KeepsNone(w) == w \in deleting
Keeps(w) == w \in deleting \cup inMode

\* window_receive_event: an event of another window goes to the windows
\* before the current one, down to a modal window, a window being deleted,
\* or the first.
Receiver(target) ==
  list[Max({i \in 1 .. Place(current) : i = 1 \/ list[i] = target \/ Keeps(list[i])})]
Dropped(target) == Receiver(target) \in inMode \ {target} /\ Receiver(target) # list[1]

\* An event of SDL: of the user's closing button, or any other.
Event(target, closes) ==
  /\ current # None /\ ~terminated
  /\ LET w == Receiver(target)
     IN \/ /\ w \in deleting
           /\ list' = Without(w) /\ current' = AfterDelete(w, current)
           /\ deleting' = deleting \ {w}
           /\ UNCHANGED <<shown, clicked>>
        \/ /\ w \in open /\ ~Dropped(target)
           /\ clicked' = IF closes /\ w \in shown THEN clicked \cup {w} ELSE clicked
           /\ UNCHANGED layerVars
  /\ UNCHANGED <<modeVars, open, main, terminated, frames, fresh>>

\* SDL_QUIT belongs to no window: the current one is asked, or it is the end.
Quit ==
  \/ Event(current, TRUE)
  \/ /\ current = None /\ terminated' = TRUE
     /\ UNCHANGED <<layerVars, modeVars, open, clicked, main, frames, fresh>>

\* Fault: every window the user closes is invalidated.
GoesForGood(w) == TRUE
InvalidatedByUser(w) == w = main

\* The input event of the button is delivered, and the handler of
\* onCloseQuery answers b to OnCloseQueryCalled.
UserCloses(w, b) ==
  /\ w \in clicked /\ ~terminated
  /\ IF w \notin shown \/ (w \notin closing /\ ~b)
     THEN clicked' = clicked \ {w} /\ UNCHANGED <<layerVars, result, canClose, open, main, terminated>>
     ELSE IF w \in closing
     THEN /\ canClose' = [canClose EXCEPT ![w] = b]
          /\ clicked' = clicked \ {w} /\ UNCHANGED <<layerVars, result, open, main, terminated>>
     ELSE /\ result' = IF w \in inMode THEN [result EXCEPT ![w] = "accepted"] ELSE result
          /\ IF InvalidatedByUser(w) THEN Released(w) /\ Deleted(w)
             ELSE /\ clicked' = clicked \ {w}
                  /\ IF w \in inMode THEN UNCHANGED layerVars
                     ELSE shown' = shown \ {w} /\ current' = Hidden(w) /\ UNCHANGED <<list, deleting>>
                  /\ UNCHANGED <<open, main, terminated>>
          /\ UNCHANGED canClose
  /\ UNCHANGED <<inMode, closing, frames, fresh>>

Next ==
  \/ ModalEnds \/ QueryEnds \/ Quit
  \/ \E w \in Window :
       \/ Construct(w) \/ Show(w) \/ Hide(w) \/ BringToFront(w) \/ ShowModal(w)
       \/ CloseModal(w) \/ CloseUnasked(w) \/ Invalidate(w)
       \/ \E b \in BOOLEAN : CloseAsks(w, b) \/ UserCloses(w, b)
       \/ \E c \in BOOLEAN : w \in ToSet(list) /\ Event(w, c)

\* A method whose loop has to end does end: it polls.
Spec == Init /\ [][Next]_vars /\ WF_vars(ModalEnds) /\ WF_vars(QueryEnds)
=============================================================================
