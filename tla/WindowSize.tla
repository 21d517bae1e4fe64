----------------------------- MODULE WindowSize -----------------------------
(***************************************************************************)
(* Where the picture of the layers is in an SDL window with a renderer:    *)
(* TVPWindowLayer fits the inner size into the output of the renderer, and *)
(* positions of the mouse are converted through the rectangle it found.    *)
(* The output follows the size of the window, which the script, the user   *)
(* and full-screen mode change; SDL tells of it by an event that the event *)
(* loop sees later.  Aspects are compared exactly, the code allows 0.0001. *)
(***************************************************************************)
EXTENDS Integers, FiniteSetsExt

CONSTANTS
  Inner,        \* inner sizes the script sets, pairs of width and height
  WindowSizes,  \* sizes the script or the user give the window
  Desktop       \* the size of the desktop

VARIABLES
  inner,        \* InnerWidth, InnerHeight
  windowed,     \* the size of the window outside full-screen mode
  full,         \* SDL_WINDOW_FULLSCREEN_DESKTOP
  news,         \* the last event of SDL about the size: "queued", "seen" or "dropped"
  layer,        \* the window has a primary layer, and SetPaintBoxSize was called
  dest,         \* LastSentDrawDeviceDestRect
  needs,        \* needs_graphic_update
  shown         \* where the picture is on the screen: dest when it was presented

vars == <<inner, windowed, full, news, layer, dest, needs, shown>>

Output == IF full THEN Desktop ELSE windowed
Rects == [x : Int, y : Int, w : Nat, h : Nat]
Unset == [x |-> 0, y |-> 0, w |-> 0, h |-> 0]

TypeOK ==
  /\ inner \in Inner \cup {<<2, 2>>} /\ windowed \in WindowSizes \cup Inner
  /\ {full, layer, needs} \subseteq BOOLEAN
  /\ news \in {"queued", "seen", "dropped"}
  /\ dest \in Rects /\ shown \in Rects

\* The rectangle is not initialised, the inner size is a small square.
Init ==
  /\ inner = <<2, 2>> /\ windowed \in WindowSizes /\ full = FALSE /\ news = "seen"
  /\ layer = FALSE /\ dest = Unset /\ needs = FALSE /\ shown = Unset

-----------------------------------------------------------------------------
MulDiv(n, numer, denom) ==
  IF n < 0 THEN -(((-n) * numer) \div denom) ELSE (n * numer) \div denom

\* TVPDoReductionNumerAndDenom.
Reduced(n, d) ==
  LET a == Max({k \in 1 .. n : n % k = 0 /\ d % k = 0}) IN <<n \div a, d \div a>>

\* Fault: the picture covers the output, and its sides are cut.
ZoomCrop(in, out) ==
  IF in[1] * out[2] = out[1] * in[2] THEN <<1, 1>>
  ELSE IF in[1] * out[2] > out[1] * in[2] THEN Reduced(out[2], in[2])
  ELSE Reduced(out[1], in[1])

\* UpdateActualZoom: letterbox.  A picture of the aspect of the output is
\* not scaled.
Zoom(in, out) ==
  IF in[1] * out[2] = out[1] * in[2] THEN <<1, 1>>
  ELSE IF in[1] * out[2] > out[1] * in[2] THEN Reduced(out[1], in[1])
  ELSE Reduced(out[2], in[2])

\* SetDrawDeviceDestRect, with the offsets of the viewport.
DestOf(in, out) ==
  LET z == Zoom(in, out)
      w == Max({1, MulDiv(in[1], z[1], z[2])})
      h == Max({1, MulDiv(in[2], z[1], z[2])})
      same == z = <<1, 1>> /\ in[1] * out[2] = out[1] * in[2]
  IN [x |-> IF same THEN 0 ELSE (out[1] - w) \div 2,
      y |-> IF same THEN 0 ELSE (out[2] - h) \div 2, w |-> w, h |-> h]

\* Fault: the window is not redrawn when the picture moves.
RedrawsLater(in, out) == layer' /\ needs
\* UpdateWindow: the layers are drawn, which StartBitmapCompletion notes.
Redraws(in, out) == layer' /\ (needs \/ dest # DestOf(in, out))

UpdateActualZoom == dest' = DestOf(inner', Output') /\ needs' = Redraws(inner', Output')

-----------------------------------------------------------------------------
\* Fault: a new primary layer leaves the rectangle as it is.
OnlySurface == dest' = dest
Refitted == dest' = DestOf(inner, Output)

\* SetPaintBoxSize, when the primary layer is attached or resized; all of it
\* is to be drawn.
SetPaintBoxSize ==
  /\ layer' = TRUE /\ needs' = TRUE
  /\ Refitted
  /\ UNCHANGED <<inner, windowed, full, news, shown>>

\* SetSize, SetWidth, SetHeight.  SDL posts an event when the size changes.
SetSize(s) ==
  /\ ~full
  /\ windowed' = s /\ news' = IF s = windowed THEN news ELSE "queued"
  /\ UNCHANGED <<inner, full, layer, shown>>
  /\ UpdateActualZoom

\* SetInnerSize, SetInnerWidth, SetInnerHeight, on a window of that size.
SetInnerSize(s) ==
  /\ ~full
  /\ inner' = s /\ windowed' = s
  /\ news' = IF s = windowed THEN news ELSE "queued"
  /\ UNCHANGED <<full, layer, shown>>
  /\ UpdateActualZoom

\* SetFullScreenMode: UpdateWindow, and the size comes as an event.
SetFullScreenMode(b) ==
  /\ full' = b /\ news' = IF b = full THEN news ELSE "queued"
  /\ needs' = (needs \/ layer)
  /\ UNCHANGED <<inner, windowed, layer, dest, shown>>

\* The user resizes the window.
UserResizes(s) ==
  /\ ~full /\ s # windowed /\ windowed' = s /\ news' = "queued"
  /\ UNCHANGED <<inner, full, layer, dest, needs, shown>>

\* Fault: the event only tells the script.
TellsScript == UNCHANGED <<dest, needs>>
SizeKnown == UpdateActualZoom

\* SDL_WINDOWEVENT_SIZE_CHANGED and its like; a window that has not drawn
\* drops it.
SizeEvent ==
  /\ news = "queued"
  /\ UNCHANGED <<inner, windowed, full, layer, shown>>
  /\ IF shown # Unset THEN SizeKnown /\ news' = "seen"
     ELSE news' = "dropped" /\ UNCHANGED <<dest, needs>>

\* SDL_WINDOWEVENT_EXPOSED.
Exposed ==
  /\ shown # Unset /\ needs' = layer
  /\ UNCHANGED <<inner, windowed, full, news, layer, dest, shown>>

\* TickBeat, of the watch timer.
TickBeat ==
  /\ needs /\ needs' = FALSE /\ shown' = dest
  /\ UNCHANGED <<inner, windowed, full, news, layer, dest>>

Next ==
  \/ SetPaintBoxSize \/ SizeEvent \/ Exposed \/ TickBeat
  \/ \E s \in WindowSizes : SetSize(s) \/ UserResizes(s)
  \/ \E s \in Inner : SetInnerSize(s)
  \/ \E b \in BOOLEAN : SetFullScreenMode(b)

Spec == Init /\ [][Next]_vars
-----------------------------------------------------------------------------
\* Fault: the offset is taken off after scaling.
ToDrawAreaLate(x, offset, inside, size) == MulDiv(x, inside, size) - offset
\* TranslateWindowToDrawArea, TranslateDrawAreaToWindow, in one direction.
ToDrawArea(x, offset, inside, size) == MulDiv(x - offset, inside, size)
ToWindow(x, offset, inside, size) == MulDiv(x, size, inside) + offset

\* A window takes input once it has drawn: then it knows where its picture
\* is, though the rectangle is not initialised and the first size event is
\* dropped.
KnownBeforeInput == shown # Unset \/ needs => dest # Unset

\* Once the events about the size are seen, the rectangle is the one of the
\* output as it is then: whichever of script, user and full-screen mode
\* changed it last, and in whatever order the events came.
\* Not if the window had not drawn when the last event came: it dropped it.
DestFollows == news = "seen" /\ shown # Unset => dest = DestOf(inner, Output)

\* What is on the screen is where the mouse is converted to, or will be
\* after the next TickBeat.
ShownWhereAsked == shown # Unset /\ ~needs => shown = dest

\* The picture is inside the output and touches two of its edges, unless it
\* has the aspect of the output: then it is at the upper left in its own
\* size, however large the output is.
Letterboxed ==
  LET d == DestOf(inner, Output) IN
  inner[1] * Output[2] # Output[1] * inner[2] =>
    /\ d.x >= 0 /\ d.y >= 0 /\ d.x + d.w <= Output[1] /\ d.y + d.h <= Output[2]
    /\ d.w = Output[1] \/ d.h = Output[2]

\* The mouse over the picture is at a position of the layers, and a cursor
\* the script sets is reported where it was set, or one pixel before it,
\* unless the picture is smaller than the layers.
CursorAgrees ==
  dest # Unset =>
    /\ \A x \in dest.x .. dest.x + dest.w - 1 :
         ToDrawArea(x, dest.x, inner[1], dest.w) \in 0 .. inner[1] - 1
    /\ dest.w >= inner[1] => \A p \in 0 .. inner[1] - 1 :
         ToDrawArea(ToWindow(p, dest.x, inner[1], dest.w), dest.x, inner[1], dest.w) \in {p - 1, p}
=============================================================================
