--------------------------- MODULE WindowPicture ---------------------------
(***************************************************************************)
(* How what the layers draw reaches the screen of a window with a renderer:*)
(* through the surface of TVPWindowLayer, which TVPSDLBitmapCompletion     *)
(* fills piece by piece while it joins the pieces to a rectangle that is   *)
(* never emptied, and the texture that TickBeat updates with it.  All rows *)
(* are alike, so the picture is one row of pixels, and a rectangle an      *)
(* interval.  SDL_UpdateTexture takes the pixels of the rectangle from the *)
(* pointer it is given, which is that of the first pixel of the surface.   *)
(***************************************************************************)
EXTENDS Naturals, Sequences, FiniteSetsExt

CONSTANTS
  MaxWidth,     \* of the primary layer
  Colours       \* what a pixel can be

VARIABLES
  primary,      \* the primary layer
  region,       \* pixels to draw: the update region of the layer manager
  surface,      \* the surface of the window
  left, right,  \* update_rect
  needs,        \* needs_graphic_update
  texture       \* the texture, as it is presented

vars == <<primary, region, surface, left, right, needs, texture>>
Rows == UNION {[1 .. n -> Colours] : n \in 0 .. MaxWidth}
Blank(n) == [i \in 1 .. n |-> CHOOSE c \in Colours : TRUE]

TypeOK ==
  /\ primary \in Rows /\ surface \in Rows /\ texture \in Rows
  /\ region \subseteq 1 .. MaxWidth
  /\ left \in 0 .. MaxWidth /\ right \in left .. MaxWidth /\ needs \in BOOLEAN

Init ==
  /\ primary = <<>> /\ surface = <<>> /\ texture = <<>>
  /\ region = {} /\ left = 0 /\ right = 0 /\ needs = FALSE

-----------------------------------------------------------------------------
\* The script draws on a layer.
Draw(i, c) ==
  /\ i \in DOMAIN primary
  /\ primary' = [primary EXCEPT ![i] = c] /\ region' = region \cup {i}
  /\ UNCHANGED <<surface, left, right, needs, texture>>

\* The primary layer has a new size: SetPaintBoxSize makes the texture and
\* the surface anew, and all is to be drawn.
SetPaintBoxSize(n) ==
  /\ primary' = [i \in 1 .. n |-> IF i \in DOMAIN primary THEN primary[i] ELSE Blank(n)[i]]
  /\ surface' = Blank(n) /\ texture' = Blank(n)
  /\ region' = 1 .. n
  /\ UNCHANGED <<left, right, needs>>

\* StartBitmapCompletion, NotifyBitmapCompleted of one piece x + 1 .. x + w:
\* a piece that does not fit the primary layer is not copied.
Fits(x, w) == x + w <= Len(primary)

\* Fault: the rectangle starts where the last piece does.
LastPiece(x) == x
\* update_rect.do_union, of a rectangle that was empty at the origin.
Joined(x) == IF x < left THEN x ELSE left

BitmapCompleted(x, w) ==
  /\ w > 0 /\ Fits(x, w)
  /\ x + 1 .. x + w \subseteq region
  /\ surface' = [i \in DOMAIN surface |-> IF i \in x + 1 .. x + w THEN primary[i] ELSE surface[i]]
  /\ left' = Joined(x) /\ right' = Max({right, x + w})
  /\ region' = region \ (x + 1 .. x + w)
  /\ needs' = TRUE
  /\ UNCHANGED <<primary, texture>>

\* TickBeat: the rectangle may be of a larger layer.
ClippedWidth == IF right > Len(surface) THEN Len(surface) ELSE right - left

TickBeat ==
  /\ needs /\ needs' = FALSE
  /\ LET w == ClippedWidth
     IN texture' = [i \in DOMAIN texture |->
                      IF i \in left + 1 .. left + w THEN surface[i - left] ELSE texture[i]]
  /\ UNCHANGED <<primary, region, surface, left, right>>

Next ==
  \/ \E n \in 1 .. MaxWidth : SetPaintBoxSize(n)
  \/ \E i \in 1 .. MaxWidth, c \in Colours : Draw(i, c)
  \/ \E x, w \in 0 .. MaxWidth : BitmapCompleted(x, w)
  \/ TickBeat

Spec == Init /\ [][Next]_vars
-----------------------------------------------------------------------------
\* When nothing is left to draw and to present, the screen shows the layer:
\* in whatever pieces it was drawn, before and after its size changed, and
\* though the rectangle passed to SDL is the union of all pieces ever drawn.
ShowsLayer == region = {} /\ ~needs => texture = primary
=============================================================================
