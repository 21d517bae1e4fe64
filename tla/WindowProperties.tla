-------------------------- MODULE WindowProperties --------------------------
(***************************************************************************)
(* What the windows of WindowLayers keep to while they are created, shown, *)
(* made modal, asked, closed and invalidated inside each other's methods.  *)
(***************************************************************************)
EXTENDS WindowLayers

\* A method that waits in its own event loop still has its window when it
\* goes on: ShowWindowAsModal and Close read and write members of it then.
\* It needs an orderly script (see Orderly).
WaitingExists == \A i \in DOMAIN frames : frames[i][2] \in ToSet(list)

\* A layer whose object is gone waits for its deletion, unless it was the
\* main window, and then the program ends: no path of closing leaves a layer
\* behind that nobody frees and that no object can reach.
NoOrphan == ToSet(list) \ open \subseteq deleting \/ terminated

\* There is a main window as long as there are windows, or the program ends.
MainOrTerminated == open # {} => main \in open \/ terminated

\* A click on the closing button is asked of a window that exists, though
\* windows close and are invalidated between the click and its delivery.
ClicksOfOpen == clicked \subseteq open

\* A modal window keeps input from the windows it covers: no click reaches
\* the queue for another window while its loop runs and it is the current.
ModalCovers ==
  [][\A w \in inMode : current = w => clicked' \subseteq clicked \cup {w}]_vars

\* When the program ends, no window keeps it in a modal loop or a query.
EndUnwinds == terminated ~> frames = <<>>
=============================================================================
