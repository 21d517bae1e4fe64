---------------------------- MODULE WindowUpdate ----------------------------
(***************************************************************************)
(* The queue of pending window redraws (EventIntf.cpp, TVPWinUpdateEvent-  *)
(* Queue): a vector of window pointers in which a removed window leaves an *)
(* empty cell behind, because the delivery loop walks it by index.         *)
(***************************************************************************)
EXTENDS EventTypes

VARIABLES
  winUpdateQueue,  \* TVPWinUpdateEventQueue: windows, or None in an empty cell
  winDelivering    \* TVPWindowUpdateEventsDelivering

winVars == <<winUpdateQueue, winDelivering>>

WindowTypeOK ==
  /\ winUpdateQueue \in Seq(Windows \cup {None})
  /\ winDelivering \in BOOLEAN

WindowInit ==
  /\ winUpdateQueue = <<>>
  /\ winDelivering = FALSE

\* The cells that hold window w, delivered ones included: the queue is
\* cleared only when the delivery ends.
CellsOf(w) == {i \in DOMAIN winUpdateQueue : winUpdateQueue[i] = w}

\* How many cells a window may have: one, or two while updates are delivered.
CellLimit == IF winDelivering THEN 2 ELSE 1

\* Fault: one cell too many.
RequestedOffByOne(w) ==
  IF Cardinality(CellsOf(w)) <= CellLimit THEN Append(winUpdateQueue, w) ELSE winUpdateQueue

\* TVPPostWindowUpdate: the queue after a request for window w.
Requested(w) ==
  IF Cardinality(CellsOf(w)) < CellLimit THEN Append(winUpdateQueue, w) ELSE winUpdateQueue

PostWindowUpdate(w) == winUpdateQueue' = Requested(w) /\ UNCHANGED winDelivering

\* TVPRemoveWindowUpdate.
RemoveWindowUpdate(w) ==
  /\ winUpdateQueue' = [i \in DOMAIN winUpdateQueue |->
                          IF winUpdateQueue[i] = w THEN None ELSE winUpdateQueue[i]]
  /\ UNCHANGED winDelivering

\* TVPDeliverWindowUpdateEvents, entered when no delivery is in progress, and
\* left, normally or by an exception.
StartWindowUpdates ==
  /\ ~winDelivering
  /\ winDelivering' = TRUE
  /\ UNCHANGED winUpdateQueue

EndWindowUpdates ==
  /\ winUpdateQueue' = <<>>
  /\ winDelivering' = FALSE
=============================================================================
