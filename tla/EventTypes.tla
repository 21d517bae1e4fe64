----------------------------- MODULE EventTypes -----------------------------
(***************************************************************************)
(* What the event system handles: the objects that own events, the events  *)
(* (EventIntf.h and the classes at the top of EventIntf.cpp), the windows. *)
(***************************************************************************)
EXTENDS Integers, Sequences, FiniteSets

CONSTANTS
  Objects,    \* script objects that own events (triggers, windows, timers...)
  Triggers,   \* the AsyncTrigger instances among them
  Windows,    \* the windows among them, which also own input events
  Names,      \* (event name, tag) pairs
  InputTags,  \* tags of input events: one per class of input event
  None        \* an empty cell

ASSUME TypesAssumption ==
  /\ IsFiniteSet(Windows)
  /\ Triggers \subseteq Objects
  /\ Windows \subseteq Objects
  /\ Triggers \cap Windows = {}
  /\ None \notin Objects

\* TVP_EPT_EXCLUSIVE, TVP_EPT_NORMAL, TVP_EPT_IDLE
Prios == {"exclusive", "normal", "idle"}

\* tTVPEvent and tTVPBaseInputEvent
Event == [src : Objects, name : Names, prio : Prios, seq : Nat]

InputEvent == [src : Windows, tag : InputTags]

-----------------------------------------------------------------------------
(* Erasing from a vector.  Erased(q, gone) is the set whose only member is q *)
(* without the positions in gone.  It is a set so that an action can say     *)
(* \E r \in Erased(...), without a recursive definition.                     *)

Ascending(D) ==
  {f \in [1 .. Cardinality(D) -> D] : \A i, j \in DOMAIN f : i < j => f[i] < f[j]}

Erased(q, gone) ==
  {[i \in DOMAIN f |-> q[f[i]]] : f \in Ascending(DOMAIN q \ gone)}

RemoveAt(q, i) ==
  [j \in 1 .. Len(q) - 1 |-> IF j < i THEN q[j] ELSE q[j + 1]]
=============================================================================
