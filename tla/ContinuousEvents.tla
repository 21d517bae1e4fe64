-------------------------- MODULE ContinuousEvents --------------------------
(***************************************************************************)
(* The continuous events (EventIntf.cpp): native hooks and script closures *)
(* that are called on every turn of the main loop while any is registered. *)
(* Removal leaves an empty cell; the delivery erases empty cells, and      *)
(* stops the continuous calling when nothing is left.  The default of the  *)
(* option -contfreq (no limit) is modelled: TVPBeginContinuousEvent turns  *)
(* on tTVPSystemControl::ContinuousEventCalling.                           *)
(***************************************************************************)
EXTENDS EventTypes

CONSTANTS
  Hooks,      \* tTVPContinuousEventCallbackIntf instances
  Closures,   \* script functions given to System.addContinuousHandler
  MaxHooks,   \* bound on the vector of hooks
  MaxClosures \* bound on the vector of closures

ASSUME ContinuousAssumption ==
  /\ None \notin Hooks
  /\ None \notin Closures
  /\ MaxHooks \in Nat
  /\ MaxClosures \in Nat

VARIABLES
  hooks,            \* TVPContinuousEventVector
  closures,         \* TVPContinuousHandlerVector
  contProcessing,   \* TVPContinuousEventProcessing
  contFlag,         \* TVPProcessContinuousHandlerEventFlag
  contCalling       \* tTVPSystemControl::ContinuousEventCalling

contVars == <<hooks, closures, contProcessing, contFlag, contCalling>>

ContinuousTypeOK ==
  /\ hooks \in Seq(Hooks \cup {None})
  /\ closures \in Seq(Closures \cup {None})
  /\ contProcessing \in BOOLEAN
  /\ contFlag \in BOOLEAN
  /\ contCalling \in BOOLEAN

ContinuousInit ==
  /\ hooks = <<>>
  /\ closures = <<>>
  /\ contProcessing = FALSE
  /\ contFlag = FALSE
  /\ contCalling = FALSE

\* The positions of cell value c in vector v.
CellsIn(v, c) == {i \in DOMAIN v : v[i] = c}

Emptied(v, c) == [i \in DOMAIN v |-> IF v[i] = c THEN None ELSE v[i]]

-----------------------------------------------------------------------------
\* TVPAddContinuousEventHook: no check for a hook that is registered already.
AddHook(h) ==
  /\ Len(hooks) < MaxHooks
  /\ hooks' = Append(hooks, h)
  /\ contCalling' = TRUE
  /\ UNCHANGED <<closures, contProcessing, contFlag>>

\* TVPRemoveContinuousEventHook empties every cell of the hook.
RemoveHook(h) ==
  /\ CellsIn(hooks, h) # {}
  /\ hooks' = Emptied(hooks, h)
  /\ UNCHANGED <<closures, contProcessing, contFlag, contCalling>>

\* TVPAddContinuousHandler does nothing for a closure found in the vector.
AddClosure(c) ==
  /\ Len(closures) < MaxClosures
  /\ CellsIn(closures, c) = {}
  /\ closures' = Append(closures, c)
  /\ contCalling' = TRUE
  /\ UNCHANGED <<hooks, contProcessing, contFlag>>

\* TVPRemoveContinuousHandler.
RemoveClosure(c) ==
  /\ CellsIn(closures, c) # {}
  /\ closures' = Emptied(closures, c)
  /\ UNCHANGED <<hooks, contProcessing, contFlag, contCalling>>

\* The cell of a call that failed is emptied, whatever it holds by then.
DropClosure(i) == closures' = [closures EXCEPT ![i] = None]
=============================================================================
