------------------------------ MODULE Mailbox -------------------------------
(***************************************************************************)
(* What the delivery of events promises to who posts, whatever sequence    *)
(* numbers, flags, nested passes and exceptions do.  An event waits until  *)
(* a handler is called for it, its source cancels it, or its source is     *)
(* gone.  A call of a handler takes one event, the first of its priority,  *)
(* and no other step takes any.  EventDelivery implements this             *)
(* (EventProperties).                                                      *)
(***************************************************************************)
EXTENDS EventTypes

VARIABLES
  mail,   \* the script events that wait, in the order of their posting
  input,  \* the input events that wait
  valid,  \* the objects that are not invalidated
  calls   \* the call stack: a handler of an event by its kind, or "engine"

vars == <<mail, input, valid, calls>>

Init == mail = <<>> /\ input = <<>> /\ valid = Objects /\ calls = <<>>

Of(s, N) == {i \in DOMAIN mail : mail[i].src = s /\ mail[i].name \in N}
InputOf(s, T) == {i \in DOMAIN input : input[i].src = s /\ input[i].tag \in T}

Pushed == Append(calls, "engine")
Popped == [d \in 1 .. Len(calls) - 1 |-> calls[d]]
Runs(k) == calls # <<>> /\ calls[Len(calls)] = k
Turned(k) == [calls EXCEPT ![Len(calls)] = k]

-----------------------------------------------------------------------------
\* An event replaces events of its source, those of some names, or none.
Post ==
  /\ UNCHANGED <<input, valid, calls>>
  /\ \E s \in valid, N \in SUBSET Names : \E kept \in Erased(mail, Of(s, N)) :
       \E n \in Names, p \in Prios :
         mail' = Append(kept, [src |-> s, name |-> n, prio |-> p])

PostInput ==
  /\ UNCHANGED <<mail, valid, calls>>
  /\ \E w \in Windows \cap valid, tag \in InputTags : \E T \in {{}, {tag}} :
       \E kept \in Erased(input, InputOf(w, T)) : input' = Append(kept, [src |-> w, tag |-> tag])

\* Events of one source go; finalizers may be called then.
Cancel ==
  /\ UNCHANGED valid /\ calls' \in {calls, Pushed}
  /\ \E s \in valid, N \in SUBSET Names, T \in SUBSET InputTags :
       mail' \in Erased(mail, Of(s, N)) /\ input' \in Erased(input, InputOf(s, T))

\* With an object go all its events; its finalizers have returned.
Invalidate ==
  /\ calls' = calls \/ (Runs("engine") /\ calls' = Popped)
  /\ \E s \in valid :
       /\ valid' = valid \ {s}
       /\ mail' \in Erased(mail, Of(s, Names)) /\ input' \in Erased(input, InputOf(s, InputTags))

\* A handler is called for the first event of a priority.
Deliver ==
  /\ Runs("engine") /\ UNCHANGED <<input, valid>>
  /\ \E i \in DOMAIN mail :
       /\ mail[i].src \in valid /\ \A j \in 1 .. i - 1 : mail[j].prio # mail[i].prio
       /\ mail' = RemoveAt(mail, i) /\ calls' = Turned(mail[i].prio)

DeliverInput ==
  /\ Runs("engine") /\ UNCHANGED <<mail, valid>>
  /\ input # <<>> /\ Head(input).src \in valid
  /\ input' = Tail(input) /\ calls' = Turned("input")

\* A handler returns or throws; the engine calls and returns.
HandlerEnds ==
  /\ \E k \in Prios \cup {"input"} : Runs(k)
  /\ calls' = Turned("engine") /\ UNCHANGED <<mail, input, valid>>
Enter == calls' = Pushed /\ UNCHANGED <<mail, input, valid>>
Leave == Runs("engine") /\ calls' = Popped /\ UNCHANGED <<mail, input, valid>>

Next ==
  \/ Enter \/ Leave \/ HandlerEnds \/ Deliver \/ DeliverInput
  \/ Post \/ PostInput \/ Cancel \/ Invalidate
Spec == Init /\ [][Next]_vars
=============================================================================
