----------------------------- MODULE EventQueue -----------------------------
(***************************************************************************)
(* The event queues of the engine (external/krkrz/base/EventIntf.cpp): the *)
(* script event queue, the input event queue, and AsyncTrigger, the script *)
(* class that posts to the former.  Every caller in the engine posts with  *)
(* the same object as source and as target, so an event has one object     *)
(* here.  A member of Names stands for a pair of an event name and a tag.  *)
(*                                                                         *)
(* The operations below say nothing of who calls them: EventDelivery lets  *)
(* script code call them between and during deliveries.                    *)
(*                                                                         *)
(* TVPEventDisabled and the system disabled state are absent: in the SDL2  *)
(* build every assignment to them is compiled out (base/sdl2/EventImpl.cpp *)
(* lines 76-128), so both stay false.                                      *)
(***************************************************************************)
EXTENDS EventTypes

CONSTANTS
  MaxEvents,  \* bound on the script event queue
  MaxInput    \* bound on the input event queue

ASSUME QueueAssumption ==
  /\ MaxEvents \in Nat
  /\ MaxInput \in Nat

VARIABLES
  eventQueue,            \* TVPEventQueue
  inputQueue,            \* TVPInputEventQueue
  exclusiveEventPosted,  \* TVPExclusiveEventPosted
  seqNumber,             \* TVPEventSequenceNumber
  seqToProcess,          \* TVPEventSequenceNumberToProcess
  eventInterrupting,     \* TVPEventInterrupting
  alive,                 \* the objects not yet invalidated (Owner # NULL)
  cached,                \* tTJSNI_AsyncTrigger::Cached
  mode                   \* tTJSNI_AsyncTrigger::Mode

seqVars   == <<seqNumber, seqToProcess, eventInterrupting>>
queueVars == <<eventQueue, inputQueue, exclusiveEventPosted, seqVars>>
objVars   == <<alive, cached, mode>>

QueueTypeOK ==
  /\ eventQueue \in Seq(Event)
  /\ inputQueue \in Seq(InputEvent)
  /\ exclusiveEventPosted \in BOOLEAN
  /\ seqNumber \in Nat
  /\ seqToProcess \in Nat
  /\ eventInterrupting \in BOOLEAN
  /\ alive \in SUBSET Objects
  /\ cached \in [Triggers -> BOOLEAN]
  /\ mode \in [Triggers -> Prios]

QueueInit ==
  /\ eventQueue = <<>>
  /\ inputQueue = <<>>
  /\ exclusiveEventPosted = FALSE
  /\ seqNumber = 0
  /\ seqToProcess = 0
  /\ eventInterrupting = FALSE
  /\ alive = Objects
  /\ cached = [t \in Triggers |-> TRUE]
  /\ mode = [t \in Triggers |-> "normal"]

-----------------------------------------------------------------------------
\* The positions of the script events of source s whose name is in N.
Matching(s, N) ==
  {i \in DOMAIN eventQueue : eventQueue[i].src = s /\ eventQueue[i].name \in N}

-----------------------------------------------------------------------------
(* Script events *)

\* Fault: the exclusive event is not remembered.
EnqueueForgetful(gone, s, n, prio) ==
  /\ Len(eventQueue) < MaxEvents
  /\ \E r \in Erased(eventQueue, gone) :
       eventQueue' = Append(r, [src |-> s, name |-> n, prio |-> prio, seq |-> seqNumber])
  /\ UNCHANGED <<exclusiveEventPosted, inputQueue, seqVars>>

\* The tail of TVPPostEvent: erase the positions in gone, append, remember an
\* exclusive event.  The event takes the current sequence number.
Enqueue(gone, s, n, prio) ==
  /\ Len(eventQueue) < MaxEvents
  /\ \E r \in Erased(eventQueue, gone) :
       eventQueue' = Append(r, [src |-> s, name |-> n, prio |-> prio, seq |-> seqNumber])
  /\ exclusiveEventPosted' = (exclusiveEventPosted \/ prio = "exclusive")
  /\ UNCHANGED <<inputQueue, seqVars>>

\* TVPPostEvent with TVP_EPT_POST (N empty), or with TVP_EPT_REMOVE_POST (N:
\* the names it removes, several when the tag is 0).  A discardable event is
\* dropped while the event system is interrupted.
PostEvent(s, n, prio, discardable, N) ==
  \/ /\ discardable /\ eventInterrupting
     /\ UNCHANGED queueVars
  \/ /\ ~(discardable /\ eventInterrupting)
     /\ Enqueue(Matching(s, N), s, n, prio)

\* TVPCancelEvents and TVPCancelEventsByTag (N: the names they match).
CancelEvents(s, N) ==
  /\ eventQueue' \in Erased(eventQueue, Matching(s, N))
  /\ UNCHANGED <<inputQueue, exclusiveEventPosted, seqVars>>

CancelSourceEvents(s) == CancelEvents(s, Names)

-----------------------------------------------------------------------------
(* tTJSNI_AsyncTrigger *)

\* Trigger: with Cached set, undelivered events are removed first.
Trigger(t, n) ==
  /\ t \in alive
  /\ Enqueue(IF cached[t] THEN Matching(t, Names) ELSE {}, t, n, mode[t])
  /\ UNCHANGED objVars

CancelTrigger(t) ==
  /\ t \in alive
  /\ CancelSourceEvents(t)
  /\ UNCHANGED objVars

\* SetCached and SetMode cancel what is queued when the value changes.
SetCached(t, b) ==
  /\ t \in alive
  /\ cached[t] # b
  /\ cached' = [cached EXCEPT ![t] = b]
  /\ CancelSourceEvents(t)
  /\ UNCHANGED <<alive, mode>>

SetModeKeeping(t, m) ==  \* Fault: what is queued stays.
  /\ t \in alive
  /\ mode[t] # m
  /\ mode' = [mode EXCEPT ![t] = m]
  /\ UNCHANGED <<queueVars, alive, cached>>

SetMode(t, m) ==
  /\ t \in alive
  /\ mode[t] # m
  /\ mode' = [mode EXCEPT ![t] = m]
  /\ CancelSourceEvents(t)
  /\ UNCHANGED <<alive, cached>>

-----------------------------------------------------------------------------
(* Input events *)

InputMatching(w, T) ==
  {i \in DOMAIN inputQueue : inputQueue[i].src = w /\ inputQueue[i].tag \in T}

\* TVPPostInputEvent; replace is TVP_EPT_REMOVE_POST.
PostInputEvent(w, tag, replace) ==
  /\ Len(inputQueue) < MaxInput
  /\ \E r \in Erased(inputQueue, IF replace THEN InputMatching(w, {tag}) ELSE {}) :
       inputQueue' = Append(r, [src |-> w, tag |-> tag])
  /\ UNCHANGED <<eventQueue, exclusiveEventPosted, seqVars>>

\* TVPCancelInputEvents, of one source or of one source and tag.
CancelInputEvents(w, T) ==
  /\ inputQueue' \in Erased(inputQueue, InputMatching(w, T))
  /\ UNCHANGED <<eventQueue, exclusiveEventPosted, seqVars>>

-----------------------------------------------------------------------------
(* Invalidation of an owner: AsyncTrigger, timer, sound buffer: its queued   *)
(* events go and Owner becomes NULL, so that it posts no more.               *)
InvalidateObjectKeeping(o) ==  \* Fault: what is queued stays.
  /\ o \in alive \ Windows
  /\ alive' = alive \ {o}
  /\ UNCHANGED <<queueVars, cached, mode>>

InvalidateObject(o) ==
  /\ o \in alive \ Windows
  /\ CancelSourceEvents(o)
  /\ alive' = alive \ {o}
  /\ UNCHANGED <<cached, mode>>

\* What the invalidation of a window does, twice, to the queues.
CancelAllOf(w) ==
  /\ eventQueue' \in Erased(eventQueue, Matching(w, Names))
  /\ inputQueue' \in Erased(inputQueue, InputMatching(w, InputTags))
  /\ UNCHANGED <<exclusiveEventPosted, seqVars>>
=============================================================================
