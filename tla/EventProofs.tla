---------------------------- MODULE EventProofs -----------------------------
(***************************************************************************)
(* Theorems about the delivery of events, for every set of objects, every  *)
(* bound and every depth of nesting: the types, the safety of the script   *)
(* event queue, which is order, delivery in order, consistent triggers,    *)
(* and nothing queued for an object that is gone, and from these that the  *)
(* delivery implements Mailbox.                                            *)
(***************************************************************************)
EXTENDS EventProperties, TLAPS, FiniteSetTheorems, SequenceTheorems

-----------------------------------------------------------------------------
(* Erasing from a vector.                                                  *)

\* Erasing keeps the order of what stays: the result is a sequence whose
\* elements come from ascending positions that were not erased.
LEMMA ErasedKeepsOrder ==
  ASSUME NEW S, NEW q \in Seq(S), NEW gone, NEW r \in Erased(q, gone)
  PROVE  /\ r \in Seq(S)
         /\ \E f \in [1 .. Len(r) -> DOMAIN q \ gone] :
              /\ \A i \in 1 .. Len(r) : r[i] = q[f[i]]
              /\ \A i, j \in 1 .. Len(r) : i < j => f[i] < f[j]
<1> DEFINE D == DOMAIN q \ gone
<1>1. Cardinality(D) \in Nat
  <2>1. IsFiniteSet(1 .. Len(q))
    BY FS_Interval
  <2>2. IsFiniteSet(D)
    BY <2>1, FS_Subset
  <2> QED
    BY <2>2, FS_CardinalityType
<1>2. PICK f \in Ascending(D) : r = [i \in DOMAIN f |-> q[f[i]]]
  BY DEF Erased
<1>3. f \in [1 .. Cardinality(D) -> D] /\ \A i, j \in DOMAIN f : i < j => f[i] < f[j]
  BY <1>2 DEF Ascending
<1> HIDE DEF D
<1>4. /\ r = [i \in 1 .. Cardinality(D) |-> q[f[i]]]
      /\ \A i \in 1 .. Cardinality(D) : f[i] \in D
  BY <1>2, <1>3
<1>5. \A j \in D : q[j] \in S
  BY DEF D
<1>6. r \in [1 .. Cardinality(D) -> S]
  BY <1>4, <1>5
<1>7. r \in Seq(S) /\ Len(r) = Cardinality(D)
  BY <1>1, <1>6
<1>8. f \in [1 .. Len(r) -> D] /\ DOMAIN f = 1 .. Len(r)
  BY <1>3, <1>7
<1> QED
  BY <1>3, <1>4, <1>7, <1>8 DEF D

\* Erasing one position.
LEMMA RemoveAtKeepsOrder ==
  ASSUME NEW S, NEW q \in Seq(S), NEW k \in DOMAIN q
  PROVE  /\ RemoveAt(q, k) \in Seq(S)
         /\ Len(RemoveAt(q, k)) = Len(q) - 1
         /\ \A i \in 1 .. Len(q) - 1 :
              RemoveAt(q, k)[i] = IF i < k THEN q[i] ELSE q[i + 1]
<1>1. Len(q) \in Nat \ {0} /\ k \in 1 .. Len(q)
  OBVIOUS
<1>2. RemoveAt(q, k) \in [1 .. Len(q) - 1 -> S]
  BY <1>1 DEF RemoveAt
<1> QED
  BY <1>1, <1>2 DEF RemoveAt

\* Dropping the last frame.
LEMMA PopType ==
  ASSUME NEW S, NEW q \in Seq(S), Len(q) > 0
  PROVE  [i \in 1 .. Len(q) - 1 |-> q[i]] \in Seq(S)
<1>1. [i \in 1 .. Len(q) - 1 |-> q[i]] \in [1 .. Len(q) - 1 -> S]
  OBVIOUS
<1> QED
  BY <1>1
-----------------------------------------------------------------------------
(* Type correctness.                                                       *)

\* The frames a step may leave on the stack.
LEMMA StackSteps ==
  ASSUME stack \in Seq(Frame)
  PROVE  /\ \A p \in Phases : NewFrame(p) \in Frame
         /\ \A f \in Frame : Push(f) => stack' \in Seq(Frame)
         /\ \A p \in Phases, w \in Windows \cup {None} : CallFrame(p, w) \in Frame
         /\ Depth > 0 => Top \in Frame
         /\ Depth > 0 /\ Pop => stack' \in Seq(Frame)
         /\ \A f \in Frame : Depth > 0 /\ SetTop(f) => stack' \in Seq(Frame)
<1>1. \A p \in Phases, w \in Windows \cup {None} :
        NewFrame(p) \in Frame /\ CallFrame(p, w) \in Frame
  BY DEF NewFrame, CallFrame, FrameOf, Frame
<1>2. \A f \in Frame : Push(f) => stack' \in Seq(Frame)
  BY DEF Push
<1>3. Depth > 0 => Top \in Frame
  BY DEF Depth, Top
<1>4. Depth > 0 /\ Pop => stack' \in Seq(Frame)
  BY PopType DEF Depth, Pop
<1>5. \A f \in Frame : Depth > 0 /\ SetTop(f) => stack' \in Seq(Frame)
  BY DEF Depth, SetTop
<1> QED
  BY <1>1, <1>2, <1>3, <1>4, <1>5

\* The frame transitions of a pass keep the type of the stack.
LEMMA StackMoves ==
  ASSUME stack \in Seq(Frame), Depth > 0
  PROVE  /\ \A p \in Phases : Goto(p) => stack' \in Seq(Frame)
         /\ \A b, e \in BOOLEAN, k \in Nat : Loop(b, k, e) => stack' \in Seq(Frame)
         /\ Call \/ Return \/ NextCell \/ SkipCell \/ Pop => stack' \in Seq(Frame)
<1>1. /\ Top \in Frame /\ Top.phase \in Phases /\ Top.idx \in Nat
      /\ Top.empties \in BOOLEAN /\ Top.win \in Windows \cup {None}
  BY StackSteps DEF Frame
<1>2. \A p \in Phases : Goto(p) => stack' \in Seq(Frame)
  BY StackSteps DEF Goto
<1>3. ASSUME NEW b \in BOOLEAN, NEW e \in BOOLEAN, NEW k \in Nat, Loop(b, k, e)
      PROVE  stack' \in Seq(Frame)
  <2>1. FrameOf(Top.phase, b, k, e, Top.win) \in Frame
    BY <1>1 DEF Frame, FrameOf
  <2> QED
    BY <2>1, <1>3, StackSteps DEF Loop
<1>4. Top.idx + 1 \in Nat /\ TRUE \in BOOLEAN /\ FALSE \in BOOLEAN
  BY <1>1
<1>6. Call \/ Return => stack' \in Seq(Frame)
  BY <1>1, <1>3, <1>4, Zenon DEF Call, Return
<1>7. NextCell \/ SkipCell => stack' \in Seq(Frame)
  BY <1>1, <1>3, <1>4, Zenon DEF NextCell, SkipCell
<1>5. Pop => stack' \in Seq(Frame)
  BY StackSteps
<1> QED
  BY <1>2, <1>3, <1>5, <1>6, <1>7

\* The operations on the queues keep their types.
LEMMA QueueStutterType ==
  ASSUME QueueTypeOK, UNCHANGED queueVars, UNCHANGED objVars
  PROVE  QueueTypeOK'
BY DEF QueueTypeOK, queueVars, seqVars, objVars

\* Appending an event, with or without erasing.
LEMMA EnqueueType ==
  ASSUME QueueTypeOK, NEW gone, NEW s \in Objects, NEW n \in Names, NEW prio \in Prios,
         Enqueue(gone, s, n, prio)
  PROVE  eventQueue' \in Seq(Event) /\ exclusiveEventPosted' \in BOOLEAN
<1>1. eventQueue \in Seq(Event) /\ seqNumber \in Nat /\ exclusiveEventPosted \in BOOLEAN
  BY DEF QueueTypeOK
<1>2. PICK r \in Erased(eventQueue, gone) :
        eventQueue' = Append(r, [src |-> s, name |-> n, prio |-> prio, seq |-> seqNumber])
  BY DEF Enqueue
<1>3. r \in Seq(Event)
  BY <1>1, <1>2, ErasedKeepsOrder
<1>4. [src |-> s, name |-> n, prio |-> prio, seq |-> seqNumber] \in Event
  BY <1>1 DEF Event
<1>5. exclusiveEventPosted' \in BOOLEAN
  BY DEF Enqueue
<1> QED
  BY <1>2, <1>3, <1>4, <1>5

\* TVPPostEvent keeps the queues' types, dropped events included.
LEMMA PostEventType ==
  ASSUME QueueTypeOK, NEW s \in Objects, NEW n \in Names, NEW prio \in Prios,
         NEW d \in BOOLEAN, NEW N \in SUBSET Names,
         PostEvent(s, n, prio, d, N), UNCHANGED objVars
  PROVE  QueueTypeOK'
<1>1. CASE UNCHANGED queueVars
  BY <1>1, QueueStutterType
<1>2. CASE Enqueue(Matching(s, N), s, n, prio)
  BY <1>2, EnqueueType DEF Enqueue, QueueTypeOK, seqVars, objVars
<1> QED
  BY <1>1, <1>2 DEF PostEvent

\* AsyncTrigger.trigger keeps the queues' types.
LEMMA TriggerType ==
  ASSUME QueueTypeOK, NEW t \in Triggers, NEW n \in Names, Trigger(t, n)
  PROVE  QueueTypeOK'
<1>1. t \in Objects /\ mode[t] \in Prios
  BY TypesAssumption DEF QueueTypeOK
<1>2. \E gone : Enqueue(gone, t, n, mode[t])
  BY DEF Trigger
<1>3. eventQueue' \in Seq(Event) /\ exclusiveEventPosted' \in BOOLEAN
  BY <1>1, <1>2, EnqueueType
<1>4. UNCHANGED <<inputQueue, seqNumber, seqToProcess, eventInterrupting>>
  BY <1>2 DEF Enqueue, seqVars
<1> QED
  BY <1>3, <1>4 DEF Trigger, QueueTypeOK, objVars

\* The cancellations keep the queues' types.
LEMMA CancelEventsType ==
  ASSUME QueueTypeOK, NEW s, NEW N, CancelEvents(s, N)
  PROVE  /\ eventQueue' \in Seq(Event)
         /\ UNCHANGED <<inputQueue, exclusiveEventPosted, seqNumber, seqToProcess,
                        eventInterrupting>>
<1>1. eventQueue \in Seq(Event)
  BY DEF QueueTypeOK
<1>2. eventQueue' \in Erased(eventQueue, Matching(s, N))
  BY DEF CancelEvents
<1>3. eventQueue' \in Seq(Event)
  BY <1>1, <1>2, ErasedKeepsOrder
<1> QED
  BY <1>3 DEF CancelEvents, seqVars

\* Script code that posts keeps TypeOK.
LEMMA ScriptPostsType == TypeOK /\ ScriptPosts => TypeOK'
<1> SUFFICES ASSUME TypeOK, ScriptPosts PROVE TypeOK'
  OBVIOUS
<1>1. ASSUME NEW s \in alive \ Triggers, NEW n \in Names, NEW p \in Prios,
             NEW d \in BOOLEAN, NEW N \in SUBSET Names,
             PostEvent(s, n, p, d, N), UNCHANGED objVars
      PROVE  QueueTypeOK'
  BY <1>1, PostEventType DEF TypeOK, QueueTypeOK
<1>2. ASSUME NEW t \in Triggers, NEW n \in Names, Trigger(t, n)
      PROVE  QueueTypeOK'
  BY <1>2, TriggerType DEF TypeOK
<1>3. QueueTypeOK'
  BY <1>1, <1>2 DEF ScriptPosts
<1> QED
  BY <1>3 DEF ScriptPosts, TypeOK, WindowTypeOK, ContinuousTypeOK, winVars, contVars

\* Script code that cancels or invalidates an object keeps TypeOK.
LEMMA ScriptCancelsType == TypeOK /\ ScriptCancels => TypeOK'
<1> SUFFICES ASSUME TypeOK, ScriptCancels PROVE TypeOK'
  OBVIOUS
<1> USE DEF TypeOK
<1>1. ASSUME NEW s, NEW N, CancelEvents(s, N), UNCHANGED objVars
      PROVE  QueueTypeOK'
  BY <1>1, CancelEventsType DEF QueueTypeOK, objVars
<1>2. ASSUME NEW t \in Triggers, CancelTrigger(t)
      PROVE  QueueTypeOK'
  BY <1>1, <1>2 DEF CancelTrigger, CancelSourceEvents
<1>3. ASSUME NEW t \in Triggers, NEW b \in BOOLEAN, SetCached(t, b)
      PROVE  QueueTypeOK'
  BY <1>3, CancelEventsType DEF SetCached, CancelSourceEvents, QueueTypeOK
<1>4. ASSUME NEW t \in Triggers, NEW m \in Prios, SetMode(t, m)
      PROVE  QueueTypeOK'
  BY <1>4, CancelEventsType DEF SetMode, CancelSourceEvents, QueueTypeOK
<1>5. ASSUME NEW o \in Objects \ Windows, InvalidateObject(o)
      PROVE  QueueTypeOK'
  BY <1>5, CancelEventsType DEF InvalidateObject, CancelSourceEvents, QueueTypeOK
<1>6. QueueTypeOK'
  BY <1>1, <1>2, <1>3, <1>4, <1>5 DEF ScriptCancels
<1> QED
  BY <1>6 DEF ScriptCancels, WindowTypeOK, ContinuousTypeOK, winVars, contVars

\* Input events posted or cancelled keep TypeOK.
LEMMA ScriptInputType == TypeOK /\ ScriptInput => TypeOK'
<1> SUFFICES ASSUME TypeOK, ScriptInput PROVE TypeOK'
  OBVIOUS
<1>1. inputQueue \in Seq(InputEvent)
  BY DEF TypeOK, QueueTypeOK
<1>2. ASSUME NEW w \in Windows, NEW tag \in InputTags, NEW b \in BOOLEAN,
             PostInputEvent(w, tag, b)
      PROVE  inputQueue' \in Seq(InputEvent)
  <2>1. PICK gone : \E r \in Erased(inputQueue, gone) :
          inputQueue' = Append(r, [src |-> w, tag |-> tag])
    BY <1>2 DEF PostInputEvent
  <2>2. [src |-> w, tag |-> tag] \in InputEvent
    BY DEF InputEvent
  <2> QED
    BY <1>1, <2>1, <2>2, ErasedKeepsOrder
<1>3. ASSUME NEW w \in Windows, NEW T \in SUBSET InputTags, CancelInputEvents(w, T)
      PROVE  inputQueue' \in Seq(InputEvent)
  BY <1>1, <1>3, ErasedKeepsOrder DEF CancelInputEvents
<1>4. inputQueue' \in Seq(InputEvent)
  BY <1>2, <1>3 DEF ScriptInput
<1>5. UNCHANGED <<eventQueue, exclusiveEventPosted, seqVars>>
  BY DEF ScriptInput, PostInputEvent, CancelInputEvents
<1> QED
  BY <1>4, <1>5 DEF ScriptInput, TypeOK, QueueTypeOK, WindowTypeOK, ContinuousTypeOK,
                    winVars, contVars, objVars, seqVars

\* The queue of window updates keeps its type.
LEMMA WindowStepsType ==
  ASSUME WindowTypeOK
  PROVE  /\ \A w \in Windows : Requested(w) \in Seq(Windows \cup {None})
         /\ \A w : RemoveWindowUpdate(w) => WindowTypeOK'
<1>1. \A w \in Windows : Requested(w) \in Seq(Windows \cup {None})
  BY DEF Requested, WindowTypeOK
<1>2. ASSUME NEW w, RemoveWindowUpdate(w)
      PROVE  WindowTypeOK'
  <2>1. winUpdateQueue' \in [1 .. Len(winUpdateQueue) -> Windows \cup {None}]
    BY <1>2 DEF RemoveWindowUpdate, WindowTypeOK
  <2>2. winUpdateQueue' \in Seq(Windows \cup {None})
    BY <2>1 DEF WindowTypeOK
  <2> QED
    BY <1>2, <2>2 DEF RemoveWindowUpdate, WindowTypeOK
<1> QED
  BY <1>1, <1>2

\* Cancelling what a window owns.
LEMMA CancelAllType ==
  ASSUME QueueTypeOK, NEW w, CancelAllOf(w)
  PROVE  /\ eventQueue' \in Seq(Event)
         /\ inputQueue' \in Seq(InputEvent)
         /\ UNCHANGED <<exclusiveEventPosted, seqNumber, seqToProcess, eventInterrupting>>
<1>1. eventQueue \in Seq(Event) /\ inputQueue \in Seq(InputEvent)
  BY DEF QueueTypeOK
<1> QED
  BY <1>1, ErasedKeepsOrder DEF CancelAllOf, seqVars

\* Redraw requests, window invalidation and Window.update keep TypeOK.
LEMMA ScriptWindowType ==
  TypeOK /\ (ScriptRequestsUpdate \/ InvalidateWindow \/ UpdateWindow) => TypeOK'
<1> USE DEF TypeOK
<1>1. ASSUME TypeOK, ScriptRequestsUpdate PROVE TypeOK'
  <2>1. WindowTypeOK'
    BY <1>1, WindowStepsType DEF ScriptRequestsUpdate, PostWindowUpdate, WindowTypeOK
  <2> QED
    BY <1>1, <2>1, QueueStutterType DEF ScriptRequestsUpdate, ContinuousTypeOK, contVars
<1>2. ASSUME TypeOK, InvalidateWindow PROVE TypeOK'
  <2>1. PICK w \in Windows : /\ CancelAllOf(w) /\ RemoveWindowUpdate(w)
                            /\ Push(CallFrame("finalizers", w))
    BY <1>2 DEF InvalidateWindow
  <2>2. QueueTypeOK'
    BY <1>2, <2>1, CancelAllType DEF InvalidateWindow, QueueTypeOK, objVars
  <2>3. CallFrame("finalizers", w) \in Frame
    BY <1>2, StackSteps DEF Phases
  <2>4. stack' \in Seq(Frame)
    BY <1>2, <2>1, <2>3, StackSteps
  <2> QED
    BY <1>2, <2>1, <2>2, <2>4, WindowStepsType DEF InvalidateWindow, ContinuousTypeOK, contVars
<1>3. ASSUME TypeOK, UpdateWindow PROVE TypeOK'
  <2>1. WindowTypeOK'
    BY <1>3, WindowStepsType DEF UpdateWindow, WindowTypeOK
  <2>2. "update" \in Phases
    BY DEF Phases
  <2>3. stack' \in Seq(Frame)
    BY <1>3, <2>2, StackSteps DEF UpdateWindow
  <2> QED
    BY <1>3, <2>1, <2>3, QueueStutterType DEF UpdateWindow, ContinuousTypeOK, contVars
<1> QED
  BY <1>1, <1>2, <1>3

\* Emptying a cell, and erasing the empty cells, keep the type of a vector.
LEMMA EmptiedType ==
  ASSUME NEW S, NEW v \in Seq(S \cup {None}), NEW c
  PROVE  Emptied(v, c) \in Seq(S \cup {None})
<1>1. Emptied(v, c) \in [1 .. Len(v) -> S \cup {None}]
  BY DEF Emptied
<1> QED
  BY <1>1

\* Adding and removing continuous callbacks keeps TypeOK.
LEMMA ScriptContinuousType == TypeOK /\ ScriptContinuous => TypeOK'
<1> SUFFICES ASSUME TypeOK, ScriptContinuous PROVE TypeOK'
  OBVIOUS
<1>1. ContinuousTypeOK
  BY DEF TypeOK
<1>2. ASSUME NEW h \in Hooks, AddHook(h) \/ RemoveHook(h) PROVE ContinuousTypeOK'
  <2>1. hooks \in Seq(Hooks \cup {None})
    BY <1>1 DEF ContinuousTypeOK
  <2>2. Append(hooks, h) \in Seq(Hooks \cup {None})
    BY <2>1
  <2>3. Emptied(hooks, h) \in Seq(Hooks \cup {None})
    BY <2>1, EmptiedType
  <2> QED
    BY <1>1, <1>2, <2>2, <2>3 DEF AddHook, RemoveHook, ContinuousTypeOK
<1>3. ASSUME NEW c \in Closures, AddClosure(c) \/ RemoveClosure(c) PROVE ContinuousTypeOK'
  <2>1. closures \in Seq(Closures \cup {None})
    BY <1>1 DEF ContinuousTypeOK
  <2>2. Append(closures, c) \in Seq(Closures \cup {None})
    BY <2>1
  <2>3. Emptied(closures, c) \in Seq(Closures \cup {None})
    BY <2>1, EmptiedType
  <2> QED
    BY <1>1, <1>3, <2>2, <2>3 DEF AddClosure, RemoveClosure, ContinuousTypeOK
<1>4. ContinuousTypeOK'
  BY <1>2, <1>3 DEF ScriptContinuous
<1> QED
  BY <1>4, QueueStutterType DEF ScriptContinuous, TypeOK, WindowTypeOK, winVars

\* Immediate delivery and the start of a pass keep TypeOK.
LEMMA ScriptCallsType == TypeOK /\ (PostImmediate \/ BeginPass) => TypeOK'
<1>1. ASSUME TypeOK, PostImmediate PROVE TypeOK'
  <2>1. CallFrame("immediate", None) \in Frame
    BY <1>1, StackSteps DEF Phases, TypeOK
  <2>2. stack' \in Seq(Frame)
    BY <1>1, <2>1, StackSteps DEF PostImmediate, TypeOK
  <2> QED
    BY <1>1, <2>2, QueueStutterType
       DEF PostImmediate, TypeOK, WindowTypeOK, ContinuousTypeOK, winVars, contVars
<1>2. ASSUME TypeOK, BeginPass PROVE TypeOK'
  <2>1. "exclusive" \in Phases
    BY DEF Phases, ScriptPhases
  <2>2. stack' \in Seq(Frame)
    BY <1>2, <2>1, StackSteps DEF BeginPass, TypeOK
  <2>3. seqNumber' \in Nat /\ seqToProcess' \in Nat
    BY <1>2 DEF BeginPass, TypeOK, QueueTypeOK
  <2>4. QueueTypeOK'
    BY <1>2, <2>3 DEF BeginPass, TypeOK, QueueTypeOK, objVars
  <2> QED
    BY <1>2, <2>2, <2>4 DEF BeginPass, TypeOK, WindowTypeOK, ContinuousTypeOK, winVars
<1> QED
  BY <1>1, <1>2

\* A step of the engine or of a handler that moves within the top frame, and
\* one that changes no queue.
LEMMA FrameType ==
  ASSUME TypeOK, Depth > 0,
         \/ \E p \in Phases : Goto(p)
         \/ \E b, e \in BOOLEAN, k \in Nat : Loop(b, k, e)
         \/ Call \/ Return \/ NextCell \/ SkipCell \/ Pop
  PROVE  stack' \in Seq(Frame)
BY StackMoves DEF TypeOK

\* A step that moves the top frame and changes nothing else.
LEMMA QuietType ==
  ASSUME TypeOK, Depth > 0,
         \/ \E p \in Phases : Goto(p)
         \/ \E b, e \in BOOLEAN, k \in Nat : Loop(b, k, e)
         \/ Call \/ Return \/ NextCell \/ SkipCell \/ Pop,
         UNCHANGED <<queueVars, objVars, winVars, contVars>>
  PROVE  TypeOK'
BY FrameType, QueueStutterType
   DEF TypeOK, WindowTypeOK, ContinuousTypeOK, winVars, contVars

\* The engine.
LEMMA PassType ==
  TypeOK /\ (\/ \E p \in ScriptPhases : DeliverEvent(p) \/ EndLoop(p)
             \/ DeliverInput \/ EndInput \/ AfterScriptPass \/ EndPass) => TypeOK'
<1> USE DEF At
<1>1. ASSUME TypeOK, NEW p \in ScriptPhases, DeliverEvent(p) PROVE TypeOK'
  <2>1. eventQueue' \in Seq(Event)
    BY <1>1, RemoveAtKeepsOrder DEF DeliverEvent, Deliverable, TypeOK, QueueTypeOK
  <2>2. Call \/ Return
    BY <1>1 DEF DeliverEvent
  <2>3. stack' \in Seq(Frame)
    BY <1>1, <2>2, FrameType DEF DeliverEvent
  <2>4. QueueTypeOK'
    BY <1>1, <2>1 DEF DeliverEvent, TypeOK, QueueTypeOK, seqVars, objVars
  <2> QED
    BY <1>1, <2>3, <2>4 DEF DeliverEvent, TypeOK, WindowTypeOK, ContinuousTypeOK,
                            winVars, contVars
<1>2. ASSUME TypeOK, NEW p \in ScriptPhases, EndLoop(p) PROVE TypeOK'
  <2>1. AfterLoop(p) \in Phases
    BY DEF AfterLoop, ScriptPhases, Phases
  <2> QED
    BY <1>2, <2>1, QuietType DEF EndLoop
<1>3. ASSUME TypeOK, DeliverInput PROVE TypeOK'
  <2>1. inputQueue' \in Seq(InputEvent)
    BY <1>3 DEF DeliverInput, TypeOK, QueueTypeOK
  <2>2. stack' \in Seq(Frame)
    BY <1>3, FrameType DEF DeliverInput
  <2> QED
    BY <1>3, <2>1, <2>2 DEF DeliverInput, TypeOK, QueueTypeOK, WindowTypeOK,
                            ContinuousTypeOK, seqVars, objVars, winVars, contVars
<1>4. ASSUME TypeOK, EndInput PROVE TypeOK'
  <2>1. "normal" \in Phases
    BY DEF Phases, ScriptPhases
  <2> QED
    BY <1>4, <2>1, QuietType DEF EndInput
<1>5. ASSUME TypeOK, AfterScriptPass PROVE TypeOK'
  <2>1. "finish" \in Phases /\ "idle" \in Phases
    BY DEF Phases, ScriptPhases
  <2>2. stack' \in Seq(Frame)
    BY <1>5, <2>1, FrameType DEF AfterScriptPass
  <2>3. eventInterrupting' \in BOOLEAN
    BY <1>5 DEF AfterScriptPass
  <2> QED
    BY <1>5, <2>2, <2>3 DEF AfterScriptPass, TypeOK, QueueTypeOK, WindowTypeOK,
                            ContinuousTypeOK, objVars, winVars, contVars
<1>6. ASSUME TypeOK, EndPass PROVE TypeOK'
  <2>1. stack' \in Seq(Frame)
    BY <1>6, FrameType DEF EndPass
  <2>2. seqNumber' \in Nat
    BY <1>6 DEF EndPass, TypeOK, QueueTypeOK
  <2> QED
    BY <1>6, <2>1, <2>2 DEF EndPass, TypeOK, QueueTypeOK, WindowTypeOK,
                            ContinuousTypeOK, objVars, winVars, contVars
<1> QED
  BY <1>1, <1>2, <1>3, <1>4, <1>5, <1>6

\* The delivery of continuous events keeps TypeOK.
LEMMA ContinuousStepsType ==
  TypeOK /\ (\/ BeginContinuous \/ CallHook \/ SkipHook \/ EndHooks
             \/ CallClosure \/ SkipClosure \/ EndClosures) => TypeOK'
<1> USE DEF At
<1>0. {"hooks", "closures", "window"} \subseteq Phases
  BY DEF Phases
<1>1. ASSUME TypeOK, BeginContinuous PROVE TypeOK'
  <2>1. stack' \in Seq(Frame)
    BY <1>0, <1>1, FrameType DEF BeginContinuous
  <2> QED
    BY <1>1, <2>1, QueueStutterType
       DEF BeginContinuous, TypeOK, WindowTypeOK, ContinuousTypeOK, winVars
<1>2. ASSUME TypeOK, CallHook \/ CallClosure \/ SkipClosure PROVE TypeOK'
  <2>1. Call \/ SkipCell
    BY <1>2 DEF CallHook, CallClosure, SkipClosure
  <2>2. Depth > 0 /\ UNCHANGED <<queueVars, objVars, winVars, contVars>>
    BY <1>2 DEF CallHook, CallClosure, SkipClosure
  <2> QED
    BY <1>2, <2>1, <2>2, QuietType
<1>3. ASSUME TypeOK, SkipHook PROVE TypeOK'
  <2>1. stack' \in Seq(Frame)
    BY <1>0, <1>3, FrameType DEF SkipHook
  <2> QED
    BY <1>3, <2>1, QueueStutterType
       DEF SkipHook, TypeOK, WindowTypeOK, ContinuousTypeOK, winVars
<1>4. ASSUME TypeOK, EndHooks PROVE TypeOK'
  <2>1. stack' \in Seq(Frame)
    BY <1>0, <1>4, FrameType DEF EndHooks
  <2>2. hooks' \in Seq(Hooks \cup {None})
    BY <1>4, ErasedKeepsOrder DEF EndHooks, TypeOK, ContinuousTypeOK
  <2> QED
    BY <1>4, <2>1, <2>2, QueueStutterType
       DEF EndHooks, TypeOK, WindowTypeOK, ContinuousTypeOK, winVars
<1>5. ASSUME TypeOK, EndClosures PROVE TypeOK'
  <2>1. stack' \in Seq(Frame)
    BY <1>0, <1>5, FrameType DEF EndClosures
  <2>2. closures' \in Seq(Closures \cup {None})
    BY <1>5, ErasedKeepsOrder DEF EndClosures, TypeOK, ContinuousTypeOK
  <2>3. contCalling' \in BOOLEAN
    BY <1>5 DEF EndClosures
  <2> QED
    BY <1>5, <2>1, <2>2, <2>3, QueueStutterType
       DEF EndClosures, TypeOK, WindowTypeOK, ContinuousTypeOK, winVars
<1> QED
  BY <1>1, <1>2, <1>3, <1>4, <1>5

\* The delivery of window updates keeps TypeOK.
LEMMA WindowLoopType ==
  TypeOK /\ (\/ BeginWindows
             \/ \E p \in {"windows", "update"} : UpdateContent(p) \/ EndWindows(p))
    => TypeOK'
<1> USE DEF At
<1>0. {"windows", "finish"} \subseteq Phases
  BY DEF Phases
<1>1. ASSUME TypeOK, BeginWindows PROVE TypeOK'
  <2>1. stack' \in Seq(Frame)
    BY <1>0, <1>1, FrameType DEF BeginWindows
  <2>2. WindowTypeOK'
    BY <1>1 DEF BeginWindows, StartWindowUpdates, TypeOK, WindowTypeOK, winVars
  <2> QED
    BY <1>1, <2>1, <2>2, QueueStutterType DEF BeginWindows, TypeOK, ContinuousTypeOK, contVars
<1>2. ASSUME TypeOK, NEW p, UpdateContent(p) PROVE TypeOK'
  <2>1. Call \/ NextCell
    BY <1>2 DEF UpdateContent
  <2> QED
    BY <1>2, <2>1, QuietType DEF UpdateContent
<1>3. ASSUME TypeOK, NEW p, EndWindows(p) PROVE TypeOK'
  <2>1. stack' \in Seq(Frame)
    BY <1>0, <1>3, FrameType DEF EndWindows
  <2>2. WindowTypeOK'
    BY <1>3, EmptySeq DEF EndWindows, EndWindowUpdates, WindowTypeOK
  <2> QED
    BY <1>3, <2>1, <2>2, QueueStutterType DEF EndWindows, TypeOK, ContinuousTypeOK, contVars
<1> QED
  BY <1>1, <1>2, <1>3

\* The ends of handlers.
LEMMA HandlerEndsType == TypeOK /\ HandlerEnds => TypeOK'
<1> USE DEF InHandler
<1>0. {"tail", "interrupt", "window", "continuous", "finish"} \subseteq Phases
  BY DEF Phases
<1>1. ASSUME TypeOK, ReturnPlain PROVE TypeOK'
  <2>1. Return \/ NextCell \/ Pop
    BY <1>1 DEF ReturnPlain
  <2> QED
    BY <1>1, <2>1, QuietType DEF ReturnPlain
<1>2. ASSUME TypeOK, ReturnInput PROVE TypeOK'
  <2>1. Goto("tail") \/ Return
    BY <1>2 DEF ReturnInput
  <2> QED
    BY <1>0, <1>2, <2>1, QuietType DEF ReturnInput
<1>3. ASSUME TypeOK, NEW i \in Nat, DropClosure(i) PROVE closures' \in Seq(Closures \cup {None})
  <2>1. closures \in Seq(Closures \cup {None})
    BY <1>3 DEF TypeOK, ContinuousTypeOK
  <2> DEFINE S == Closures \cup {None}
  <2>3. None \in S
    OBVIOUS
  <2> HIDE DEF S
  <2>4. closures \in [1 .. Len(closures) -> S]
    BY <2>1 DEF S
  <2>5. closures' = [closures EXCEPT ![i] = None]
    BY <1>3 DEF DropClosure
  <2>6. closures' = [j \in 1 .. Len(closures) |-> IF j = i THEN None ELSE closures[j]]
    BY <2>4, <2>5
  <2>2. closures' \in [1 .. Len(closures) -> Closures \cup {None}]
    BY <2>3, <2>4, <2>6 DEF S
  <2> QED
    BY <2>1, <2>2
<1>4. ASSUME TypeOK, Depth > 0 PROVE Top.idx \in Nat /\ Top.empties \in BOOLEAN
  BY <1>4, StackSteps DEF TypeOK, Frame
<1>5. ASSUME TypeOK, ReturnContinuous PROVE TypeOK'
  <2>1. PICK failed \in BOOLEAN :
          /\ DropClosure(Top.idx) \/ UNCHANGED closures
          /\ \/ Goto("window") /\ contProcessing' = FALSE
             \/ Loop(FALSE, Top.idx + 1, Top.empties \/ failed) /\ UNCHANGED contProcessing
    BY <1>5 DEF ReturnContinuous
  <2>2. Depth > 0
    BY <1>5 DEF ReturnContinuous
  <2>3. Top.idx + 1 \in Nat /\ (Top.empties \/ failed) \in BOOLEAN
    BY <1>4, <1>5, <2>2
  <2>4. stack' \in Seq(Frame)
    BY <1>0, <1>5, <2>1, <2>2, <2>3, FrameType, Zenon
  <2>5. closures' \in Seq(Closures \cup {None})
    BY <1>3, <1>4, <1>5, <2>1, <2>2 DEF TypeOK, ContinuousTypeOK
  <2> QED
    BY <1>5, <2>1, <2>4, <2>5, QueueStutterType
       DEF ReturnContinuous, TypeOK, WindowTypeOK, ContinuousTypeOK, winVars
<1>6. ASSUME TypeOK, ThrowInScriptPass PROVE TypeOK'
  <2>1. Goto("tail") \/ Goto("interrupt")
    BY <1>6 DEF ThrowInScriptPass
  <2>2. Depth > 0
    BY <1>6 DEF ThrowInScriptPass
  <2> QED
    BY <1>0, <1>6, <2>1, <2>2, QuietType DEF ThrowInScriptPass
<1>7. ASSUME TypeOK, ThrowIdle PROVE TypeOK'
  BY <1>0, <1>7, QuietType DEF ThrowIdle
<1>8. ASSUME TypeOK, ThrowContinuous PROVE TypeOK'
  <2>1. Depth > 0
    BY <1>8 DEF ThrowContinuous
  <2>2. stack' \in Seq(Frame)
    BY <1>0, <1>8, <2>1, FrameType DEF ThrowContinuous
  <2>3. closures' \in Seq(Closures \cup {None})
    BY <1>3, <1>4, <1>8, <2>1 DEF ThrowContinuous, TypeOK, ContinuousTypeOK
  <2> QED
    BY <1>8, <2>2, <2>3, QueueStutterType
       DEF ThrowContinuous, TypeOK, WindowTypeOK, ContinuousTypeOK, winVars
<1>9. ASSUME TypeOK, ThrowWindows PROVE TypeOK'
  <2>1. Depth > 0
    BY <1>9 DEF ThrowWindows
  <2>2. stack' \in Seq(Frame)
    BY <1>0, <1>9, <2>1, FrameType DEF ThrowWindows
  <2>3. WindowTypeOK'
    BY <1>9, EmptySeq DEF ThrowWindows, EndWindowUpdates, WindowTypeOK
  <2> QED
    BY <1>9, <2>2, <2>3, QueueStutterType DEF ThrowWindows, TypeOK, ContinuousTypeOK, contVars
<1>10. ASSUME TypeOK, EndInvalidateWindow PROVE TypeOK'
  <2>1. Depth > 0 /\ CancelAllOf(Top.win) /\ RemoveWindowUpdate(Top.win) /\ Pop
    BY <1>10 DEF EndInvalidateWindow
  <2>2. stack' \in Seq(Frame)
    BY <1>10, <2>1, FrameType
  <2>3. QueueTypeOK'
    BY <1>10, <2>1, CancelAllType DEF EndInvalidateWindow, TypeOK, QueueTypeOK
  <2>4. WindowTypeOK'
    BY <1>10, <2>1, WindowStepsType DEF TypeOK
  <2> QED
    BY <1>10, <2>2, <2>3, <2>4 DEF EndInvalidateWindow, TypeOK, ContinuousTypeOK, contVars
<1> QED
  BY <1>1, <1>2, <1>5, <1>6, <1>7, <1>8, <1>9, <1>10 DEF HandlerEnds

\* Every state the delivery of events reaches has the types of its queues,
\* flags and frames, whatever nests (TVPDeliverAllEvents and the operations
\* handlers use, EventIntf.cpp).
THEOREM TypeCorrect == Spec => []TypeOK
<1>1. Init => TypeOK
  <2> SUFFICES ASSUME Init PROVE TypeOK
    OBVIOUS
  <2>1. QueueTypeOK
    BY EmptySeq DEF Init, QueueInit, QueueTypeOK, Prios
  <2>2. WindowTypeOK
    BY EmptySeq DEF Init, WindowInit, WindowTypeOK
  <2>3. ContinuousTypeOK
    BY EmptySeq DEF Init, ContinuousInit, ContinuousTypeOK
  <2>4. stack \in Seq(Frame)
    BY EmptySeq DEF Init
  <2> QED
    BY <2>1, <2>2, <2>3, <2>4 DEF TypeOK
<1>2. TypeOK /\ [Next]_vars => TypeOK'
  <2>1. ASSUME TypeOK, Script PROVE TypeOK'
    BY <2>1, ScriptPostsType, ScriptCancelsType, ScriptInputType, ScriptWindowType,
       ScriptContinuousType, ScriptCallsType DEF Script
  <2>2. ASSUME TypeOK, Engine PROVE TypeOK'
    BY <2>2, PassType, ContinuousStepsType, WindowLoopType DEF Engine
  <2>3. ASSUME TypeOK, UNCHANGED vars PROVE TypeOK'
    BY <2>3, QueueStutterType DEF vars, TypeOK, WindowTypeOK, ContinuousTypeOK,
                                  winVars, contVars
  <2> QED
    BY <2>1, <2>2, <2>3, HandlerEndsType DEF Next
<1> QED
  BY <1>1, <1>2, PTL DEF Spec

-----------------------------------------------------------------------------
(* The steps that change the script event queue.                           *)

QueueKept == UNCHANGED <<eventQueue, cached, mode, alive>>

\* Script code that does not reach the script event queue, or the triggers.
LEMMA ScriptKeeps ==
  ASSUME Script
  PROVE  ScriptPosts \/ ScriptCancels \/ InvalidateWindow \/ QueueKept
BY Zenon DEF Script, ScriptInput, PostInputEvent, CancelInputEvents, ScriptRequestsUpdate,
       ScriptContinuous, PostImmediate, UpdateWindow, BeginPass, QueueKept, queueVars, objVars

\* The engine takes from the queue by delivering, and in no other way.
LEMMA EngineKeeps ==
  ASSUME Engine
  PROVE  (\E p \in ScriptPhases : DeliverEvent(p)) \/ QueueKept
BY DEF Engine, EndLoop, DeliverInput, EndInput, AfterScriptPass, EndPass,
       BeginContinuous, CallHook, SkipHook, EndHooks, CallClosure, SkipClosure, EndClosures,
       BeginWindows, UpdateContent, EndWindows, QueueKept, queueVars, objVars

\* The end of a handler leaves the queue alone, but for the finalizers'.
LEMMA HandlersKeep ==
  ASSUME HandlerEnds
  PROVE  EndInvalidateWindow \/ QueueKept
BY DEF HandlerEnds, ReturnPlain, ReturnInput, ReturnContinuous, ThrowInScriptPass,
       ThrowIdle, ThrowContinuous, ThrowWindows, QueueKept, queueVars, objVars

-----------------------------------------------------------------------------
(* Order.                                                                  *)

Ordered(q, n) ==
  /\ \A i, j \in DOMAIN q : i <= j => q[i].seq <= q[j].seq
  /\ \A i \in DOMAIN q : q[i].seq <= n

\* Erasing keeps a sequence ordered.
LEMMA ErasedOrdered ==
  ASSUME NEW q \in Seq(Event), NEW n \in Nat, Ordered(q, n), NEW gone, NEW r \in Erased(q, gone)
  PROVE  r \in Seq(Event) /\ Ordered(r, n)
<1>1. r \in Seq(Event)
  BY ErasedKeepsOrder
<1>2. PICK f \in [1 .. Len(r) -> DOMAIN q \ gone] :
        /\ \A i \in 1 .. Len(r) : r[i] = q[f[i]]
        /\ \A i, j \in 1 .. Len(r) : i < j => f[i] < f[j]
  BY ErasedKeepsOrder
<1>3. ASSUME NEW i \in DOMAIN r, NEW j \in DOMAIN r, i <= j
      PROVE  r[i].seq <= r[j].seq /\ r[i].seq <= n
  <2>1. i \in 1 .. Len(r) /\ j \in 1 .. Len(r)
    BY <1>1
  <2>2. f[i] \in DOMAIN q /\ f[j] \in DOMAIN q /\ f[i] \in Int /\ f[j] \in Int
    BY <1>2, <2>1
  <2>3. f[i] <= f[j]
    <3>1. CASE i = j
      BY <3>1, <2>2
    <3>2. CASE i # j
      BY <3>2, <1>2, <1>3, <2>1, <2>2
    <3> QED
      BY <3>1, <3>2
  <2> QED
    BY <1>2, <2>1, <2>2, <2>3 DEF Ordered
<1>4. \A i \in DOMAIN r : r[i].seq <= n
  <2> SUFFICES ASSUME NEW i \in DOMAIN r
               PROVE  r[i].seq <= n
    OBVIOUS
  <2>1. i <= i
    BY <1>1
  <2> QED
    BY <1>3, <2>1
<1>5. \A i, j \in DOMAIN r : i <= j => r[i].seq <= r[j].seq
  BY <1>3
<1> QED
  BY <1>1, <1>4, <1>5 DEF Ordered

\* So does appending an event with the current number.
LEMMA EnqueueOrdered ==
  ASSUME eventQueue \in Seq(Event), seqNumber \in Nat, Ordered(eventQueue, seqNumber),
         NEW gone, NEW s \in Objects, NEW m \in Names, NEW prio \in Prios,
         Enqueue(gone, s, m, prio)
  PROVE  Ordered(eventQueue', seqNumber)
<1> DEFINE e == [src |-> s, name |-> m, prio |-> prio, seq |-> seqNumber]
<1>1. PICK r \in Erased(eventQueue, gone) : eventQueue' = Append(r, e)
  BY DEF Enqueue
<1>2. r \in Seq(Event) /\ Ordered(r, seqNumber)
  BY <1>1, ErasedOrdered
<1>3. e.seq = seqNumber /\ e \in Event
  BY DEF Event
<1> HIDE DEF e
<1>4. /\ Len(eventQueue') = Len(r) + 1 /\ Len(r) \in Nat
      /\ \A i \in 1 .. Len(r) : eventQueue'[i] = r[i]
      /\ eventQueue'[Len(r) + 1] = e
      /\ DOMAIN eventQueue' = 1 .. Len(r) + 1
  BY <1>1, <1>2, <1>3
<1>5. \A i \in 1 .. Len(r) : r[i] \in Event /\ r[i].seq \in Nat
  <2>1. \A i \in 1 .. Len(r) : r[i] \in Event
    BY <1>2
  <2> QED
    BY <2>1 DEF Event
<1>6. ASSUME NEW i \in 1 .. Len(r) + 1, NEW j \in 1 .. Len(r) + 1, i <= j
      PROVE  eventQueue'[i].seq <= eventQueue'[j].seq /\ eventQueue'[i].seq <= seqNumber
  <2>1. CASE j = Len(r) + 1 /\ i = j
    BY <1>3, <1>4, <2>1
  <2>2. CASE j = Len(r) + 1 /\ i # j
    <3>1. i \in 1 .. Len(r)
      BY <1>4, <2>2
    <3> QED
      BY <1>2, <1>3, <1>4, <2>2, <3>1 DEF Ordered
  <2>3. CASE j # Len(r) + 1
    <3>1. i \in 1 .. Len(r) /\ j \in 1 .. Len(r)
      BY <1>4, <1>6, <2>3
    <3> QED
      BY <1>2, <1>4, <1>6, <3>1 DEF Ordered
  <2> QED
    BY <2>1, <2>2, <2>3
<1>7. \A i \in DOMAIN eventQueue' : eventQueue'[i].seq <= seqNumber
  <2> SUFFICES ASSUME NEW i \in 1 .. Len(r) + 1
               PROVE  eventQueue'[i].seq <= seqNumber
    BY <1>4
  <2>1. i <= i
    OBVIOUS
  <2> QED
    BY <1>6, <2>1
<1>8. \A i, j \in DOMAIN eventQueue' : i <= j => eventQueue'[i].seq <= eventQueue'[j].seq
  BY <1>4, <1>6
<1> QED
  BY <1>7, <1>8 DEF Ordered

\* So does taking an event away.
LEMMA RemoveOrdered ==
  ASSUME NEW q \in Seq(Event), NEW n \in Nat, Ordered(q, n), NEW k \in DOMAIN q
  PROVE  Ordered(RemoveAt(q, k), n)
<1> DEFINE r == RemoveAt(q, k)
<1>1. /\ r \in Seq(Event) /\ Len(r) = Len(q) - 1
      /\ \A i \in 1 .. Len(q) - 1 : r[i] = IF i < k THEN q[i] ELSE q[i + 1]
  BY RemoveAtKeepsOrder
<1> HIDE DEF r
<1>2. DOMAIN r = 1 .. Len(q) - 1 /\ DOMAIN q = 1 .. Len(q) /\ Len(q) \in Nat /\ k \in Int
  BY <1>1
<1>3. ASSUME NEW i \in 1 .. Len(q) - 1, NEW j \in 1 .. Len(q) - 1, i <= j
      PROVE  r[i].seq <= r[j].seq /\ r[i].seq <= n
  <2>1. PICK a \in 1 .. Len(q), b \in 1 .. Len(q) : a <= b /\ r[i] = q[a] /\ r[j] = q[b]
    <3>1. CASE i < k /\ j < k
      BY <1>1, <1>2, <1>3, <3>1
    <3>2. CASE i < k /\ ~(j < k)
      BY <1>1, <1>2, <1>3, <3>2
    <3>3. CASE ~(i < k)
      BY <1>1, <1>2, <1>3, <3>3
    <3> QED
      BY <3>1, <3>2, <3>3
  <2> QED
    BY <1>2, <2>1 DEF Ordered
<1>4. \A i \in DOMAIN r : r[i].seq <= n
  <2> SUFFICES ASSUME NEW i \in 1 .. Len(q) - 1
               PROVE  r[i].seq <= n
    BY <1>2
  <2>1. i <= i
    OBVIOUS
  <2> QED
    BY <1>3, <2>1
<1>5. \A i, j \in DOMAIN r : i <= j => r[i].seq <= r[j].seq
  BY <1>2, <1>3
<1>6. Ordered(r, n)
  BY <1>4, <1>5 DEF Ordered
<1> QED
  BY <1>6 DEF r

\* Only the beginning and the end of a pass change the sequence number.
LEMMA SequenceSteps ==
  ASSUME Next
  PROVE  BeginPass \/ EndPass \/ UNCHANGED seqNumber
<1>1. ASSUME Script PROVE BeginPass \/ UNCHANGED seqNumber
  <2>1. ScriptPosts => UNCHANGED seqNumber
    BY Zenon DEF ScriptPosts, PostEvent, Enqueue, Trigger, queueVars, seqVars
  <2>2. ScriptCancels => UNCHANGED seqNumber
    BY Zenon DEF ScriptCancels, CancelEvents, CancelTrigger, CancelSourceEvents, SetCached,
           SetMode, InvalidateObject, seqVars
  <2>3. ScriptInput \/ InvalidateWindow => UNCHANGED seqNumber
    BY DEF ScriptInput, PostInputEvent, CancelInputEvents, InvalidateWindow, CancelAllOf, seqVars
  <2> QED
    BY <1>1, <2>1, <2>2, <2>3
       DEF Script, ScriptRequestsUpdate, ScriptContinuous, PostImmediate, UpdateWindow,
           queueVars, seqVars
<1>2. ASSUME Engine PROVE EndPass \/ UNCHANGED seqNumber
  BY <1>2 DEF Engine, DeliverEvent, EndLoop, DeliverInput, EndInput, AfterScriptPass,
              BeginContinuous, CallHook, SkipHook, EndHooks, CallClosure, SkipClosure,
              EndClosures, BeginWindows, UpdateContent, EndWindows, queueVars, seqVars
<1>3. ASSUME HandlerEnds PROVE UNCHANGED seqNumber
  BY <1>3 DEF HandlerEnds, ReturnPlain, ReturnInput, ReturnContinuous, ThrowInScriptPass,
              ThrowIdle, ThrowContinuous, ThrowWindows, EndInvalidateWindow, CancelAllOf,
              queueVars, seqVars
<1> QED
  BY <1>1, <1>2, <1>3 DEF Next

\* Script code that posts keeps the queue ordered.
LEMMA PostsOrdered ==
  ASSUME TypeOK, QueueOrdered, ScriptPosts
  PROVE  Ordered(eventQueue', seqNumber)
<1>1. /\ eventQueue \in Seq(Event) /\ seqNumber \in Nat /\ Ordered(eventQueue, seqNumber)
      /\ alive \subseteq Objects /\ mode \in [Triggers -> Prios]
  BY DEF TypeOK, QueueTypeOK, QueueOrdered, Ordered
<1>2. ASSUME NEW s \in alive \ Triggers, NEW n \in Names, NEW p \in Prios,
             NEW d \in BOOLEAN, NEW N \in SUBSET Names, PostEvent(s, n, p, d, N)
      PROVE  Ordered(eventQueue', seqNumber)
  <2>1. CASE UNCHANGED queueVars
    BY <1>1, <2>1 DEF queueVars
  <2>2. CASE Enqueue(Matching(s, N), s, n, p)
    BY <1>1, <2>2, EnqueueOrdered
  <2> QED
    BY <1>2, <2>1, <2>2 DEF PostEvent
<1>3. ASSUME NEW t \in Triggers, NEW n \in Names, Trigger(t, n)
      PROVE  Ordered(eventQueue', seqNumber)
  <2>1. \E gone : Enqueue(gone, t, n, mode[t])
    BY <1>3 DEF Trigger
  <2>2. t \in Objects /\ mode[t] \in Prios
    BY <1>1, TypesAssumption
  <2> QED
    BY <1>1, <2>1, <2>2, EnqueueOrdered
<1> QED
  BY <1>2, <1>3 DEF ScriptPosts

\* Cancelling and invalidating erase, and do nothing else to the queue.
LEMMA CancelsErase ==
  ASSUME ScriptCancels \/ InvalidateWindow \/ EndInvalidateWindow
  PROVE  \E gone : eventQueue' \in Erased(eventQueue, gone)
BY Zenon DEF ScriptCancels, CancelEvents, CancelTrigger, CancelSourceEvents, SetCached, SetMode,
       InvalidateObject, InvalidateWindow, EndInvalidateWindow, CancelAllOf

\* No step disturbs the order of the queue.
LEMMA OrderedStep ==
  ASSUME TypeOK, QueueOrdered, [Next]_vars
  PROVE  QueueOrdered'
<1>1. eventQueue \in Seq(Event) /\ seqNumber \in Nat /\ Ordered(eventQueue, seqNumber)
  BY DEF TypeOK, QueueTypeOK, QueueOrdered, Ordered
<1>2. SUFFICES Ordered(eventQueue', seqNumber')
  BY DEF QueueOrdered, Ordered
<1>3. CASE BeginPass
  <2>1. eventQueue' = eventQueue /\ seqNumber' \in {seqNumber, seqNumber + 1}
    BY <1>3 DEF BeginPass
  <2>2. \A i \in DOMAIN eventQueue : eventQueue[i].seq \in Nat
    <3>1. \A i \in DOMAIN eventQueue : eventQueue[i] \in Event
      BY <1>1
    <3> QED
      BY <3>1 DEF Event
  <2> QED
    BY <1>1, <2>1, <2>2 DEF Ordered
<1>4. CASE EndPass
  <2>1. eventQueue' = eventQueue /\ (eventQueue = <<>> \/ seqNumber' = seqNumber)
    BY <1>4 DEF EndPass
  <2>2. Ordered(<<>>, seqNumber')
    BY DEF Ordered
  <2> QED
    BY <1>1, <2>1, <2>2
<1>5. CASE UNCHANGED vars
  BY <1>1, <1>5 DEF vars, queueVars, seqVars
<1>6. CASE Next /\ UNCHANGED seqNumber
  <2>1. CASE ScriptPosts
    BY <1>6, <2>1, PostsOrdered
  <2>2. CASE ScriptCancels \/ InvalidateWindow \/ EndInvalidateWindow
    BY <1>1, <1>6, <2>2, CancelsErase, ErasedOrdered
  <2>3. CASE \E p \in ScriptPhases : DeliverEvent(p)
    <3>1. \E i \in DOMAIN eventQueue : eventQueue' = RemoveAt(eventQueue, i)
      BY <2>3 DEF DeliverEvent, Deliverable
    <3> QED
      BY <1>1, <1>6, <3>1, RemoveOrdered
  <2>4. CASE QueueKept
    BY <1>1, <1>6, <2>4 DEF QueueKept
  <2> QED
    BY <1>6, <2>1, <2>2, <2>3, <2>4, ScriptKeeps, EngineKeeps, HandlersKeep DEF Next
<1> QED
  BY <1>3, <1>4, <1>5, <1>6, SequenceSteps

\* The script event queue is always in the order of its sequence numbers, and
\* the current number is never behind them, although the end of any pass, at
\* any depth, may reset it (TVPDeliverAllEvents, EventIntf.cpp:645-648).
THEOREM QueueStaysOrdered == Spec => []QueueOrdered
<1>1. Init => QueueOrdered
  BY DEF Init, QueueInit, QueueOrdered
<1>2. TypeOK /\ QueueOrdered /\ [Next]_vars => QueueOrdered'
  BY OrderedStep
<1> QED
  BY <1>1, <1>2, TypeCorrect, PTL DEF Spec

-----------------------------------------------------------------------------
(* Delivery in order.                                                      *)

\* The only step from the loop of priority p into its handler is a delivery.
LEMMA HandlerIsEntered ==
  ASSUME TypeOK, [Next]_vars, NEW p \in ScriptPhases, At(p), InHandler(p)', Depth' = Depth
  PROVE  DeliverEvent(p)
<1>1. stack \in Seq(Frame) /\ Depth > 0 /\ ~Top.running /\ Top.phase = p
  BY DEF TypeOK, At
<1>2. stack'[Depth].running
  BY DEF InHandler, Top
<1>3. ~ScriptRuns /\ ~HandlerEnds /\ ~UNCHANGED vars
  <2>1. ~HandlerEnds
    BY <1>1 DEF HandlerEnds, ReturnPlain, ReturnInput, ReturnContinuous, ThrowInScriptPass,
                ThrowIdle, ThrowContinuous, ThrowWindows, EndInvalidateWindow, InHandler
  <2> QED
    BY <1>1, <1>2, <2>1 DEF ScriptRuns, vars, Top, Depth
<1>4. Engine
  BY <1>3 DEF Next, Script
<1>5. \A q \in ScriptPhases : ~EndLoop(q)
  <2> SUFFICES ASSUME NEW q \in ScriptPhases, EndLoop(q) PROVE FALSE
    OBVIOUS
  <2>1. stack' = [stack EXCEPT ![Depth] = NewFrame(AfterLoop(q))]
    BY DEF EndLoop, Goto, SetTop
  <2>2. stack'[Depth] = NewFrame(AfterLoop(q))
    BY <1>1, <2>1 DEF Depth
  <2> QED
    BY <1>2, <2>2 DEF NewFrame, FrameOf
<1>6. Top.phase \in {"exclusive", "normal", "idle"}
  BY <1>1 DEF ScriptPhases
<1>7. \E q \in ScriptPhases : DeliverEvent(q)
  BY <1>4, <1>5, <1>6
     DEF Engine, At, DeliverInput, EndInput, AfterScriptPass, EndPass, BeginContinuous,
         CallHook, SkipHook, EndHooks, CallClosure, SkipClosure, EndClosures, BeginWindows,
         UpdateContent, EndWindows
<1> QED
  BY <1>1, <1>7 DEF DeliverEvent, At

\* In an ordered queue, what a delivery takes is the first of its priority.
LEMMA DeliveryTakesFirst ==
  ASSUME TypeOK, QueueOrdered, NEW p \in ScriptPhases, DeliverEvent(p)
  PROVE  \E i \in DOMAIN eventQueue :
           /\ eventQueue[i].prio = p
           /\ eventQueue' = RemoveAt(eventQueue, i)
           /\ \A j \in 1 .. i - 1 : eventQueue[j].prio # p
<1>1. eventQueue \in Seq(Event) /\ seqToProcess \in Nat
  BY DEF TypeOK, QueueTypeOK
<1>2. PICK i \in Deliverable(p) :
        /\ \A j \in Deliverable(p) : i <= j
        /\ eventQueue' = RemoveAt(eventQueue, i)
  BY DEF DeliverEvent
<1>3. /\ i \in DOMAIN eventQueue /\ i \in 1 .. Len(eventQueue)
      /\ eventQueue[i].prio = p /\ eventQueue[i].seq <= seqToProcess
  BY <1>1, <1>2 DEF Deliverable
<1>4. \A j \in DOMAIN eventQueue : eventQueue[j].seq \in Nat
  <2>1. \A j \in DOMAIN eventQueue : eventQueue[j] \in Event
    BY <1>1
  <2> QED
    BY <2>1 DEF Event
<1>5. ASSUME NEW j \in 1 .. i - 1, eventQueue[j].prio = p
      PROVE  FALSE
  <2>1. j \in DOMAIN eventQueue /\ j < i
    BY <1>1, <1>3
  <2>2. eventQueue[j].seq <= eventQueue[i].seq
    BY <1>3, <2>1 DEF QueueOrdered
  <2>3. j \in Deliverable(p)
    BY <1>1, <1>3, <1>4, <1>5, <2>1, <2>2 DEF Deliverable
  <2> QED
    BY <1>2, <1>3, <2>1, <2>3
<1> QED
  BY <1>2, <1>3, <1>5

\* Events of one priority are delivered in the order of their posting, at any
\* depth of nesting (_TVPDeliverEventByPrio, EventIntf.cpp:478-510).
THEOREM DeliveryIsFifo == Spec => FifoDelivery
<1>1. TypeOK /\ QueueOrdered /\ [Next]_vars => DeliversInOrder
  BY HandlerIsEntered, DeliveryTakesFirst DEF DeliversInOrder
<1> QED
  BY <1>1, TypeCorrect, QueueStaysOrdered, PTL DEF Spec, FifoDelivery

-----------------------------------------------------------------------------
(* Triggers.                                                               *)

NoneOf(q, s) == \A i \in DOMAIN q : q[i].src # s

Consistent(q, c, m) ==
  \A t \in Triggers :
    /\ \A i \in DOMAIN q : q[i].src = t => q[i].prio = m[t]
    /\ c[t] => \A i, j \in DOMAIN q : q[i].src = t /\ q[j].src = t => i = j

\* Erasing keeps the triggers' events consistent.
LEMMA ErasedConsistent ==
  ASSUME NEW q \in Seq(Event), NEW c, NEW m, Consistent(q, c, m),
         NEW gone, NEW r \in Erased(q, gone)
  PROVE  r \in Seq(Event) /\ Consistent(r, c, m)
<1>1. r \in Seq(Event)
  BY ErasedKeepsOrder
<1>2. PICK f \in [1 .. Len(r) -> DOMAIN q \ gone] :
        /\ \A i \in 1 .. Len(r) : r[i] = q[f[i]]
        /\ \A i, j \in 1 .. Len(r) : i < j => f[i] < f[j]
  BY ErasedKeepsOrder
<1>3. /\ DOMAIN r = 1 .. Len(r) /\ DOMAIN q = 1 .. Len(q)
      /\ Len(r) \in Nat /\ Len(q) \in Nat
  BY <1>1
<1>4. ASSUME NEW t \in Triggers, NEW i \in DOMAIN r, r[i].src = t
      PROVE  r[i].prio = m[t]
  BY <1>2, <1>3, <1>4 DEF Consistent
<1>5. ASSUME NEW t \in Triggers, c[t], NEW i \in DOMAIN r, NEW j \in DOMAIN r,
             r[i].src = t, r[j].src = t
      PROVE  i = j
  <2>1. f[i] = f[j]
    BY <1>2, <1>3, <1>5 DEF Consistent
  <2>2. f[i] \in Int /\ f[j] \in Int
    BY <1>2, <1>3
  <2> QED
    BY <1>2, <1>3, <2>1, <2>2
<1> QED
  BY <1>1, <1>4, <1>5 DEF Consistent

\* Erasing all that matches an owner leaves none of its events.
LEMMA ErasedAll ==
  ASSUME eventQueue \in Seq(Event), NEW s, NEW r \in Erased(eventQueue, Matching(s, Names))
  PROVE  NoneOf(r, s)
<1>1. r \in Seq(Event)
  BY ErasedKeepsOrder
<1>2. PICK f \in [1 .. Len(r) -> DOMAIN eventQueue \ Matching(s, Names)] :
        \A i \in 1 .. Len(r) : r[i] = eventQueue[f[i]]
  BY ErasedKeepsOrder
<1>3. ASSUME NEW i \in DOMAIN r, r[i].src = s PROVE FALSE
  <2>1. i \in 1 .. Len(r) /\ f[i] \in DOMAIN eventQueue /\ f[i] \notin Matching(s, Names)
    BY <1>1, <1>2
  <2>2. eventQueue[f[i]] \in Event
    BY <2>1
  <2>3. eventQueue[f[i]].name \in Names
    BY <2>2 DEF Event
  <2> QED
    BY <1>2, <1>3, <2>1, <2>3 DEF Matching
<1> QED
  BY <1>3 DEF NoneOf

\* Appending an event that is nobody's trigger, or the only one of a trigger
\* that is cached, with the trigger's mode.
LEMMA AppendConsistent ==
  ASSUME NEW r \in Seq(Event), NEW c, NEW m, Consistent(r, c, m), NEW e \in Event,
         e.src \in Triggers => e.prio = m[e.src] /\ (c[e.src] => NoneOf(r, e.src))
  PROVE  Consistent(Append(r, e), c, m)
<1> DEFINE a == Append(r, e)
<1>1. /\ DOMAIN a = 1 .. Len(r) + 1 /\ Len(r) \in Nat /\ DOMAIN r = 1 .. Len(r)
      /\ \A i \in 1 .. Len(r) : a[i] = r[i]
      /\ a[Len(r) + 1] = e
  OBVIOUS
<1> HIDE DEF a
<1>2. \A i \in DOMAIN a : i \in DOMAIN r \/ i = Len(r) + 1
  BY <1>1
<1>3. ASSUME NEW t \in Triggers, NEW i \in DOMAIN a, a[i].src = t
      PROVE  a[i].prio = m[t]
  BY <1>1, <1>2, <1>3 DEF Consistent
<1>4. ASSUME NEW t \in Triggers, c[t], NEW i \in DOMAIN a, NEW j \in DOMAIN a,
             a[i].src = t, a[j].src = t
      PROVE  i = j
  <2>1. CASE e.src = t
    BY <1>1, <1>2, <1>4, <2>1 DEF NoneOf
  <2>2. CASE e.src # t
    BY <1>1, <1>2, <1>4, <2>2 DEF Consistent
  <2> QED
    BY <2>1, <2>2
<1>5. Consistent(a, c, m)
  BY <1>3, <1>4 DEF Consistent
<1> QED
  BY <1>5 DEF a

\* Taking an event away.
LEMMA RemoveConsistent ==
  ASSUME NEW q \in Seq(Event), NEW c, NEW m, Consistent(q, c, m), NEW k \in DOMAIN q
  PROVE  Consistent(RemoveAt(q, k), c, m)
<1> DEFINE r == RemoveAt(q, k)
<1>1. /\ r \in Seq(Event) /\ Len(r) = Len(q) - 1
      /\ \A i \in 1 .. Len(q) - 1 : r[i] = IF i < k THEN q[i] ELSE q[i + 1]
  BY RemoveAtKeepsOrder
<1> HIDE DEF r
<1>2. /\ DOMAIN r = 1 .. Len(q) - 1 /\ DOMAIN q = 1 .. Len(q)
      /\ Len(q) \in Nat /\ k \in Int
  BY <1>1
<1> DEFINE from(i) == IF i < k THEN i ELSE i + 1
<1>3. \A i \in DOMAIN r : from(i) \in DOMAIN q /\ r[i] = q[from(i)]
  BY <1>1, <1>2
<1>4. \A i, j \in DOMAIN r : from(i) = from(j) => i = j
  BY <1>2
<1> HIDE DEF from
<1>5. Consistent(r, c, m)
  BY <1>3, <1>4 DEF Consistent
<1> QED
  BY <1>5 DEF r

\* A trigger whose events are all erased may change its settings.
LEMMA ChangeConsistent ==
  ASSUME NEW r \in Seq(Event), NEW c, NEW m, NEW c2, NEW m2, Consistent(r, c, m),
         NEW t \in Triggers, NoneOf(r, t),
         \A u \in Triggers \ {t} : c2[u] = c[u] /\ m2[u] = m[u]
  PROVE  Consistent(r, c2, m2)
<1>1. ASSUME NEW u \in Triggers
      PROVE  /\ \A i \in DOMAIN r : r[i].src = u => r[i].prio = m2[u]
             /\ c2[u] => \A i, j \in DOMAIN r : r[i].src = u /\ r[j].src = u => i = j
  <2>1. CASE u = t
    BY <2>1 DEF NoneOf
  <2>2. CASE u # t
    BY <2>2 DEF Consistent
  <2> QED
    BY <2>1, <2>2
<1> QED
  BY <1>1 DEF Consistent

\* Script code that posts keeps the triggers consistent.
LEMMA PostsConsistent ==
  ASSUME TypeOK, TriggerConsistent, ScriptPosts
  PROVE  TriggerConsistent'
<1>1. /\ eventQueue \in Seq(Event) /\ seqNumber \in Nat
      /\ alive \subseteq Objects /\ mode \in [Triggers -> Prios]
      /\ Consistent(eventQueue, cached, mode)
  BY DEF TypeOK, QueueTypeOK, TriggerConsistent, Consistent
<1>2. UNCHANGED objVars
  BY DEF ScriptPosts, Trigger
<1>3. SUFFICES Consistent(eventQueue', cached, mode)
  BY <1>2 DEF TriggerConsistent, Consistent, objVars
<1>4. ASSUME NEW s \in alive \ Triggers, NEW n \in Names, NEW p \in Prios,
             NEW d \in BOOLEAN, NEW N \in SUBSET Names, PostEvent(s, n, p, d, N)
      PROVE  Consistent(eventQueue', cached, mode)
  <2>1. CASE UNCHANGED queueVars
    BY <1>1, <2>1 DEF queueVars
  <2>2. CASE Enqueue(Matching(s, N), s, n, p)
    <3> DEFINE e == [src |-> s, name |-> n, prio |-> p, seq |-> seqNumber]
    <3>1. e \in Event /\ e.src \notin Triggers
      BY <1>1 DEF Event
    <3>2. PICK r \in Erased(eventQueue, Matching(s, N)) : eventQueue' = Append(r, e)
      BY <2>2 DEF Enqueue
    <3>3. r \in Seq(Event) /\ Consistent(r, cached, mode)
      BY <1>1, <3>2, ErasedConsistent
    <3> QED
      BY <3>1, <3>2, <3>3, AppendConsistent
  <2> QED
    BY <1>4, <2>1, <2>2 DEF PostEvent
<1>5. ASSUME NEW t \in Triggers, NEW n \in Names, Trigger(t, n)
      PROVE  Consistent(eventQueue', cached, mode)
  <2> DEFINE e == [src |-> t, name |-> n, prio |-> mode[t], seq |-> seqNumber]
             gone == IF cached[t] THEN Matching(t, Names) ELSE {}
  <2>1. e \in Event /\ e.src = t /\ e.prio = mode[t]
    BY <1>1, TypesAssumption DEF Event
  <2>2. PICK r \in Erased(eventQueue, gone) : eventQueue' = Append(r, e)
    BY <1>5 DEF Trigger, Enqueue
  <2>3. r \in Seq(Event) /\ Consistent(r, cached, mode)
    BY <1>1, <2>2, ErasedConsistent
  <2>4. cached[t] => NoneOf(r, t)
    BY <1>1, <2>2, ErasedAll
  <2> HIDE DEF e
  <2> QED
    BY <2>1, <2>2, <2>3, <2>4, AppendConsistent
<1> QED
  BY <1>4, <1>5 DEF ScriptPosts

\* So do cancellations and the changes of cached and mode.
LEMMA CancelsConsistent ==
  ASSUME TypeOK, TriggerConsistent, ScriptCancels
  PROVE  TriggerConsistent'
<1>1. /\ eventQueue \in Seq(Event)
      /\ cached \in [Triggers -> BOOLEAN] /\ mode \in [Triggers -> Prios]
      /\ Consistent(eventQueue, cached, mode)
  BY DEF TypeOK, QueueTypeOK, TriggerConsistent, Consistent
<1>2. SUFFICES Consistent(eventQueue', cached', mode')
  BY DEF TriggerConsistent, Consistent
<1>3. ASSUME NEW t \in Triggers, NEW b \in BOOLEAN, SetCached(t, b)
      PROVE  Consistent(eventQueue', cached', mode')
  <2>1. /\ eventQueue' \in Erased(eventQueue, Matching(t, Names)) /\ mode' = mode
        /\ \A u \in Triggers \ {t} : cached'[u] = cached[u]
    BY <1>1, <1>3 DEF SetCached, CancelSourceEvents, CancelEvents
  <2> QED
    BY <1>1, <2>1, ErasedConsistent, ErasedAll, ChangeConsistent
<1>4. ASSUME NEW t \in Triggers, NEW m \in Prios, SetMode(t, m)
      PROVE  Consistent(eventQueue', cached', mode')
  <2>1. /\ eventQueue' \in Erased(eventQueue, Matching(t, Names)) /\ cached' = cached
        /\ \A u \in Triggers \ {t} : mode'[u] = mode[u]
    BY <1>1, <1>4 DEF SetMode, CancelSourceEvents, CancelEvents
  <2> QED
    BY <1>1, <2>1, ErasedConsistent, ErasedAll, ChangeConsistent
<1>5. CASE UNCHANGED <<cached, mode>>
  <2>1. \E gone : eventQueue' \in Erased(eventQueue, gone)
    BY CancelsErase
  <2> QED
    BY <1>1, <1>5, <2>1, ErasedConsistent
<1> QED
  BY <1>3, <1>4, <1>5 DEF ScriptCancels, CancelTrigger, InvalidateObject, objVars

\* An AsyncTrigger has all its queued events of its current mode, and at most
\* one while it is cached, whatever nests (EventIntf.cpp:1216-1272).
THEOREM TriggersStayConsistent == Spec => []TriggerConsistent
<1>1. Init => TriggerConsistent
  BY DEF Init, QueueInit, TriggerConsistent
<1>2. TypeOK /\ TriggerConsistent /\ [Next]_vars => TriggerConsistent'
  <2> SUFFICES ASSUME TypeOK, TriggerConsistent, [Next]_vars PROVE TriggerConsistent'
    OBVIOUS
  <2>1. eventQueue \in Seq(Event) /\ Consistent(eventQueue, cached, mode)
    BY DEF TypeOK, QueueTypeOK, TriggerConsistent, Consistent
  <2>2. ASSUME Consistent(eventQueue', cached, mode), UNCHANGED <<cached, mode>>
        PROVE  TriggerConsistent'
    BY <2>2 DEF TriggerConsistent, Consistent
  <2>3. CASE InvalidateWindow \/ EndInvalidateWindow
    <3>1. UNCHANGED <<cached, mode>>
      BY <2>3 DEF InvalidateWindow, EndInvalidateWindow, objVars
    <3> QED
      BY <2>1, <2>2, <2>3, <3>1, CancelsErase, ErasedConsistent
  <2>4. CASE \E p \in ScriptPhases : DeliverEvent(p)
    <3>1. /\ \E i \in DOMAIN eventQueue : eventQueue' = RemoveAt(eventQueue, i)
          /\ UNCHANGED <<cached, mode>>
      BY <2>4 DEF DeliverEvent, Deliverable, objVars
    <3> QED
      BY <2>1, <2>2, <3>1, RemoveConsistent
  <2>5. CASE QueueKept \/ UNCHANGED vars
    BY <2>1, <2>2, <2>5 DEF QueueKept, vars, queueVars, objVars
  <2> QED
    BY <2>3, <2>4, <2>5, PostsConsistent, CancelsConsistent, ScriptKeeps, EngineKeeps,
       HandlersKeep DEF Next
<1> QED
  BY <1>1, <1>2, TypeCorrect, PTL DEF Spec

-----------------------------------------------------------------------------
(* Nothing of the dead.                                                    *)

OwnedBy(q, A) == \A i \in DOMAIN q : q[i].src \in A

\* Erasing adds no owner.
LEMMA ErasedOwned ==
  ASSUME NEW S, NEW q \in Seq(S), NEW A, OwnedBy(q, A), NEW gone, NEW r \in Erased(q, gone)
  PROVE  r \in Seq(S) /\ OwnedBy(r, A)
<1>1. r \in Seq(S)
  BY ErasedKeepsOrder
<1>2. PICK f \in [1 .. Len(r) -> DOMAIN q \ gone] : \A i \in 1 .. Len(r) : r[i] = q[f[i]]
  BY ErasedKeepsOrder
<1>3. \A i \in DOMAIN r : r[i].src \in A
  BY <1>1, <1>2 DEF OwnedBy
<1> QED
  BY <1>1, <1>3 DEF OwnedBy

\* Appending adds the owner of what is appended.
LEMMA AppendOwned ==
  ASSUME NEW S, NEW r \in Seq(S), NEW A, OwnedBy(r, A), NEW e \in S, e.src \in A
  PROVE  OwnedBy(Append(r, e), A)
<1>1. /\ DOMAIN Append(r, e) = 1 .. Len(r) + 1 /\ Len(r) \in Nat /\ DOMAIN r = 1 .. Len(r)
      /\ \A i \in 1 .. Len(r) : Append(r, e)[i] = r[i]
      /\ Append(r, e)[Len(r) + 1] = e
  OBVIOUS
<1>2. ASSUME NEW i \in DOMAIN Append(r, e) PROVE Append(r, e)[i].src \in A
  <2>1. CASE i \in 1 .. Len(r)
    BY <1>1, <2>1 DEF OwnedBy
  <2>2. CASE i = Len(r) + 1
    BY <1>1, <2>2
  <2> QED
    BY <1>1, <1>2, <2>1, <2>2
<1> QED
  BY <1>2 DEF OwnedBy

\* Taking an element away adds no owner.
LEMMA RemoveOwned ==
  ASSUME NEW S, NEW q \in Seq(S), NEW A, OwnedBy(q, A), NEW k \in DOMAIN q
  PROVE  OwnedBy(RemoveAt(q, k), A)
<1> DEFINE r == RemoveAt(q, k)
<1>1. r \in Seq(S) /\ Len(r) = Len(q) - 1
  BY RemoveAtKeepsOrder
<1>2. \A i \in 1 .. Len(q) - 1 : r[i] = IF i < k THEN q[i] ELSE q[i + 1]
  BY RemoveAtKeepsOrder
<1> HIDE DEF r
<1>3. /\ DOMAIN r = 1 .. Len(q) - 1 /\ DOMAIN q = 1 .. Len(q)
      /\ Len(q) \in Nat /\ k \in Int
  BY <1>1
<1>4. ASSUME NEW i \in DOMAIN r PROVE r[i].src \in A
  <2>1. CASE i < k
    BY <1>2, <1>3, <2>1 DEF OwnedBy
  <2>2. CASE ~(i < k)
    BY <1>2, <1>3, <2>2 DEF OwnedBy
  <2> QED
    BY <2>1, <2>2
<1>5. OwnedBy(r, A)
  BY <1>4 DEF OwnedBy
<1> QED
  BY <1>5 DEF r

\* Erasing all input that matches a window leaves none of its events.
LEMMA ErasedAllInput ==
  ASSUME inputQueue \in Seq(InputEvent), NEW w,
         NEW r \in Erased(inputQueue, InputMatching(w, InputTags))
  PROVE  NoneOf(r, w)
<1>1. r \in Seq(InputEvent)
  BY ErasedKeepsOrder
<1>2. PICK f \in [1 .. Len(r) -> DOMAIN inputQueue \ InputMatching(w, InputTags)] :
        \A i \in 1 .. Len(r) : r[i] = inputQueue[f[i]]
  BY ErasedKeepsOrder
<1>3. ASSUME NEW i \in DOMAIN r, r[i].src = w PROVE FALSE
  <2>1. i \in 1 .. Len(r) /\ f[i] \in DOMAIN inputQueue /\ f[i] \notin InputMatching(w, InputTags)
    BY <1>1, <1>2
  <2>2. inputQueue[f[i]] \in InputEvent
    BY <2>1
  <2>3. inputQueue[f[i]].tag \in InputTags
    BY <2>2 DEF InputEvent
  <2> QED
    BY <1>2, <1>3, <2>1, <2>3 DEF InputMatching
<1> QED
  BY <1>3 DEF NoneOf

\* The three queues own only live objects.
EventsAlive  == OwnedBy(eventQueue, alive)
InputAlive   == OwnedBy(inputQueue, alive)
UpdatesAlive == \A i \in DOMAIN winUpdateQueue : winUpdateQueue[i] \in alive \cup {None}

\* Script code that posts owns what it posts.
LEMMA PostsAlive ==
  ASSUME TypeOK, EventsAlive, ScriptPosts
  PROVE  EventsAlive'
<1>1. /\ eventQueue \in Seq(Event) /\ seqNumber \in Nat
      /\ alive \subseteq Objects /\ mode \in [Triggers -> Prios]
      /\ OwnedBy(eventQueue, alive)
  BY DEF TypeOK, QueueTypeOK, EventsAlive
<1>2. alive' = alive
  BY DEF ScriptPosts, Trigger, objVars
<1>3. ASSUME NEW gone, NEW s \in alive, NEW n \in Names, NEW p \in Prios, Enqueue(gone, s, n, p)
      PROVE  OwnedBy(eventQueue', alive)
  <2> DEFINE e == [src |-> s, name |-> n, prio |-> p, seq |-> seqNumber]
  <2>1. e \in Event /\ e.src \in alive
    BY <1>1, <1>3 DEF Event
  <2>2. PICK r \in Erased(eventQueue, gone) : eventQueue' = Append(r, e)
    BY <1>3 DEF Enqueue
  <2>3. r \in Seq(Event) /\ OwnedBy(r, alive)
    BY <1>1, <2>2, ErasedOwned
  <2> HIDE DEF e
  <2> QED
    BY <2>1, <2>2, <2>3, AppendOwned
<1>4. ASSUME NEW s \in alive \ Triggers, NEW n \in Names, NEW p \in Prios,
             NEW d \in BOOLEAN, NEW N \in SUBSET Names, PostEvent(s, n, p, d, N)
      PROVE  OwnedBy(eventQueue', alive)
  BY <1>1, <1>3, <1>4 DEF PostEvent, queueVars
<1>5. ASSUME NEW t \in Triggers, NEW n \in Names, Trigger(t, n)
      PROVE  OwnedBy(eventQueue', alive)
  <2>1. t \in alive /\ mode[t] \in Prios /\ \E gone : Enqueue(gone, t, n, mode[t])
    BY <1>1, <1>5 DEF Trigger
  <2> QED
    BY <1>3, <2>1
<1> QED
  BY <1>2, <1>4, <1>5 DEF ScriptPosts, EventsAlive

\* Removing a window from the updates leaves it in no cell.
LEMMA RemovedFromUpdates ==
  ASSUME winUpdateQueue \in Seq(Windows \cup {None}), UpdatesAlive, NEW w, RemoveWindowUpdate(w)
  PROVE  \A i \in DOMAIN winUpdateQueue' : winUpdateQueue'[i] \in (alive \ {w}) \cup {None}
BY DEF RemoveWindowUpdate, UpdatesAlive

\* Cancelling what a window owns leaves none of its events in either queue.
LEMMA CancelledAll ==
  ASSUME TypeOK, EventsAlive, InputAlive, NEW w, CancelAllOf(w)
  PROVE  OwnedBy(eventQueue', alive \ {w}) /\ OwnedBy(inputQueue', alive \ {w})
<1>1. eventQueue \in Seq(Event) /\ inputQueue \in Seq(InputEvent)
  BY DEF TypeOK, QueueTypeOK
<1>2. /\ eventQueue' \in Erased(eventQueue, Matching(w, Names))
      /\ inputQueue' \in Erased(inputQueue, InputMatching(w, InputTags))
  BY DEF CancelAllOf
<1>3. OwnedBy(eventQueue', alive) /\ OwnedBy(inputQueue', alive)
  BY <1>1, <1>2, ErasedOwned DEF EventsAlive, InputAlive
<1>4. NoneOf(eventQueue', w) /\ NoneOf(inputQueue', w)
  BY <1>1, <1>2, ErasedAll, ErasedAllInput
<1> QED
  BY <1>3, <1>4 DEF OwnedBy, NoneOf

\* Script code keeps the queues to live objects.
LEMMA ScriptAlive ==
  ASSUME TypeOK, NothingOfTheDead, Script
  PROVE  NothingOfTheDead'
<1>1. /\ eventQueue \in Seq(Event) /\ inputQueue \in Seq(InputEvent)
      /\ winUpdateQueue \in Seq(Windows \cup {None}) /\ alive \subseteq Objects
  BY DEF TypeOK, QueueTypeOK, WindowTypeOK
<1>2. EventsAlive /\ InputAlive /\ UpdatesAlive
  BY DEF NothingOfTheDead, EventsAlive, InputAlive, UpdatesAlive, OwnedBy
<1>3. SUFFICES EventsAlive' /\ InputAlive' /\ UpdatesAlive'
  BY DEF NothingOfTheDead, EventsAlive, InputAlive, UpdatesAlive, OwnedBy
<1>4. ASSUME NEW w \in Windows \cap alive
      PROVE  \A i \in DOMAIN Requested(w) : Requested(w)[i] \in alive \cup {None}
  BY <1>1, <1>2 DEF Requested, UpdatesAlive
<1>5. CASE ScriptPosts
  <2>1. UNCHANGED <<inputQueue, winUpdateQueue, alive>>
    BY Zenon, <1>5 DEF ScriptPosts, PostEvent, Trigger, Enqueue, queueVars, objVars, winVars
  <2> QED
    BY <1>2, <1>5, <2>1, PostsAlive DEF InputAlive, UpdatesAlive
<1>6. CASE ScriptCancels
  <2>1. UNCHANGED <<inputQueue, winUpdateQueue>>
    BY Zenon, <1>6 DEF ScriptCancels, CancelEvents, CancelTrigger, CancelSourceEvents,
           SetCached, SetMode, InvalidateObject, winVars
  <2>2. ASSUME NEW o \in Objects \ Windows, InvalidateObject(o)
        PROVE  EventsAlive' /\ InputAlive' /\ UpdatesAlive'
    <3>1. alive' = alive \ {o} /\ eventQueue' \in Erased(eventQueue, Matching(o, Names))
      BY <2>2 DEF InvalidateObject, CancelSourceEvents, CancelEvents
    <3>2. OwnedBy(eventQueue', alive) /\ NoneOf(eventQueue', o)
      BY <1>1, <1>2, <3>1, ErasedOwned, ErasedAll DEF EventsAlive
    <3>3. \A i \in DOMAIN inputQueue : inputQueue[i].src \in Windows
      <4>1. \A i \in DOMAIN inputQueue : inputQueue[i] \in InputEvent
        BY <1>1
      <4> QED
        BY <4>1 DEF InputEvent
    <3>4. \A i \in DOMAIN winUpdateQueue : winUpdateQueue[i] \in Windows \cup {None}
      BY <1>1
    <3>5. EventsAlive'
      BY <3>1, <3>2 DEF EventsAlive, OwnedBy, NoneOf
    <3>6. InputAlive' /\ UpdatesAlive'
      BY <1>2, <2>1, <3>1, <3>3, <3>4 DEF InputAlive, UpdatesAlive, OwnedBy
    <3> QED
      BY <3>5, <3>6
  <2>3. CASE alive' = alive
    <3>1. \E gone : eventQueue' \in Erased(eventQueue, gone)
      BY <1>6, CancelsErase
    <3> QED
      BY <1>1, <1>2, <2>1, <2>3, <3>1, ErasedOwned DEF EventsAlive, InputAlive, UpdatesAlive
  <2> QED
    BY <1>6, <2>2, <2>3 DEF ScriptCancels, CancelTrigger, SetCached, SetMode, objVars
<1>7. CASE ScriptInput
  <2>1. UNCHANGED <<eventQueue, winUpdateQueue, alive>>
    BY <1>7 DEF ScriptInput, PostInputEvent, CancelInputEvents, objVars, winVars
  <2>2. ASSUME NEW w \in Windows \cap alive, NEW tag \in InputTags, NEW b \in BOOLEAN,
               PostInputEvent(w, tag, b)
        PROVE  OwnedBy(inputQueue', alive)
    <3> DEFINE e == [src |-> w, tag |-> tag]
    <3>0. PICK gone : \E r \in Erased(inputQueue, gone) : inputQueue' = Append(r, e)
      BY <2>2 DEF PostInputEvent
    <3>1. PICK r \in Erased(inputQueue, gone) : inputQueue' = Append(r, e)
      BY <3>0
    <3>2. e \in InputEvent /\ e.src \in alive
      BY DEF InputEvent
    <3>3. r \in Seq(InputEvent) /\ OwnedBy(r, alive)
      BY <1>1, <1>2, <3>1, ErasedOwned DEF InputAlive
    <3> HIDE DEF e
    <3> QED
      BY <3>1, <3>2, <3>3, AppendOwned
  <2>3. ASSUME NEW w, NEW T, CancelInputEvents(w, T)
        PROVE  OwnedBy(inputQueue', alive)
    BY <1>1, <1>2, <2>3, ErasedOwned DEF CancelInputEvents, InputAlive
  <2>4. OwnedBy(inputQueue', alive)
    BY <1>7, <2>2, <2>3 DEF ScriptInput
  <2> QED
    BY <1>2, <2>1, <2>4 DEF EventsAlive, InputAlive, UpdatesAlive
<1>8. CASE ScriptRequestsUpdate \/ UpdateWindow
  <2>1. UNCHANGED <<eventQueue, inputQueue, alive>>
    BY <1>8 DEF ScriptRequestsUpdate, UpdateWindow, queueVars, objVars
  <2>2. winUpdateQueue' = winUpdateQueue
          \/ \E w \in Windows \cap alive : winUpdateQueue' = Requested(w)
    BY <1>8 DEF ScriptRequestsUpdate, UpdateWindow, PostWindowUpdate
  <2> QED
    BY <1>2, <1>4, <2>1, <2>2 DEF EventsAlive, InputAlive, UpdatesAlive
<1>9. CASE InvalidateWindow
  <2>1. PICK w \in Windows : CancelAllOf(w) /\ RemoveWindowUpdate(w)
    BY <1>9 DEF InvalidateWindow
  <2>2. alive' = alive
    BY <1>9 DEF InvalidateWindow, objVars
  <2>3. OwnedBy(eventQueue', alive \ {w}) /\ OwnedBy(inputQueue', alive \ {w})
    BY <1>2, <2>1, CancelledAll
  <2>4. \A i \in DOMAIN winUpdateQueue' : winUpdateQueue'[i] \in (alive \ {w}) \cup {None}
    BY <1>1, <1>2, <2>1, RemovedFromUpdates
  <2> QED
    BY <2>2, <2>3, <2>4 DEF EventsAlive, InputAlive, UpdatesAlive, OwnedBy
<1>10. CASE ScriptContinuous \/ PostImmediate \/ BeginPass
  <2>1. UNCHANGED <<eventQueue, inputQueue, winUpdateQueue, alive>>
    BY <1>10 DEF ScriptContinuous, PostImmediate, BeginPass, queueVars, objVars, winVars
  <2> QED
    BY <1>2, <2>1 DEF EventsAlive, InputAlive, UpdatesAlive
<1> QED
  BY <1>5, <1>6, <1>7, <1>8, <1>9, <1>10 DEF Script

\* So does the engine, which takes from the queues and adds nothing.
LEMMA EngineAlive ==
  ASSUME TypeOK, NothingOfTheDead, Engine
  PROVE  NothingOfTheDead'
<1>1. /\ eventQueue \in Seq(Event) /\ inputQueue \in Seq(InputEvent)
      /\ EventsAlive /\ InputAlive /\ UpdatesAlive
  BY DEF TypeOK, QueueTypeOK, NothingOfTheDead, EventsAlive, InputAlive, UpdatesAlive, OwnedBy
<1>2. SUFFICES EventsAlive' /\ InputAlive' /\ UpdatesAlive'
  BY DEF NothingOfTheDead, EventsAlive, InputAlive, UpdatesAlive, OwnedBy
<1>3. alive' = alive
  BY EngineKeeps DEF QueueKept, DeliverEvent, objVars
<1>4. EventsAlive'
  <2>1. CASE \E p \in ScriptPhases : DeliverEvent(p)
    <3>1. PICK k \in DOMAIN eventQueue : eventQueue' = RemoveAt(eventQueue, k)
      BY <2>1 DEF DeliverEvent, Deliverable
    <3> QED
      BY <1>1, <1>3, <3>1, RemoveOwned DEF EventsAlive
  <2>2. CASE QueueKept
    BY <1>1, <2>2 DEF QueueKept, EventsAlive
  <2> QED
    BY <2>1, <2>2, EngineKeeps
<1>5. InputAlive'
  <2>1. CASE DeliverInput
    <3>1. inputQueue # <<>> /\ inputQueue' = Tail(inputQueue)
      BY <2>1 DEF DeliverInput
    <3>2. /\ DOMAIN inputQueue' = 1 .. Len(inputQueue) - 1
          /\ \A i \in 1 .. Len(inputQueue) - 1 : inputQueue'[i] = inputQueue[i + 1]
      BY <1>1, <3>1
    <3> QED
      BY <1>1, <1>3, <3>2 DEF InputAlive, OwnedBy
  <2>2. CASE UNCHANGED inputQueue
    BY <1>1, <1>3, <2>2 DEF InputAlive
  <2> QED
    BY <2>1, <2>2
       DEF Engine, DeliverEvent, EndLoop, EndInput, AfterScriptPass, EndPass, BeginContinuous,
           CallHook, SkipHook, EndHooks, CallClosure, SkipClosure, EndClosures, BeginWindows,
           UpdateContent, EndWindows, queueVars
<1>6. UpdatesAlive'
  <2>1. winUpdateQueue' = <<>> \/ winUpdateQueue' = winUpdateQueue
    BY DEF Engine, DeliverEvent, EndLoop, DeliverInput, EndInput, AfterScriptPass, EndPass,
           BeginContinuous, CallHook, SkipHook, EndHooks, CallClosure, SkipClosure,
           EndClosures, BeginWindows, UpdateContent, EndWindows, StartWindowUpdates,
           EndWindowUpdates, winVars
  <2> QED
    BY <1>1, <1>3, <2>1 DEF UpdatesAlive
<1> QED
  BY <1>4, <1>5, <1>6

\* And the end of a handler: when the finalizers of a window end, everything
\* they queued for it goes with it.
LEMMA HandlerEndsAlive ==
  ASSUME TypeOK, NothingOfTheDead, HandlerEnds
  PROVE  NothingOfTheDead'
<1>1. /\ winUpdateQueue \in Seq(Windows \cup {None})
      /\ EventsAlive /\ InputAlive /\ UpdatesAlive
  BY DEF TypeOK, WindowTypeOK, NothingOfTheDead, EventsAlive, InputAlive, UpdatesAlive, OwnedBy
<1>2. SUFFICES EventsAlive' /\ InputAlive' /\ UpdatesAlive'
  BY DEF NothingOfTheDead, EventsAlive, InputAlive, UpdatesAlive, OwnedBy
<1>3. CASE EndInvalidateWindow
  <2>1. /\ CancelAllOf(Top.win) /\ RemoveWindowUpdate(Top.win)
        /\ alive' = alive \ {Top.win}
    BY <1>3 DEF EndInvalidateWindow
  <2>2. /\ OwnedBy(eventQueue', alive \ {Top.win}) /\ OwnedBy(inputQueue', alive \ {Top.win})
    BY <1>1, <2>1, CancelledAll
  <2>3. \A i \in DOMAIN winUpdateQueue' : winUpdateQueue'[i] \in (alive \ {Top.win}) \cup {None}
    BY <1>1, <2>1, RemovedFromUpdates
  <2> QED
    BY <2>1, <2>2, <2>3 DEF EventsAlive, InputAlive, UpdatesAlive
<1>4. CASE UNCHANGED <<eventQueue, inputQueue, alive>>
             /\ (winUpdateQueue' = <<>> \/ winUpdateQueue' = winUpdateQueue)
  BY <1>1, <1>4 DEF EventsAlive, InputAlive, UpdatesAlive
<1> QED
  BY <1>3, <1>4
     DEF HandlerEnds, ReturnPlain, ReturnInput, ReturnContinuous, ThrowInScriptPass, ThrowIdle,
         ThrowContinuous, ThrowWindows, EndWindowUpdates, queueVars, objVars, winVars

\* No queue ever mentions an invalidated object or window, whichever handlers,
\* finalizers and nested passes ran (EventIntf.cpp:1216-1225, WindowIntf.cpp:
\* 242-297, WindowImpl.cpp:1121-1143).
THEOREM NothingOfTheDeadStays == Spec => []NothingOfTheDead
<1>1. Init => NothingOfTheDead
  BY DEF Init, QueueInit, WindowInit, NothingOfTheDead
<1>2. TypeOK /\ NothingOfTheDead /\ [Next]_vars => NothingOfTheDead'
  <2>1. ASSUME NothingOfTheDead, UNCHANGED vars PROVE NothingOfTheDead'
    BY <2>1 DEF NothingOfTheDead, vars, queueVars, objVars, winVars
  <2> QED
    BY <2>1, ScriptAlive, EngineAlive, HandlerEndsAlive DEF Next
<1> QED
  BY <1>1, <1>2, TypeCorrect, PTL DEF Spec

-----------------------------------------------------------------------------
(* The operators of Mailbox, and what its variables stand for.             *)

LEMMA SameErased == \A q, gone : Mail!Erased(q, gone) = Erased(q, gone)
<1>1. \A D : Mail!Cardinality(D) = Cardinality(D)
  BY Zenon DEF Mail!Cardinality, Cardinality
<1>2. \A D : Mail!Ascending(D) = Ascending(D)
  BY <1>1, Zenon DEF Mail!Ascending, Ascending
<1> QED
  BY <1>2, Zenon DEF Mail!Erased, Erased

LEMMA SameRemoveAt == \A q, i : Mail!RemoveAt(q, i) = RemoveAt(q, i)
BY DEF Mail!RemoveAt, RemoveAt

\* Erasing the letters is erasing the events.
LEMMA ErasedLetters ==
  ASSUME NEW q, NEW gone, NEW r \in Erased(q, gone)
  PROVE  Letters(r) \in Erased(Letters(q), gone)
<1>1. PICK f \in Ascending(DOMAIN q \ gone) : r = [i \in DOMAIN f |-> q[f[i]]]
  BY DEF Erased
<1>2. \A i \in DOMAIN f : f[i] \in DOMAIN q
  BY DEF Ascending
<1>3. DOMAIN Letters(q) = DOMAIN q /\ \A i \in DOMAIN q : Letters(q)[i] = Letter(q[i])
  BY DEF Letters
<1>4. Letters(r) = [i \in DOMAIN f |-> Letters(q)[f[i]]]
  BY <1>1, <1>2, <1>3 DEF Letters
<1> QED
  BY <1>3, <1>4 DEF Erased

\* Erasing nothing changes nothing.
LEMMA ErasedNothing ==
  ASSUME NEW S, NEW q \in Seq(S)
  PROVE  q \in Erased(q, {})
<1> DEFINE f == [i \in 1 .. Len(q) |-> i]
<1>1. Len(q) \in Nat /\ DOMAIN q = 1 .. Len(q)
  OBVIOUS
<1>2. Cardinality(1 .. Len(q)) = Len(q)
  BY <1>1, FS_Interval
<1>3. DOMAIN q \ {} = 1 .. Len(q)
  BY <1>1
<1>4. f \in Ascending(DOMAIN q \ {})
  BY <1>1, <1>2, <1>3 DEF Ascending
<1>5. q = [i \in DOMAIN f |-> q[f[i]]]
  BY <1>1
<1> QED
  BY <1>4, <1>5 DEF Erased

\* The letters of a longer or shorter queue.
LEMMA AppendIs ==
  ASSUME NEW S, NEW q \in Seq(S), NEW e \in S
  PROVE  Append(q, e) = [i \in 1 .. Len(q) + 1 |-> IF i = Len(q) + 1 THEN e ELSE q[i]]
<1>1. Append(q, e) \in Seq(S) /\ Len(Append(q, e)) = Len(q) + 1
  OBVIOUS
<1>2. Append(q, e) \in [1 .. Len(q) + 1 -> S]
  BY <1>1, LenProperties
<1>3. \A i \in 1 .. Len(q) + 1 : Append(q, e)[i] = IF i = Len(q) + 1 THEN e ELSE q[i]
  OBVIOUS
<1> QED
  BY <1>2, <1>3

LEMMA AppendLetters ==
  ASSUME NEW S, NEW q \in Seq(S), NEW e \in S
  PROVE  Letters(Append(q, e)) = Append(Letters(q), Letter(e))
<1> DEFINE T == {Letter(x) : x \in S}
<1>1. Len(q) \in Nat /\ DOMAIN q = 1 .. Len(q) /\ Letter(e) \in T
  OBVIOUS
<1>2. Letters(q) \in Seq(T) /\ Len(Letters(q)) = Len(q)
  <2>1. Letters(q) \in [1 .. Len(q) -> T]
    BY <1>1 DEF Letters
  <2> QED
    BY <1>1, <2>1
<1> HIDE DEF T
<1>3. Append(Letters(q), Letter(e))
        = [i \in 1 .. Len(q) + 1 |-> IF i = Len(q) + 1 THEN Letter(e) ELSE Letters(q)[i]]
  BY <1>1, <1>2, AppendIs
<1>4. Append(q, e) = [i \in 1 .. Len(q) + 1 |-> IF i = Len(q) + 1 THEN e ELSE q[i]]
  BY AppendIs
<1>5. \A i \in 1 .. Len(q) : Letters(q)[i] = Letter(q[i])
  BY <1>1 DEF Letters
<1> QED
  BY <1>1, <1>3, <1>4, <1>5 DEF Letters

LEMMA RemoveAtLetters ==
  ASSUME NEW S, NEW q \in Seq(S), NEW k \in DOMAIN q
  PROVE  Letters(RemoveAt(q, k)) = RemoveAt(Letters(q), k)
<1>1. Len(q) \in Nat \ {0} /\ k \in 1 .. Len(q) /\ DOMAIN q = 1 .. Len(q)
  OBVIOUS
<1>2. Len(Letters(q)) = Len(q)
  <2>1. Letters(q) \in [1 .. Len(q) -> {Letter(x) : x \in S}]
    BY <1>1 DEF Letters
  <2> QED
    BY <1>1, <2>1
<1>3. ASSUME NEW j \in 1 .. Len(q) - 1
      PROVE  Letter(IF j < k THEN q[j] ELSE q[j + 1])
               = IF j < k THEN Letters(q)[j] ELSE Letters(q)[j + 1]
  <2>1. j \in DOMAIN q /\ j + 1 \in DOMAIN q
    BY <1>1
  <2> QED
    BY <2>1 DEF Letters
<1>4. Letters(RemoveAt(q, k))
        = [j \in 1 .. Len(q) - 1 |-> Letter(IF j < k THEN q[j] ELSE q[j + 1])]
  BY DEF Letters, RemoveAt
<1> QED
  BY <1>2, <1>3, <1>4 DEF RemoveAt

\* The positions a source owns are the same in both.
LEMMA SameMatching ==
  /\ \A s, N : Mail!Of(s, N) = Matching(s, N)
  /\ \A s, T : Mail!InputOf(s, T) = InputMatching(s, T)
BY DEF Mail!Of, Mail!InputOf, Matching, InputMatching, Letters, Letter

\* The calls that a longer, shorter or changed stack stands for.
LEMMA CallsOf ==
  ASSUME stack \in Seq(Frame)
  PROVE  /\ Calls(stack) \in Seq({HandlerOf(f) : f \in Frame} \cup {"engine"})
         /\ Len(Calls(stack)) = Depth
         /\ Depth > 0 => Calls(stack) # <<>> /\ Calls(stack)[Len(Calls(stack))] = HandlerOf(Top)
<1>1. Depth \in Nat /\ DOMAIN stack = 1 .. Depth
  BY DEF Depth
<1>2. Calls(stack) \in [1 .. Depth -> {HandlerOf(f) : f \in Frame} \cup {"engine"}]
  BY <1>1 DEF Calls, Depth
<1>3. /\ Calls(stack) \in Seq({HandlerOf(f) : f \in Frame} \cup {"engine"})
      /\ Len(Calls(stack)) = Depth
  BY <1>1, <1>2
<1>4. Depth > 0 => Calls(stack)[Depth] = HandlerOf(Top)
  BY <1>1 DEF Calls, Top
<1> QED
  BY <1>1, <1>3, <1>4

LEMMA CallsPushed ==
  ASSUME stack \in Seq(Frame), NEW f \in Frame, Push(f), HandlerOf(f) = "engine"
  PROVE  Calls(stack)' = Mail!Pushed
<1>1. /\ DOMAIN Append(stack, f) = 1 .. Depth + 1 /\ Depth \in Nat
      /\ \A d \in 1 .. Depth : Append(stack, f)[d] = stack[d]
      /\ Append(stack, f)[Depth + 1] = f
  BY DEF Depth
<1>2. Calls(stack)' = [d \in 1 .. Depth + 1 |-> HandlerOf(Append(stack, f)[d])]
  BY <1>1 DEF Calls, Push
<1>3. /\ Len(Calls(stack)) = Depth
      /\ DOMAIN Calls(stack) = 1 .. Depth
      /\ \A d \in 1 .. Depth : Calls(stack)[d] = HandlerOf(stack[d])
  BY CallsOf DEF Calls, Depth
<1>4. Mail!Pushed = [d \in 1 .. Depth + 1 |-> IF d = Depth + 1 THEN "engine" ELSE Calls(stack)[d]]
  BY <1>3, CallsOf, AppendIs DEF Mail!Pushed
<1> QED
  BY <1>1, <1>2, <1>3, <1>4

LEMMA CallsPopped ==
  ASSUME stack \in Seq(Frame), Depth > 0, Pop
  PROVE  Calls(stack)' = Mail!Popped
<1>1. Depth \in Nat /\ DOMAIN stack = 1 .. Depth
  BY DEF Depth
<1>2. Calls(stack)' = [d \in 1 .. Depth - 1 |-> HandlerOf(stack[d])]
  BY <1>1 DEF Calls, Pop
<1>3. \A d \in 1 .. Depth - 1 : Calls(stack)[d] = HandlerOf(stack[d])
  BY <1>1 DEF Calls
<1> QED
  BY <1>2, <1>3, CallsOf DEF Mail!Popped

LEMMA CallsTurned ==
  ASSUME stack \in Seq(Frame), Depth > 0, NEW f, SetTop(f)
  PROVE  Calls(stack)' = Mail!Turned(HandlerOf(f))
<1>1. Depth \in Nat /\ DOMAIN stack = 1 .. Depth
  BY DEF Depth
<1>2. Calls(stack)' = [d \in 1 .. Depth |-> HandlerOf(IF d = Depth THEN f ELSE stack[d])]
  BY <1>1 DEF Calls, SetTop
<1>3. Calls(stack) = [d \in 1 .. Depth |-> HandlerOf(stack[d])]
  BY <1>1 DEF Calls
<1> QED
  BY <1>2, <1>3, CallsOf DEF Mail!Turned

-----------------------------------------------------------------------------
(* The frames of finalizers.                                               *)

\* A window is invalidated by one frame at most, and not yet gone then: its
\* invalidation is never entered again by its own finalizers.
FinalizersOnce ==
  /\ \A d \in DOMAIN stack :
       stack[d].phase = "finalizers" \/ stack[d].win # None
         => stack[d].phase = "finalizers" /\ stack[d].win \in Windows \cap alive
  /\ \A d, e \in DOMAIN stack : stack[d].win = stack[e].win /\ stack[d].win # None => d = e

\* A frame of no finalizer; steps that leave one on top, with the engine at
\* work or a handler of no event.
Other(f) == f.phase # "finalizers" /\ f.win = None
Settles == \E f \in Frame : SetTop(f) /\ Other(f) /\ HandlerOf(f) = "engine"
Enters  == \E f \in Frame : Push(f) /\ Other(f) /\ HandlerOf(f) = "engine"
Quiet   == UNCHANGED <<eventQueue, inputQueue, alive>>

LEMMA TopOther ==
  ASSUME FinalizersOnce, stack \in Seq(Frame), Depth > 0, Top.phase # "finalizers"
  PROVE  Other(Top)
<1>1. Depth \in DOMAIN stack
  BY DEF Depth
<1> QED
  BY <1>1 DEF FinalizersOnce, Other, Top

LEMMA Settling ==
  ASSUME stack \in Seq(Frame), Depth > 0, Other(Top)
  PROVE  /\ \A p \in Phases \ {"finalizers"} : Goto(p) => Settles
         /\ Return \/ NextCell \/ SkipCell => Settles
         /\ \A k \in Nat, e \in BOOLEAN : Loop(FALSE, k, e) => Settles
         /\ Call /\ Top.phase \notin ScriptPhases \cup {"input"} => Settles
<1>1. /\ Top \in Frame /\ Top.phase \in Phases /\ Top.idx \in Nat /\ Top.idx + 1 \in Nat
      /\ Top.empties \in BOOLEAN /\ Top.win = None /\ Top.phase # "finalizers"
  BY StackSteps DEF Frame, Other
<1>2. ASSUME NEW p \in Phases \ {"finalizers"}, Goto(p) PROVE Settles
  <2>1. NewFrame(p) \in Frame /\ Other(NewFrame(p)) /\ HandlerOf(NewFrame(p)) = "engine"
    BY StackSteps DEF NewFrame, FrameOf, Other, HandlerOf
  <2> QED
    BY <1>2, <2>1 DEF Goto, Settles
<1>3. ASSUME NEW b \in BOOLEAN, NEW k \in Nat, NEW e \in BOOLEAN, Loop(b, k, e),
             b = FALSE \/ Top.phase \notin ScriptPhases \cup {"input"}
      PROVE  Settles
  <2> DEFINE f == FrameOf(Top.phase, b, k, e, Top.win)
  <2>1. f \in Frame /\ Other(f)
    BY <1>1 DEF FrameOf, Frame, Other
  <2>2. HandlerOf(f) = "engine"
    BY <1>3 DEF FrameOf, HandlerOf
  <2> QED
    BY <1>3, <2>1, <2>2 DEF Loop, Settles
<1>4. TRUE \in BOOLEAN /\ FALSE \in BOOLEAN
  OBVIOUS
<1>5. Return \/ NextCell \/ SkipCell => Settles
  BY <1>1, <1>3, <1>4, Zenon DEF Return, NextCell, SkipCell
<1>6. Call /\ Top.phase \notin ScriptPhases \cup {"input"} => Settles
  BY <1>1, <1>3, <1>4, Zenon DEF Call
<1>7. \A k \in Nat, e \in BOOLEAN : Loop(FALSE, k, e) => Settles
  BY <1>3, <1>4
<1> QED
  BY <1>2, <1>5, <1>6, <1>7

LEMMA Entering ==
  ASSUME stack \in Seq(Frame)
  PROVE  /\ Push(CallFrame("immediate", None)) => Enters
         /\ Push(NewFrame("update")) => Enters
         /\ Push(NewFrame("exclusive")) => Enters
<1>1. {"immediate", "update", "exclusive"} \subseteq Phases
  BY DEF Phases, ScriptPhases
<1>2. /\ CallFrame("immediate", None) \in Frame
      /\ \A p \in {"update", "exclusive"} : NewFrame(p) \in Frame
  BY <1>1, StackSteps
<1>3. \A p \in {"update", "exclusive"} : Other(NewFrame(p)) /\ HandlerOf(NewFrame(p)) = "engine"
  BY DEF NewFrame, FrameOf, Other, HandlerOf
<1>4. Other(CallFrame("immediate", None)) /\ HandlerOf(CallFrame("immediate", None)) = "engine"
  BY DEF CallFrame, FrameOf, ScriptPhases, Other, HandlerOf
<1> QED
  BY <1>2, <1>3, <1>4 DEF Enters

\* Script code: it posts, cancels, or the engine calls.
LEMMA ScriptMoves ==
  ASSUME TypeOK, Script
  PROVE  \/ ScriptPosts \/ ScriptCancels \/ ScriptInput \/ InvalidateWindow
         \/ Quiet /\ (UNCHANGED stack \/ Enters)
<1>1. stack \in Seq(Frame)
  BY DEF TypeOK
<1>2. ScriptRequestsUpdate \/ ScriptContinuous => Quiet /\ UNCHANGED stack
  BY DEF ScriptRequestsUpdate, ScriptContinuous, Quiet, queueVars, objVars
<1>3. PostImmediate \/ UpdateWindow \/ BeginPass => Quiet
  BY DEF PostImmediate, UpdateWindow, BeginPass, Quiet, queueVars, objVars
<1>4. PostImmediate \/ UpdateWindow \/ BeginPass => UNCHANGED stack \/ Enters
  BY <1>1, Entering DEF PostImmediate, UpdateWindow, BeginPass
<1> QED
  BY <1>2, <1>3, <1>4 DEF Script

\* The engine and the ends of handlers, but for deliveries and invalidations.
EngineMoves ==
  Quiet /\ Depth > 0 /\ Other(Top) /\ (Settles \/ (Pop /\ HandlerOf(Top) = "engine"))

LEMMA EnginesMove ==
  ASSUME TypeOK, FinalizersOnce, Engine
  PROVE  (\E p \in ScriptPhases : DeliverEvent(p)) \/ DeliverInput \/ EngineMoves
<1> DEFINE Goes == Settles \/ (Pop /\ HandlerOf(Top) = "engine")
<1>1. stack \in Seq(Frame)
  BY DEF TypeOK
<1>2. ASSUME NEW p, p # "finalizers", At(p)
      PROVE  Depth > 0 /\ Top.phase = p /\ ~Top.running /\ Other(Top) /\ HandlerOf(Top) = "engine"
  BY <1>1, <1>2, TopOther DEF At, HandlerOf
<1>3. ASSUME NEW p \in ScriptPhases, EndLoop(p) PROVE EngineMoves
  <2>1. At(p) /\ Goto(AfterLoop(p)) /\ Quiet
    BY <1>3 DEF EndLoop, Quiet, queueVars, objVars
  <2>2. p # "finalizers" /\ AfterLoop(p) \in Phases \ {"finalizers"}
    BY DEF ScriptPhases, AfterLoop, Phases
  <2> QED
    BY <1>1, <1>2, <2>1, <2>2, Settling DEF EngineMoves
<1>4. EndInput \/ AfterScriptPass \/ EndPass => Quiet
  BY DEF EndInput, AfterScriptPass, EndPass, Quiet, queueVars, objVars
<1>5. \A p \in {"normal", "finish", "idle", "hooks", "closures", "window", "windows"} :
        p \in Phases \ {"finalizers"}
  BY DEF Phases, ScriptPhases
<1>6. EndInput => EngineMoves
  BY <1>1, <1>2, <1>4, <1>5, Settling DEF EndInput, EngineMoves
<1>7. AfterScriptPass => EngineMoves
  BY <1>1, <1>2, <1>4, <1>5, Settling DEF AfterScriptPass, EngineMoves
<1>8. EndPass => EngineMoves
  BY <1>1, <1>2, <1>4 DEF EndPass, EngineMoves
<1>9. BeginContinuous \/ CallHook \/ SkipHook \/ EndHooks \/ CallClosure \/ SkipClosure
        \/ EndClosures \/ BeginWindows => Quiet
  BY DEF BeginContinuous, CallHook, SkipHook, EndHooks, CallClosure, SkipClosure, EndClosures,
         BeginWindows, Quiet, queueVars, objVars
<1>10. BeginContinuous \/ EndHooks \/ EndClosures => EngineMoves
  BY <1>1, <1>2, <1>5, <1>9, Settling DEF BeginContinuous, EndHooks, EndClosures, EngineMoves
<1>11. SkipHook \/ SkipClosure => EngineMoves
  BY <1>1, <1>2, <1>5, <1>9, Settling DEF SkipHook, SkipClosure, EngineMoves
<1>12. CallHook \/ CallClosure => EngineMoves
  <2>1. "hooks" \notin ScriptPhases \cup {"input"} /\ "closures" \notin ScriptPhases \cup {"input"}
    BY DEF ScriptPhases
  <2> QED
    BY <1>1, <1>2, <1>9, <2>1, Settling DEF CallHook, CallClosure, EngineMoves
<1>13. BeginWindows => EngineMoves
  BY <1>1, <1>2, <1>5, <1>9, Settling DEF BeginWindows, EngineMoves
<1>14. ASSUME NEW p \in {"windows", "update"}, UpdateContent(p) PROVE EngineMoves
  <2>1. At(p) /\ (NextCell \/ Call) /\ Quiet
    BY <1>14 DEF UpdateContent, Quiet, queueVars, objVars
  <2>2. p # "finalizers" /\ p \notin ScriptPhases \cup {"input"}
    BY DEF ScriptPhases
  <2> QED
    BY <1>1, <1>2, <2>1, <2>2, Settling DEF EngineMoves
<1>15. ASSUME NEW p \in {"windows", "update"}, EndWindows(p) PROVE EngineMoves
  <2>1. At(p) /\ (Goto("finish") \/ Pop) /\ Quiet
    BY <1>15 DEF EndWindows, Quiet, queueVars, objVars
  <2> QED
    BY <1>1, <1>2, <1>5, <2>1, Settling DEF EngineMoves
<1> QED
  BY <1>3, <1>6, <1>7, <1>8, <1>10, <1>11, <1>12, <1>13, <1>14, <1>15 DEF Engine

LEMMA HandlersMove ==
  ASSUME TypeOK, FinalizersOnce, HandlerEnds
  PROVE  EndInvalidateWindow \/ EngineMoves
<1>1. stack \in Seq(Frame)
  BY DEF TypeOK
<1>2. ASSUME NEW p, p # "finalizers", InHandler(p)
      PROVE  Depth > 0 /\ Top.phase = p /\ Other(Top)
  BY <1>1, <1>2, TopOther DEF InHandler
<1>3. \A p \in {"tail", "interrupt", "continuous", "window", "finish"} :
        p \in Phases \ {"finalizers"}
  BY DEF Phases, ScriptPhases
<1>4. ASSUME ReturnPlain PROVE EngineMoves
  <2>1. Depth > 0 /\ Quiet
    BY <1>4 DEF ReturnPlain, Quiet, queueVars, objVars
  <2>2. \/ Top.phase \in ScriptPhases /\ Return
        \/ Top.phase \in {"windows", "update"} /\ NextCell
        \/ Top.phase = "immediate" /\ Pop
    BY <1>4 DEF ReturnPlain
  <2>3. Top.phase # "finalizers"
    BY <2>2 DEF ScriptPhases
  <2>4. Other(Top)
    BY <1>1, <2>1, <2>3, TopOther
  <2>5. Top.phase = "immediate" => HandlerOf(Top) = "engine"
    BY DEF HandlerOf, ScriptPhases
  <2> QED
    BY <1>1, <2>1, <2>2, <2>4, <2>5, Settling DEF EngineMoves
<1>5. ReturnInput => EngineMoves
  <2>1. ReturnInput => Quiet
    BY DEF ReturnInput, Quiet, queueVars, objVars
  <2> QED
    BY <1>1, <1>2, <1>3, <2>1, Settling DEF ReturnInput, EngineMoves
<1>6. ASSUME ReturnContinuous PROVE EngineMoves
  <2>1. Depth > 0 /\ Other(Top) /\ Quiet
    BY <1>2, <1>6 DEF ReturnContinuous, Quiet, queueVars, objVars
  <2>2. PICK b \in BOOLEAN : Goto("window") \/ Loop(FALSE, Top.idx + 1, Top.empties \/ b)
    BY <1>6 DEF ReturnContinuous
  <2>3. CASE Goto("window")
    BY <1>1, <1>3, <2>1, <2>3, Settling DEF EngineMoves
  <2>4. CASE Loop(FALSE, Top.idx + 1, Top.empties \/ b)
    <3>1. Top.idx \in Nat /\ Top.empties \in BOOLEAN
      BY <1>1, <2>1, StackSteps DEF Frame
    <3>2. Top.idx + 1 \in Nat /\ (Top.empties \/ b) \in BOOLEAN
      BY <3>1
    <3>3. Settles
      BY <1>1, <2>1, <2>4, <3>2, Settling
    <3> QED
      BY <2>1, <3>3 DEF EngineMoves
  <2> QED
    BY <2>2, <2>3, <2>4
<1>7. ThrowInScriptPass \/ ThrowIdle \/ ThrowContinuous => EngineMoves
  <2>1. ThrowInScriptPass \/ ThrowIdle \/ ThrowContinuous => Quiet
    BY DEF ThrowInScriptPass, ThrowIdle, ThrowContinuous, Quiet, queueVars, objVars
  <2> QED
    BY <1>1, <1>2, <1>3, <2>1, Settling
       DEF ThrowInScriptPass, ThrowIdle, ThrowContinuous, EngineMoves
<1>8. ASSUME ThrowWindows PROVE EngineMoves
  <2>1. Quiet /\ (InHandler("windows") \/ InHandler("update")) /\ (Goto("finish") \/ Pop)
    BY <1>8 DEF ThrowWindows, Quiet, queueVars, objVars
  <2>2. Depth > 0 /\ Other(Top) /\ Top.phase \in {"windows", "update"}
    BY <1>2, <2>1
  <2>3. HandlerOf(Top) = "engine"
    BY <2>2 DEF HandlerOf, ScriptPhases
  <2> QED
    BY <1>1, <1>3, <2>1, <2>2, <2>3, Settling DEF EngineMoves
<1> QED
  BY <1>4, <1>5, <1>6, <1>7, <1>8 DEF HandlerEnds

\* Frames come and go, and the finalizers' with the life of their window.
LEMMA FinalizersStep ==
  ASSUME TypeOK, FinalizersOnce, [Next]_vars
  PROVE  FinalizersOnce'
<1>1. /\ stack \in Seq(Frame) /\ DOMAIN stack = 1 .. Depth /\ Depth \in Nat
      /\ \A d \in DOMAIN stack : stack[d] \in Frame
  BY DEF TypeOK, Depth
<1>2. ASSUME UNCHANGED <<stack, alive>> PROVE FinalizersOnce'
  BY <1>2 DEF FinalizersOnce
<1>3. ASSUME UNCHANGED alive, NEW f, Other(f), Push(f) PROVE FinalizersOnce'
  <2>1. /\ DOMAIN stack' = 1 .. Depth + 1 /\ stack'[Depth + 1] = f
        /\ \A d \in 1 .. Depth : stack'[d] = stack[d]
    BY <1>1, <1>3 DEF Push, Depth
  <2>2. ASSUME NEW d \in DOMAIN stack', stack'[d].phase = "finalizers" \/ stack'[d].win # None
        PROVE  d \in DOMAIN stack /\ stack'[d] = stack[d]
    BY <1>1, <1>3, <2>1, <2>2 DEF Other
  <2> QED
    BY <1>3, <2>2 DEF FinalizersOnce
<1>4. ASSUME UNCHANGED alive, Depth > 0, Pop PROVE FinalizersOnce'
  <2>1. \A d \in DOMAIN stack' : d \in DOMAIN stack /\ stack'[d] = stack[d]
    BY <1>1, <1>4 DEF Pop
  <2> QED
    BY <1>4, <2>1 DEF FinalizersOnce
<1>5. ASSUME UNCHANGED alive, Depth > 0, NEW f, Other(f), SetTop(f) PROVE FinalizersOnce'
  <2>1. ASSUME NEW d \in DOMAIN stack', stack'[d].phase = "finalizers" \/ stack'[d].win # None
        PROVE  d \in DOMAIN stack /\ stack'[d] = stack[d]
    BY <1>1, <1>5, <2>1 DEF SetTop, Other
  <2> QED
    BY <1>5, <2>1 DEF FinalizersOnce
<1>6. CASE ScriptPosts \/ ScriptInput
  BY <1>2, <1>6 DEF ScriptPosts, ScriptInput, Trigger, objVars
<1>7. CASE ScriptCancels
  <2>1. stack' = stack
    BY <1>7 DEF ScriptCancels
  <2>2. alive' = alive \/ \E o \in Objects \ Windows : alive' = alive \ {o}
    BY <1>7, Zenon DEF ScriptCancels, CancelEvents, CancelTrigger, SetCached, SetMode,
                       InvalidateObject, objVars
  <2> QED
    BY <2>1, <2>2 DEF FinalizersOnce
<1>8. CASE InvalidateWindow
  <2>1. PICK w \in Windows \cap alive :
          (\A d \in DOMAIN stack : stack[d].win # w) /\ Push(CallFrame("finalizers", w))
    BY <1>8 DEF InvalidateWindow
  <2>2. alive' = alive
    BY <1>8 DEF InvalidateWindow, objVars
  <2>3. /\ DOMAIN stack' = 1 .. Depth + 1 /\ stack'[Depth + 1] = CallFrame("finalizers", w)
        /\ \A d \in 1 .. Depth : stack'[d] = stack[d]
    BY <1>1, <2>1 DEF Push, Depth
  <2>4. stack'[Depth + 1].phase = "finalizers" /\ stack'[Depth + 1].win = w
    BY <2>3 DEF CallFrame, FrameOf
  <2>5. \A d \in DOMAIN stack' :
          d = Depth + 1 \/ (d \in DOMAIN stack /\ stack'[d] = stack[d] /\ stack'[d].win # w)
    BY <1>1, <2>1, <2>3
  <2> QED
    BY <2>2, <2>4, <2>5 DEF FinalizersOnce
<1>9. CASE EndInvalidateWindow
  <2>1. Depth > 0 /\ Pop /\ Top.phase = "finalizers" /\ alive' = alive \ {Top.win}
    BY <1>9 DEF EndInvalidateWindow, InHandler
  <2>2. \A d \in DOMAIN stack' : d \in DOMAIN stack /\ d # Depth /\ stack'[d] = stack[d]
    BY <1>1, <2>1 DEF Pop
  <2>3. Depth \in DOMAIN stack /\ Top = stack[Depth] /\ Top.win # None
    BY <1>1, <2>1, TypesAssumption DEF FinalizersOnce, Top
  <2> QED
    BY <2>1, <2>2, <2>3 DEF FinalizersOnce
<1>10. CASE (\E p \in ScriptPhases : DeliverEvent(p)) \/ DeliverInput
  <2>1. alive' = alive /\ Depth > 0 /\ Top.phase # "finalizers" /\ (Call \/ Return)
    BY <1>10 DEF DeliverEvent, DeliverInput, At, ScriptPhases, objVars
  <2>2. PICK b \in BOOLEAN : SetTop(FrameOf(Top.phase, b, Top.idx, Top.empties, Top.win))
    BY <2>1 DEF Call, Return, Loop
  <2>3. Other(Top)
    BY <1>1, <2>1, TopOther
  <2>4. Other(FrameOf(Top.phase, b, Top.idx, Top.empties, Top.win))
    BY <2>3 DEF Other, FrameOf
  <2> QED
    BY <1>5, <2>1, <2>2, <2>4
<1>11. CASE EngineMoves
  BY <1>4, <1>5, <1>11 DEF EngineMoves, Quiet, Settles
<1>12. CASE Quiet /\ (UNCHANGED stack \/ Enters)
  BY <1>2, <1>3, <1>12 DEF Quiet, Enters
<1>13. CASE UNCHANGED vars
  BY <1>2, <1>13 DEF vars, objVars
<1> QED
  BY <1>6, <1>7, <1>8, <1>9, <1>10, <1>11, <1>12, <1>13, ScriptMoves, EnginesMove, HandlersMove
     DEF Next

LEMMA FinalizersStayOnce == Spec => []FinalizersOnce
<1>1. Init => FinalizersOnce
  BY DEF Init, FinalizersOnce
<1>2. TypeOK /\ FinalizersOnce /\ [Next]_vars => FinalizersOnce'
  BY FinalizersStep
<1> QED
  BY <1>1, <1>2, TypeCorrect, PTL DEF Spec

-----------------------------------------------------------------------------
(* Each step is a step of Mailbox, or one it does not see.                 *)

Typed ==
  /\ eventQueue \in Seq(Event) /\ inputQueue \in Seq(InputEvent)
  /\ alive \subseteq Objects /\ stack \in Seq(Frame)

LEMMA IsTyped == TypeOK => Typed
BY DEF TypeOK, QueueTypeOK, Typed

Unseen == UNCHANGED Mail!vars

LEMMA UnseenSteps ==
  ASSUME Quiet, UNCHANGED stack
  PROVE  Unseen
BY DEF Quiet, Unseen, Mail!vars

\* Posting.
LEMMA EnqueuePosts ==
  ASSUME Typed, NEW s \in alive, NEW N \in SUBSET Names, NEW n \in Names, NEW p \in Prios,
         Enqueue(Matching(s, N), s, n, p), UNCHANGED <<alive, stack>>
  PROVE  Mail!Post
<1> DEFINE e == [src |-> s, name |-> n, prio |-> p, seq |-> seqNumber]
<1>1. PICK r \in Erased(eventQueue, Matching(s, N)) : eventQueue' = Append(r, e)
  BY DEF Enqueue
<1>2. r \in Seq(Event)
  BY <1>1, ErasedKeepsOrder DEF Typed
<1>3. r \in Seq(Event \cup {e}) /\ e \in Event \cup {e}
  BY <1>2
<1>4. Letter(e) = [src |-> s, name |-> n, prio |-> p]
  BY DEF Letter
<1> HIDE DEF e
<1>5. Letters(eventQueue)' = Append(Letters(r), Letter(e))
  BY <1>1, <1>3, AppendLetters
<1>6. Letters(r) \in Mail!Erased(Letters(eventQueue), Mail!Of(s, N))
  BY <1>1, ErasedLetters, SameErased, SameMatching
<1>7. UNCHANGED <<inputQueue, alive>> /\ Calls(stack)' = Calls(stack)
  BY DEF Enqueue
<1>8. p \in Mail!Prios
  BY DEF Mail!Prios, Prios
<1> QED
  BY <1>4, <1>5, <1>6, <1>7, <1>8 DEF Mail!Post

LEMMA NothingMatches ==
  /\ \A s : Matching(s, {}) = {} /\ InputMatching(s, {}) = {}
  /\ Typed => \A s \in Objects \ Windows : InputMatching(s, InputTags) = {}
<1>1. \A s : Matching(s, {}) = {} /\ InputMatching(s, {}) = {}
  BY DEF Matching, InputMatching
<1>2. ASSUME Typed, NEW s \in Objects \ Windows PROVE InputMatching(s, InputTags) = {}
  <2>1. \A i \in DOMAIN inputQueue : inputQueue[i] \in InputEvent
    BY <1>2 DEF Typed
  <2>2. \A i \in DOMAIN inputQueue : inputQueue[i].src \in Windows
    BY <2>1 DEF InputEvent
  <2> QED
    BY <1>2, <2>2 DEF InputMatching
<1> QED
  BY <1>1, <1>2

LEMMA PostsRefine == TypeOK /\ ScriptPosts => Mail!Post \/ Unseen
<1> SUFFICES ASSUME TypeOK, ScriptPosts PROVE Mail!Post \/ Unseen
  OBVIOUS
<1>1. Typed /\ mode \in [Triggers -> Prios] /\ UNCHANGED <<alive, stack>>
  BY IsTyped DEF TypeOK, QueueTypeOK, ScriptPosts, Trigger, objVars
<1>2. ASSUME NEW s \in alive, NEW n \in Names, NEW p \in Prios, NEW d \in BOOLEAN,
             NEW N \in SUBSET Names, PostEvent(s, n, p, d, N)
      PROVE  Mail!Post \/ Unseen
  <2>1. CASE UNCHANGED queueVars
    BY <1>1, <2>1, UnseenSteps DEF Quiet, queueVars
  <2>2. CASE Enqueue(Matching(s, N), s, n, p)
    BY <1>1, <2>2, EnqueuePosts
  <2> QED
    BY <1>2, <2>1, <2>2 DEF PostEvent
<1>3. ASSUME NEW t \in Triggers, NEW n \in Names, Trigger(t, n)
      PROVE  Mail!Post
  <2>1. t \in alive /\ mode[t] \in Prios
    BY <1>1, <1>3 DEF Trigger
  <2>2. \E N \in SUBSET Names : Enqueue(Matching(t, N), t, n, mode[t])
    <3>1. Names \in SUBSET Names /\ {} \in SUBSET Names /\ Matching(t, {}) = {}
      BY NothingMatches
    <3> QED
      BY <1>3, <3>1, Zenon DEF Trigger
  <2> QED
    BY <1>1, <2>1, <2>2, EnqueuePosts
<1> QED
  BY <1>2, <1>3 DEF ScriptPosts

\* Cancelling and invalidating.
LEMMA ErasesMail ==
  ASSUME NEW s, NEW N, eventQueue' \in Erased(eventQueue, Matching(s, N))
  PROVE  Letters(eventQueue)' \in Mail!Erased(Letters(eventQueue), Mail!Of(s, N))
<1>1. Letters(eventQueue') \in Erased(Letters(eventQueue), Matching(s, N))
  BY ErasedLetters
<1> QED
  BY <1>1, SameErased, SameMatching

LEMMA ErasesInput ==
  ASSUME NEW s, NEW T, inputQueue' \in Erased(inputQueue, InputMatching(s, T))
  PROVE  inputQueue' \in Mail!Erased(inputQueue, Mail!InputOf(s, T))
BY SameErased, SameMatching

LEMMA CancelsMail ==
  ASSUME Typed, NEW s \in alive, NEW N \in SUBSET Names, NEW T \in SUBSET InputTags,
         eventQueue' \in Erased(eventQueue, Matching(s, N)),
         inputQueue' \in Erased(inputQueue, InputMatching(s, T)),
         UNCHANGED alive, UNCHANGED stack \/ Calls(stack)' = Mail!Pushed
  PROVE  Mail!Cancel
<1>1. Letters(eventQueue)' \in Mail!Erased(Letters(eventQueue), Mail!Of(s, N))
  BY ErasesMail
<1>2. inputQueue' \in Mail!Erased(inputQueue, Mail!InputOf(s, T))
  BY ErasesInput
<1>3. Calls(stack)' \in {Calls(stack), Mail!Pushed}
  OBVIOUS
<1> QED
  BY <1>1, <1>2, <1>3 DEF Mail!Cancel

LEMMA CancelsRefine == TypeOK /\ ScriptCancels => Mail!Cancel \/ Mail!Invalidate
<1> SUFFICES ASSUME TypeOK, ScriptCancels PROVE Mail!Cancel \/ Mail!Invalidate
  OBVIOUS
<1>1. Typed /\ stack' = stack
  BY IsTyped DEF ScriptCancels
<1>2. ASSUME NEW s \in alive, NEW N \in SUBSET Names, CancelEvents(s, N), UNCHANGED alive
      PROVE  Mail!Cancel
  <2>1. inputQueue' \in Erased(inputQueue, InputMatching(s, {}))
    BY <1>1, <1>2, NothingMatches, ErasedNothing DEF CancelEvents, Typed
  <2>2. {} \in SUBSET InputTags /\ eventQueue' \in Erased(eventQueue, Matching(s, N))
    BY <1>2 DEF CancelEvents
  <2> QED
    BY <1>1, <1>2, <2>1, <2>2, CancelsMail
<1>3. ASSUME NEW t \in Triggers, CancelTrigger(t) \/ (\E b \in BOOLEAN : SetCached(t, b))
               \/ (\E m \in Prios : SetMode(t, m))
      PROVE  Mail!Cancel
  <2>1. t \in alive /\ CancelEvents(t, Names) /\ UNCHANGED alive
    BY <1>3, Zenon DEF CancelTrigger, SetCached, SetMode, CancelSourceEvents, objVars
  <2>2. Names \in SUBSET Names
    OBVIOUS
  <2> QED
    BY <1>2, <2>1, <2>2
<1>4. ASSUME NEW o \in Objects \ Windows, InvalidateObject(o) PROVE Mail!Invalidate
  <2>1. o \in alive /\ alive' = alive \ {o} /\ UNCHANGED inputQueue
    BY <1>4 DEF InvalidateObject, CancelSourceEvents, CancelEvents
  <2>2. eventQueue' \in Erased(eventQueue, Matching(o, Names))
    BY <1>4 DEF InvalidateObject, CancelSourceEvents, CancelEvents
  <2>3. inputQueue' \in Erased(inputQueue, InputMatching(o, InputTags))
    BY <1>1, <2>1, NothingMatches, ErasedNothing DEF Typed
  <2>4. Letters(eventQueue)' \in Mail!Erased(Letters(eventQueue), Mail!Of(o, Names))
    BY <2>2, ErasesMail
  <2>5. inputQueue' \in Mail!Erased(inputQueue, Mail!InputOf(o, InputTags))
    BY <2>3, ErasesInput
  <2>6. Calls(stack)' = Calls(stack)
    BY <1>1
  <2> QED
    BY <2>1, <2>4, <2>5, <2>6 DEF Mail!Invalidate
<1> QED
  BY <1>2, <1>3, <1>4 DEF ScriptCancels, objVars

\* Input events.
LEMMA InputRefines == TypeOK /\ ScriptInput => Mail!PostInput \/ Mail!Cancel
<1> SUFFICES ASSUME TypeOK, ScriptInput PROVE Mail!PostInput \/ Mail!Cancel
  OBVIOUS
<1>1. Typed /\ UNCHANGED <<alive, stack>>
  BY IsTyped DEF ScriptInput, objVars
<1>2. ASSUME NEW w \in Windows \cap alive, NEW tag \in InputTags, NEW repl \in BOOLEAN,
             PostInputEvent(w, tag, repl)
      PROVE  Mail!PostInput
  <2>1. PICK T \in {{}, {tag}} :
          \E r \in Erased(inputQueue, InputMatching(w, T)) :
            inputQueue' = Append(r, [src |-> w, tag |-> tag])
    <3>1. CASE repl
      BY <1>2, <3>1 DEF PostInputEvent
    <3>2. CASE ~repl
      BY <1>2, <3>2, NothingMatches DEF PostInputEvent
    <3> QED
      BY <3>1, <3>2
  <2>2. \E r \in Mail!Erased(inputQueue, Mail!InputOf(w, T)) :
          inputQueue' = Append(r, [src |-> w, tag |-> tag])
    BY <2>1, SameErased, SameMatching
  <2>3. UNCHANGED <<Letters(eventQueue), alive, Calls(stack)>>
    BY <1>1, <1>2 DEF PostInputEvent
  <2> QED
    BY <2>2, <2>3 DEF Mail!PostInput
<1>3. ASSUME NEW w \in Windows \cap alive, NEW T \in SUBSET InputTags, CancelInputEvents(w, T)
      PROVE  Mail!Cancel
  <2>1. eventQueue' \in Erased(eventQueue, Matching(w, {}))
    BY <1>1, <1>3, NothingMatches, ErasedNothing DEF CancelInputEvents, Typed
  <2>2. {} \in SUBSET Names /\ inputQueue' \in Erased(inputQueue, InputMatching(w, T))
    BY <1>3 DEF CancelInputEvents
  <2> QED
    BY <1>1, <1>3, <2>1, <2>2, CancelsMail
<1> QED
  BY <1>2, <1>3 DEF ScriptInput

\* The invalidation of a window, when it begins and when it ends.
LEMMA InvalidatesRefine ==
  ASSUME TypeOK, FinalizersOnce
  PROVE  /\ InvalidateWindow => Mail!Cancel
         /\ EndInvalidateWindow => Mail!Invalidate
<1>1. Typed
  BY IsTyped
<1>2. ASSUME InvalidateWindow PROVE Mail!Cancel
  <2>1. PICK w \in Windows \cap alive : CancelAllOf(w) /\ Push(CallFrame("finalizers", w))
    BY <1>2 DEF InvalidateWindow
  <2>2. alive' = alive
    BY <1>2 DEF InvalidateWindow, objVars
  <2>3. CallFrame("finalizers", w) \in Frame /\ HandlerOf(CallFrame("finalizers", w)) = "engine"
    BY <1>1, StackSteps DEF Typed, CallFrame, FrameOf, HandlerOf, ScriptPhases, Phases
  <2>4. Calls(stack)' = Mail!Pushed
    BY <1>1, <2>1, <2>3, CallsPushed DEF Typed
  <2>5. Names \in SUBSET Names /\ InputTags \in SUBSET InputTags
    OBVIOUS
  <2>6. /\ eventQueue' \in Erased(eventQueue, Matching(w, Names))
        /\ inputQueue' \in Erased(inputQueue, InputMatching(w, InputTags))
    BY <2>1 DEF CancelAllOf
  <2> QED
    BY <1>1, <2>2, <2>4, <2>5, <2>6, CancelsMail
<1>3. ASSUME EndInvalidateWindow PROVE Mail!Invalidate
  <2>1. /\ Depth > 0 /\ Pop /\ Top.phase = "finalizers" /\ CancelAllOf(Top.win)
        /\ alive' = alive \ {Top.win}
    BY <1>3 DEF EndInvalidateWindow, InHandler
  <2>2. Top.win \in alive
    <3>1. Depth \in DOMAIN stack
      BY <1>1, <2>1 DEF Typed, Depth
    <3> QED
      BY <2>1, <3>1 DEF FinalizersOnce, Top
  <2>3. HandlerOf(Top) = "engine"
    BY <2>1 DEF HandlerOf, ScriptPhases
  <2>4. Mail!Runs("engine") /\ Calls(stack)' = Mail!Popped
    BY <1>1, <2>1, <2>3, CallsOf, CallsPopped DEF Typed, Mail!Runs
  <2>5. /\ eventQueue' \in Erased(eventQueue, Matching(Top.win, Names))
        /\ inputQueue' \in Erased(inputQueue, InputMatching(Top.win, InputTags))
    BY <2>1 DEF CancelAllOf
  <2>6. Letters(eventQueue)' \in Mail!Erased(Letters(eventQueue), Mail!Of(Top.win, Names))
    BY <2>5, ErasesMail
  <2>7. inputQueue' \in Mail!Erased(inputQueue, Mail!InputOf(Top.win, InputTags))
    BY <2>5, ErasesInput
  <2> QED
    BY <2>1, <2>2, <2>4, <2>6, <2>7 DEF Mail!Invalidate
<1> QED
  BY <1>2, <1>3

\* A delivery of the engine calls one handler for the first event of its loop.
LEMMA CallTurns ==
  ASSUME Typed, NEW p \in ScriptPhases \cup {"input"}, At(p), Call
  PROVE  Mail!Runs("engine") /\ Calls(stack)' = Mail!Turned(p)
<1>1. Depth > 0 /\ Top.phase = p /\ ~Top.running
  BY DEF At
<1>2. HandlerOf(Top) = "engine"
  BY <1>1 DEF HandlerOf
<1>3. HandlerOf(FrameOf(Top.phase, TRUE, Top.idx, Top.empties, Top.win)) = p
  BY <1>1 DEF HandlerOf, FrameOf
<1>4. Mail!Runs("engine")
  BY <1>1, <1>2, CallsOf DEF Typed, Mail!Runs
<1> QED
  BY <1>1, <1>3, <1>4, CallsTurned DEF Typed, Call, Loop

LEMMA DeliveryRefines ==
  ASSUME TypeOK, QueueOrdered, NothingOfTheDead, NEW p \in ScriptPhases, DeliverEvent(p)
  PROVE  Mail!Deliver
<1>1. Typed
  BY IsTyped
<1>2. PICK i \in DOMAIN eventQueue :
        /\ eventQueue[i].prio = p
        /\ eventQueue' = RemoveAt(eventQueue, i)
        /\ \A j \in 1 .. i - 1 : eventQueue[j].prio # p
  BY DeliveryTakesFirst
<1>3. At(p) /\ Call /\ UNCHANGED <<inputQueue, alive>>
  BY DEF DeliverEvent, Deliverable, NothingOfTheDead, objVars
<1>4. Mail!Runs("engine") /\ Calls(stack)' = Mail!Turned(p)
  BY <1>1, <1>3, CallTurns
<1>5. /\ DOMAIN eventQueue = 1 .. Len(eventQueue) /\ Len(eventQueue) \in Nat
      /\ \A j \in 1 .. i - 1 : j \in DOMAIN eventQueue
  BY <1>1, <1>2 DEF Typed
<1>6. /\ DOMAIN Letters(eventQueue) = DOMAIN eventQueue
      /\ \A j \in DOMAIN eventQueue : /\ Letters(eventQueue)[j].prio = eventQueue[j].prio
                                      /\ Letters(eventQueue)[j].src = eventQueue[j].src
  BY DEF Letters, Letter
<1>7. Letters(eventQueue)[i].src \in alive /\ Letters(eventQueue)[i].prio = p
  BY <1>2, <1>6 DEF NothingOfTheDead
<1>8. \A j \in 1 .. i - 1 : Letters(eventQueue)[j].prio # Letters(eventQueue)[i].prio
  BY <1>2, <1>5, <1>6, <1>7
<1>9. Letters(eventQueue)' = Mail!RemoveAt(Letters(eventQueue), i)
  BY <1>1, <1>2, RemoveAtLetters, SameRemoveAt DEF Typed
<1> QED
  BY <1>2, <1>3, <1>4, <1>6, <1>7, <1>8, <1>9 DEF Mail!Deliver

LEMMA InputDeliveryRefines ==
  ASSUME TypeOK, NothingOfTheDead, DeliverInput
  PROVE  Mail!DeliverInput
<1>1. Typed
  BY IsTyped
<1>2. /\ At("input") /\ Call /\ inputQueue # <<>> /\ inputQueue' = Tail(inputQueue)
      /\ UNCHANGED <<eventQueue, alive>>
  BY DEF DeliverInput, objVars
<1>3. Mail!Runs("engine") /\ Calls(stack)' = Mail!Turned("input")
  BY <1>1, <1>2, CallTurns
<1>4. Head(inputQueue).src \in alive
  <2>1. 1 \in DOMAIN inputQueue /\ Head(inputQueue) = inputQueue[1]
    BY <1>1, <1>2 DEF Typed
  <2> QED
    BY <2>1 DEF NothingOfTheDead
<1> QED
  BY <1>2, <1>3, <1>4 DEF Mail!DeliverInput

\* The engine's own moves, and the ends of handlers.
LEMMA MovesRefine ==
  ASSUME TypeOK, EngineMoves
  PROVE  Mail!HandlerEnds \/ Mail!Leave \/ Unseen
<1>1. Typed /\ Quiet /\ Depth > 0
  BY IsTyped DEF EngineMoves
<1>2. CASE Pop /\ HandlerOf(Top) = "engine"
  <2>1. Mail!Runs("engine") /\ Calls(stack)' = Mail!Popped
    BY <1>1, <1>2, CallsOf, CallsPopped DEF Typed, Mail!Runs
  <2> QED
    BY <1>1, <2>1 DEF Mail!Leave, Quiet
<1>3. CASE Settles
  <2>1. Calls(stack)' = Mail!Turned("engine")
    BY <1>1, <1>3, CallsTurned DEF Settles, Typed
  <2>2. CASE HandlerOf(Top) = "engine"
    <3>1. Calls(stack)' = Calls(stack)
      BY <1>1, <2>1, <2>2, CallsOf DEF Typed, Mail!Turned
    <3> QED
      BY <1>1, <3>1 DEF Unseen, Mail!vars, Quiet
  <2>3. CASE HandlerOf(Top) # "engine"
    <3>1. HandlerOf(Top) \in Prios \cup {"input"}
      BY <2>3 DEF HandlerOf, ScriptPhases, Prios
    <3>2. Mail!Runs(HandlerOf(Top))
      BY <1>1, CallsOf DEF Typed, Mail!Runs
    <3> QED
      BY <1>1, <2>1, <3>1, <3>2 DEF Mail!HandlerEnds, Mail!Prios, Prios, Quiet
  <2> QED
    BY <2>2, <2>3
<1> QED
  BY <1>2, <1>3 DEF EngineMoves

LEMMA EntersRefine ==
  ASSUME TypeOK, Quiet, Enters
  PROVE  Mail!Enter
<1>1. Calls(stack)' = Mail!Pushed
  BY IsTyped, CallsPushed DEF Typed, Enters
<1> QED
  BY <1>1 DEF Mail!Enter, Quiet

LEMMA MailStep ==
  ASSUME TypeOK, QueueOrdered, NothingOfTheDead, FinalizersOnce, [Next]_vars
  PROVE  Mail!Next \/ Unseen
<1>1. UNCHANGED vars => Unseen
  BY UnseenSteps DEF vars, queueVars, objVars, Quiet
<1>2. Script => Mail!Next \/ Unseen
  BY ScriptMoves, PostsRefine, CancelsRefine, InputRefines, InvalidatesRefine, EntersRefine,
     UnseenSteps DEF Mail!Next
<1>3. Engine => Mail!Next \/ Unseen
  BY EnginesMove, DeliveryRefines, InputDeliveryRefines, MovesRefine DEF Mail!Next
<1>4. HandlerEnds => Mail!Next \/ Unseen
  BY HandlersMove, InvalidatesRefine, MovesRefine DEF Mail!Next
<1> QED
  BY <1>1, <1>2, <1>3, <1>4 DEF Next

\* The queues and the stack of the engine implement Mailbox: whatever passes
\* nest, handlers throw and numbers are reset, no event is lost, delivered
\* twice or overtaken in its priority, no step but the call of a handler takes
\* one, and handlers return in the order of their calls (EventIntf.cpp).
THEOREM DeliveryImplementsMailbox == Spec => MailSpec
<1>1. Init => Mail!Init
  BY DEF Init, QueueInit, Mail!Init, Letters, Calls
<1>2. TypeOK /\ QueueOrdered /\ NothingOfTheDead /\ FinalizersOnce /\ [Next]_vars
        => [Mail!Next]_(Mail!vars)
  BY MailStep DEF Unseen
<1> QED
  BY <1>1, <1>2, TypeCorrect, QueueStaysOrdered, NothingOfTheDeadStays, FinalizersStayOnce, PTL
     DEF Spec, MailSpec, Mail!Spec
=============================================================================
