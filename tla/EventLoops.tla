----------------------------- MODULE EventLoops -----------------------------
(***************************************************************************)
(* The loops of a pass, for every set of objects, every bound and, unless  *)
(* a theorem says otherwise, every depth of nesting: the continuous        *)
(* calling, the updates of windows, the flags that guard the loops, the    *)
(* indices of the loops, then exclusive events and the border between two  *)
(* flushes.  What holds only when the uninitialised r of                   *)
(* TVPDeliverAllEvents is never read as false, or only when passes do not  *)
(* nest, says so in the assumptions of its theorem.                        *)
(***************************************************************************)
EXTENDS EventProofs

-----------------------------------------------------------------------------
(* Continuous events.                                                      *)

Holds(v) == \E i \in DOMAIN v : v[i] # None

\* Erasing registers nobody.
LEMMA ErasedHolds ==
  ASSUME NEW S, NEW q \in Seq(S), NEW gone, NEW r \in Erased(q, gone), Holds(r)
  PROVE  Holds(q) /\ r # <<>>
<1>1. /\ r \in Seq(S)
      /\ \E f \in [1 .. Len(r) -> DOMAIN q \ gone] : \A i \in 1 .. Len(r) : r[i] = q[f[i]]
  BY ErasedKeepsOrder
<1>2. PICK i \in DOMAIN r : r[i] # None
  BY DEF Holds
<1>3. i \in 1 .. Len(r)
  BY <1>1, <1>2
<1>4. Holds(q)
  BY <1>1, <1>2, <1>3 DEF Holds
<1> QED
  BY <1>1, <1>3, <1>4

\* Script code adds, which starts the calling, or empties cells.
LEMMA ScriptRegisters ==
  ASSUME Script, ContinuousTypeOK
  PROVE  contCalling' = TRUE \/ (UNCHANGED contCalling /\ (Registered' => Registered))
<1>1. CASE ScriptContinuous
  <2>1. ASSUME NEW h \in Hooks, AddHook(h) \/ RemoveHook(h)
        PROVE  contCalling' = TRUE \/ (UNCHANGED contCalling /\ (Registered' => Registered))
    BY <2>1 DEF AddHook, RemoveHook, Emptied, Registered
  <2>2. ASSUME NEW c \in Closures, AddClosure(c) \/ RemoveClosure(c)
        PROVE  contCalling' = TRUE \/ (UNCHANGED contCalling /\ (Registered' => Registered))
    BY <2>2 DEF AddClosure, RemoveClosure, Emptied, Registered
  <2> QED
    BY <1>1, <2>1, <2>2 DEF ScriptContinuous
<1>2. CASE ~ScriptContinuous
  <2>1. UNCHANGED <<hooks, closures, contCalling>>
    BY <1>2 DEF Script, ScriptPosts, ScriptCancels, ScriptInput, ScriptRequestsUpdate,
           InvalidateWindow, PostImmediate, UpdateWindow, BeginPass, contVars
  <2> QED
    BY <2>1 DEF Registered
<1> QED
  BY <1>1, <1>2

\* The engine erases and drops; only the end of the closures stops the calling.
LEMMA EngineRegisters ==
  ASSUME Engine \/ HandlerEnds, ContinuousTypeOK
  PROVE  EndClosures \/ (UNCHANGED contCalling /\ (Registered' => Registered))
<1>1. CASE EndHooks
  <2>1. UNCHANGED <<closures, contCalling>> /\ \E gone : hooks' \in Erased(hooks, gone)
    BY <1>1 DEF EndHooks
  <2>2. Holds(hooks') => Holds(hooks)
    BY <2>1, ErasedHolds DEF ContinuousTypeOK
  <2> QED
    BY <2>1, <2>2 DEF Registered, Holds
<1>2. CASE ReturnContinuous \/ ThrowContinuous
  <2>1. UNCHANGED <<hooks, contCalling>>
    BY <1>2 DEF ReturnContinuous, ThrowContinuous
  <2>2. closures' = closures \/ \E i : closures' = [closures EXCEPT ![i] = None]
    BY <1>2 DEF ReturnContinuous, ThrowContinuous, DropClosure
  <2>3. Holds(closures') => Holds(closures)
    BY <2>2 DEF Holds, ContinuousTypeOK
  <2> QED
    BY <2>1, <2>3 DEF Registered, Holds
<1>3. CASE ~EndHooks /\ ~EndClosures /\ ~ReturnContinuous /\ ~ThrowContinuous
  <2>1. UNCHANGED <<hooks, closures, contCalling>>
    BY <1>3 DEF Engine, HandlerEnds, DeliverEvent, EndLoop, DeliverInput, EndInput,
           AfterScriptPass, EndPass, BeginContinuous, CallHook, SkipHook, CallClosure,
           SkipClosure, BeginWindows, UpdateContent, EndWindows, ReturnPlain, ReturnInput,
           ThrowInScriptPass, ThrowIdle, ThrowWindows, EndInvalidateWindow, contVars
  <2> QED
    BY <2>1 DEF Registered
<1> QED
  BY <1>1, <1>2, <1>3

LEMMA KeptAliveStep ==
  ASSUME TypeOK, ContinuousKeptAlive, [Next]_vars
  PROVE  ContinuousKeptAlive'
<1>0. ContinuousTypeOK
  BY DEF TypeOK
<1>1. CASE EndClosures
  <2>1. /\ hooks' = hooks /\ \E gone : closures' \in Erased(closures, gone)
        /\ contCalling' = (contCalling /\ (hooks # <<>> \/ closures' # <<>>))
    BY <1>1 DEF EndClosures
  <2>2. Holds(closures') => Holds(closures) /\ closures' # <<>>
    BY <1>0, <2>1, ErasedHolds DEF ContinuousTypeOK
  <2>3. Holds(hooks) => hooks # <<>>
    BY DEF Holds
  <2> QED
    BY <2>1, <2>2, <2>3 DEF ContinuousKeptAlive, Registered, Holds
<1>2. CASE UNCHANGED vars
  BY <1>2 DEF vars, contVars, ContinuousKeptAlive, Registered
<1> QED
  BY <1>0, <1>1, <1>2, ScriptRegisters, EngineRegisters DEF Next, ContinuousKeptAlive

\* While a hook or a closure is registered the main loop keeps calling, in
\* whatever order handlers add, remove, fail and throw (EventIntf.cpp:
\* 1046-1047).
THEOREM CallingIsKeptAlive == Spec => []ContinuousKeptAlive
<1>1. Init => ContinuousKeptAlive
  BY DEF Init, ContinuousInit, ContinuousKeptAlive, Registered
<1>2. TypeOK /\ ContinuousKeptAlive /\ [Next]_vars => ContinuousKeptAlive'
  BY KeptAliveStep
<1> QED
  BY <1>1, <1>2, TypeCorrect, PTL DEF Spec

-----------------------------------------------------------------------------
(* Updates of windows.                                                     *)

\* The cells of a window are finitely many; a request adds one at the most,
\* and emptying cells adds none.
LEMMA CellsBounded ==
  ASSUME NEW S, NEW q \in Seq(S), NEW w
  PROVE  IsFiniteSet(CellsIn(q, w)) /\ Cardinality(CellsIn(q, w)) \in Nat
<1>1. IsFiniteSet(1 .. Len(q)) /\ CellsIn(q, w) \in SUBSET (1 .. Len(q))
  BY FS_Interval DEF CellsIn
<1> QED
  BY <1>1, FS_Subset, FS_CardinalityType

LEMMA AppendCells ==
  ASSUME NEW S, NEW q \in Seq(S), NEW x \in S, NEW w
  PROVE  Cardinality(CellsIn(Append(q, x), w)) =
           Cardinality(CellsIn(q, w)) + IF x = w THEN 1 ELSE 0
<1>1. DOMAIN Append(q, x) = 1 .. Len(q) + 1 /\ DOMAIN q = 1 .. Len(q) /\ Len(q) \in Nat
  OBVIOUS
<1>2. /\ \A i \in 1 .. Len(q) : Append(q, x)[i] = q[i]
      /\ Append(q, x)[Len(q) + 1] = x
  OBVIOUS
<1>3. Len(q) + 1 \notin CellsIn(q, w)
  BY <1>1 DEF CellsIn
<1>4. CASE x = w
  <2>1. CellsIn(Append(q, x), w) = CellsIn(q, w) \cup {Len(q) + 1}
    BY <1>1, <1>2, <1>4 DEF CellsIn
  <2> QED
    BY <1>3, <1>4, <2>1, CellsBounded, FS_AddElement
<1>5. CASE x # w
  <2>1. CellsIn(Append(q, x), w) = CellsIn(q, w)
    BY <1>1, <1>2, <1>5 DEF CellsIn
  <2> QED
    BY <1>5, <2>1, CellsBounded
<1> QED
  BY <1>4, <1>5

LEMMA RequestBounded ==
  ASSUME WindowTypeOK, UpdatesBounded, NEW w \in Windows, NEW v \in Windows
  PROVE  Cardinality(CellsIn(Requested(w), v)) <= CellLimit
<1>1. winUpdateQueue \in Seq(Windows \cup {None}) /\ CellLimit \in Nat
  BY DEF WindowTypeOK, CellLimit
<1>2. Cardinality(CellsIn(winUpdateQueue, v)) <= CellLimit
  BY DEF UpdatesBounded, CellsOf, CellsIn
<1>3. Cardinality(CellsIn(winUpdateQueue, v)) \in Nat
  BY <1>1, CellsBounded
<1>4. CASE Requested(w) = winUpdateQueue
  BY <1>2, <1>4
<1>5. CASE Cardinality(CellsOf(w)) < CellLimit
  <2>1. Requested(w) = Append(winUpdateQueue, w)
    BY <1>5 DEF Requested
  <2>2. Cardinality(CellsIn(Requested(w), v)) =
          Cardinality(CellsIn(winUpdateQueue, v)) + IF w = v THEN 1 ELSE 0
    BY <1>1, <2>1, AppendCells
  <2>3. w = v => Cardinality(CellsIn(winUpdateQueue, v)) < CellLimit
    BY <1>5 DEF CellsOf, CellsIn
  <2> QED
    BY <1>1, <1>2, <1>3, <2>2, <2>3
<1> QED
  BY <1>4, <1>5 DEF Requested

\* What a step does to the updates.
LEMMA UpdateSteps ==
  ASSUME [Next]_vars
  PROVE  \/ UNCHANGED winUpdateQueue /\ (winDelivering => winDelivering')
         \/ /\ \E w \in Windows : winUpdateQueue' = Requested(w)
            /\ winDelivering => winDelivering'
         \/ (\E w : RemoveWindowUpdate(w))
         \/ EndWindowUpdates
<1>1. CASE Script
  BY Zenon, <1>1 DEF Script, ScriptPosts, ScriptCancels, ScriptInput, ScriptRequestsUpdate,
         InvalidateWindow, ScriptContinuous, PostImmediate, UpdateWindow, BeginPass,
         PostWindowUpdate, winVars
<1>2. CASE Engine
  BY <1>2 DEF Engine, DeliverEvent, EndLoop, DeliverInput, EndInput, AfterScriptPass, EndPass,
         BeginContinuous, CallHook, SkipHook, EndHooks, CallClosure, SkipClosure, EndClosures,
         BeginWindows, UpdateContent, EndWindows, StartWindowUpdates, winVars
<1>3. CASE HandlerEnds
  BY <1>3 DEF HandlerEnds, ReturnPlain, ReturnInput, ReturnContinuous, ThrowInScriptPass,
         ThrowIdle, ThrowContinuous, ThrowWindows, EndInvalidateWindow, winVars
<1>4. CASE UNCHANGED vars
  BY <1>4 DEF vars, winVars
<1> QED
  BY <1>1, <1>2, <1>3, <1>4 DEF Next

LEMMA BoundedStep ==
  ASSUME TypeOK, UpdatesBounded, [Next]_vars
  PROVE  UpdatesBounded'
<1>1. WindowTypeOK /\ winUpdateQueue \in Seq(Windows \cup {None})
  BY DEF TypeOK, WindowTypeOK
<1>2. SUFFICES ASSUME NEW v \in Windows
               PROVE  Cardinality(CellsIn(winUpdateQueue', v)) <= CellLimit'
  BY DEF UpdatesBounded, CellsOf, CellsIn
<1>3. Cardinality(CellsIn(winUpdateQueue, v)) <= CellLimit
  BY DEF UpdatesBounded, CellsOf, CellsIn
<1>4. Cardinality(CellsIn(winUpdateQueue, v)) \in Nat /\ CellLimit \in Nat /\ CellLimit' \in Nat
  BY <1>1, CellsBounded DEF CellLimit
<1>5. ASSUME winDelivering => winDelivering' PROVE CellLimit <= CellLimit'
  BY <1>5 DEF CellLimit
<1>6. CASE UNCHANGED winUpdateQueue /\ (winDelivering => winDelivering')
  BY <1>3, <1>4, <1>5, <1>6
<1>7. CASE /\ \E w \in Windows : winUpdateQueue' = Requested(w)
           /\ winDelivering => winDelivering'
  <2>1. PICK w \in Windows : winUpdateQueue' = Requested(w)
    BY <1>7
  <2>2. Cardinality(CellsIn(winUpdateQueue', v)) <= CellLimit
    BY <1>1, <2>1, RequestBounded
  <2>3. winUpdateQueue' \in Seq(Windows \cup {None})
    BY <1>1, <2>1, WindowStepsType
  <2>4. Cardinality(CellsIn(winUpdateQueue', v)) \in Nat
    BY <2>3, CellsBounded
  <2> QED
    BY <1>4, <1>5, <1>7, <2>2, <2>4
<1>8. ASSUME NEW w, RemoveWindowUpdate(w)
      PROVE  Cardinality(CellsIn(winUpdateQueue', v)) <= CellLimit'
  <2>1. v # None
    BY TypesAssumption
  <2>2. CellsIn(winUpdateQueue', v) \in SUBSET CellsIn(winUpdateQueue, v)
    BY <1>1, <1>8, <2>1 DEF RemoveWindowUpdate, CellsIn
  <2>3. /\ IsFiniteSet(CellsIn(winUpdateQueue', v))
        /\ Cardinality(CellsIn(winUpdateQueue', v)) <= Cardinality(CellsIn(winUpdateQueue, v))
    BY <1>1, <2>2, CellsBounded, FS_Subset
  <2>4. CellLimit' = CellLimit
    BY <1>8 DEF RemoveWindowUpdate, CellLimit
  <2>5. Cardinality(CellsIn(winUpdateQueue', v)) \in Nat
    BY <2>3, FS_CardinalityType
  <2> QED
    BY <1>3, <1>4, <2>3, <2>4, <2>5
<1>9. CASE EndWindowUpdates
  <2>1. CellsIn(winUpdateQueue', v) = {}
    BY <1>9 DEF EndWindowUpdates, CellsIn
  <2> QED
    BY <1>4, <2>1, FS_EmptySet
<1> QED
  BY <1>6, <1>7, <1>8, <1>9, UpdateSteps

\* A window has one pending update, two while updates are delivered, so a
\* redraw that asks for a redraw cannot keep the loop going (EventIntf.cpp:
\* 662-699).
THEOREM UpdatesStayBounded == Spec => []UpdatesBounded
<1>1. Init => UpdatesBounded
  <2> SUFFICES ASSUME Init, NEW w \in Windows
               PROVE  Cardinality(CellsOf(w)) <= CellLimit
    BY DEF UpdatesBounded
  <2>1. CellsOf(w) = {} /\ CellLimit = 1
    BY DEF Init, WindowInit, CellsOf, CellLimit
  <2> QED
    BY <2>1, FS_EmptySet
<1>2. TypeOK /\ UpdatesBounded /\ [Next]_vars => UpdatesBounded'
  BY BoundedStep
<1> QED
  BY <1>1, <1>2, TypeCorrect, PTL DEF Spec

-----------------------------------------------------------------------------
(* The frames that are in a loop.                                          *)

\* How the moves of the stack change which frames are in the phases of P.
LEMMA Moves ==
  ASSUME stack \in Seq(Frame), NEW P
  PROVE  /\ \A f : Push(f) => LoopIn(P)' = LoopIn(P) \cup (IF f.phase \in P THEN {Depth + 1} ELSE {})
         /\ Depth > 0 => Depth \in DOMAIN stack /\ (Depth \in LoopIn(P) <=> Top.phase \in P)
         /\ \A f : Depth > 0 /\ SetTop(f) =>
              LoopIn(P)' = (LoopIn(P) \ {Depth}) \cup (IF f.phase \in P THEN {Depth} ELSE {})
         /\ Depth > 0 /\ Pop => LoopIn(P)' = LoopIn(P) \ {Depth}
<1>1. DOMAIN stack = 1 .. Depth /\ Depth \in Nat
  BY DEF Depth
<1>2. ASSUME NEW f, Push(f)
      PROVE  LoopIn(P)' = LoopIn(P) \cup (IF f.phase \in P THEN {Depth + 1} ELSE {})
  <2>1. DOMAIN stack' = 1 .. Depth + 1
    BY <1>1, <1>2 DEF Push, Depth
  <2>2. (\A d \in 1 .. Depth : stack'[d] = stack[d]) /\ stack'[Depth + 1] = f
    BY <1>1, <1>2 DEF Push, Depth
  <2> QED
    BY <1>1, <2>1, <2>2 DEF LoopIn
<1>3. Depth > 0 => Depth \in DOMAIN stack /\ (Depth \in LoopIn(P) <=> Top.phase \in P)
  BY <1>1 DEF LoopIn, Top
<1>4. ASSUME NEW f, Depth > 0, SetTop(f)
      PROVE  LoopIn(P)' = (LoopIn(P) \ {Depth}) \cup (IF f.phase \in P THEN {Depth} ELSE {})
  BY <1>1, <1>4 DEF SetTop, LoopIn
<1>5. ASSUME Depth > 0, Pop PROVE LoopIn(P)' = LoopIn(P) \ {Depth}
  <2>1. DOMAIN stack' = 1 .. Depth - 1 /\ \A d \in 1 .. Depth - 1 : stack'[d] = stack[d]
    BY <1>1, <1>5 DEF Pop
  <2> QED
    BY <1>1, <2>1 DEF LoopIn
<1> QED
  BY <1>2, <1>3, <1>4, <1>5

\* A loop that goes on stays the loop it is.
LEMMA LoopStays ==
  ASSUME stack \in Seq(Frame), Depth > 0, NEW P,
         (\E b, k, e : Loop(b, k, e)) \/ Call \/ Return \/ NextCell \/ SkipCell
  PROVE  LoopIn(P)' = LoopIn(P)
<1>1. \E b, k, e : SetTop(FrameOf(Top.phase, b, k, e, Top.win))
  BY DEF Loop, Call, Return, NextCell, SkipCell
<1>2. PICK f : SetTop(f) /\ f.phase = Top.phase
  BY <1>1 DEF FrameOf
<1>3. LoopIn(P)' = (LoopIn(P) \ {Depth}) \cup (IF Top.phase \in P THEN {Depth} ELSE {})
  BY <1>2, Moves
<1>4. Depth \in LoopIn(P) <=> Top.phase \in P
  BY Moves
<1> QED
  BY <1>3, <1>4

\* A step to a phase.
LEMMA LoopGoes ==
  ASSUME stack \in Seq(Frame), Depth > 0, NEW P, NEW p, Goto(p)
  PROVE  LoopIn(P)' = (LoopIn(P) \ {Depth}) \cup (IF p \in P THEN {Depth} ELSE {})
<1>1. SetTop(NewFrame(p)) /\ NewFrame(p).phase = p
  BY DEF Goto, NewFrame, FrameOf
<1> QED
  BY <1>1, Moves

\* A new frame.
LEMMA LoopEnters ==
  ASSUME stack \in Seq(Frame), NEW P, NEW p,
         Push(NewFrame(p)) \/ \E w : Push(CallFrame(p, w))
  PROVE  LoopIn(P)' = LoopIn(P) \cup (IF p \in P THEN {Depth + 1} ELSE {})
<1>1. NewFrame(p).phase = p /\ \A w : CallFrame(p, w).phase = p
  BY DEF NewFrame, CallFrame, FrameOf
<1> QED
  BY <1>1, Moves

-----------------------------------------------------------------------------
(* The flags that guard the loops.                                         *)

OfWindows    == {"windows", "update"}
OfContinuous == {"hooks", "closures"}

\* One loop at most, and the flag says whether there is one.
Guarded(flag, loops) == (flag <=> loops # {}) /\ \A d, e \in loops : d = e

\* What a step may do to a flag and its loops: nothing, start the only loop,
\* end the one in the top frame.
Keeps(flag, next, loops, after) == next = flag /\ after = loops
Starts(flag, next, loops, after) == ~flag /\ next = TRUE /\ \E d : after = loops \cup {d}
Ends(next, loops, after) == next = FALSE /\ Depth \in loops /\ after = loops \ {Depth}

LEMMA GuardKept ==
  ASSUME NEW flag \in BOOLEAN, NEW next, NEW loops, NEW after, Guarded(flag, loops),
         Keeps(flag, next, loops, after) \/ Starts(flag, next, loops, after)
           \/ Ends(next, loops, after)
  PROVE  Guarded(next, after)
BY DEF Guarded, Keeps, Starts, Ends

\* Script code enters a loop by updating a window, and in no other way.
LEMMA ScriptLeavesLoops ==
  ASSUME TypeOK, Script, ~UpdateWindow, NEW P,
         "exclusive" \notin P, "immediate" \notin P, "finalizers" \notin P
  PROVE  LoopIn(P)' = LoopIn(P)
<1>1. stack \in Seq(Frame)
  BY DEF TypeOK
<1>2. ASSUME NEW p, p \notin P, Push(NewFrame(p)) \/ \E w : Push(CallFrame(p, w))
      PROVE  LoopIn(P)' = LoopIn(P)
  <2>1. LoopIn(P)' = LoopIn(P) \cup (IF p \in P THEN {Depth + 1} ELSE {})
    BY <1>1, <1>2, LoopEnters
  <2> QED
    BY <1>2, <2>1
<1>3. CASE PostImmediate
  BY <1>2, <1>3 DEF PostImmediate
<1>4. CASE InvalidateWindow
  BY <1>2, <1>4 DEF InvalidateWindow
<1>5. CASE BeginPass
  BY <1>2, <1>5 DEF BeginPass
<1>6. CASE UNCHANGED stack
  BY <1>6 DEF LoopIn
<1> QED
  BY <1>3, <1>4, <1>5, <1>6
     DEF Script, ScriptPosts, ScriptCancels, ScriptInput, ScriptRequestsUpdate, ScriptContinuous

\* A step between two phases that are not of P, and the end of such a frame.
LEMMA OutsideLoops ==
  ASSUME stack \in Seq(Frame), Depth > 0, NEW P, Top.phase \notin P,
         Pop \/ \E q : q \notin P /\ Goto(q)
  PROVE  LoopIn(P)' = LoopIn(P)
<1>1. Depth \notin LoopIn(P)
  BY Moves
<1>2. CASE Pop
  <2>1. LoopIn(P)' = LoopIn(P) \ {Depth}
    BY <1>2, Moves
  <2> QED
    BY <1>1, <2>1
<1>3. ASSUME NEW q, q \notin P, Goto(q) PROVE LoopIn(P)' = LoopIn(P)
  <2>1. LoopIn(P)' = (LoopIn(P) \ {Depth}) \cup {}
    BY <1>3, LoopGoes
  <2> QED
    BY <1>1, <2>1
<1> QED
  BY <1>2, <1>3

\* The phases that are no loop of windows or of continuous events.
Plain == Phases \ (OfWindows \cup OfContinuous)

LEMMA PassLeavesLoops ==
  ASSUME TypeOK, NEW P, P \cap Plain = {},
         \/ \E p \in ScriptPhases : DeliverEvent(p) \/ EndLoop(p)
         \/ DeliverInput \/ EndInput \/ AfterScriptPass \/ EndPass
         \/ ReturnInput \/ ThrowInScriptPass \/ ThrowIdle \/ EndInvalidateWindow
  PROVE  LoopIn(P)' = LoopIn(P)
<1>1. stack \in Seq(Frame)
  BY DEF TypeOK
<1>2. Plain = {"tail", "input", "normal", "continuous", "interrupt", "finish", "idle",
               "exclusive", "immediate", "finalizers", "window"}
  BY DEF Plain, Phases, ScriptPhases, OfWindows, OfContinuous
<1>3. ASSUME NEW p \in ScriptPhases, DeliverEvent(p) PROVE LoopIn(P)' = LoopIn(P)
  BY <1>1, <1>3, LoopStays DEF DeliverEvent, At
<1>4. ASSUME Depth > 0, Top.phase \in Plain, Pop \/ \E q \in Plain : Goto(q)
      PROVE  LoopIn(P)' = LoopIn(P)
  BY <1>1, <1>4, OutsideLoops
<1>5. ASSUME NEW p \in ScriptPhases, EndLoop(p) PROVE LoopIn(P)' = LoopIn(P)
  <2>1. Depth > 0 /\ Top.phase \in Plain
    BY <1>2, <1>5 DEF EndLoop, At, ScriptPhases
  <2>2. AfterLoop(p) \in Plain
    BY <1>2 DEF AfterLoop, ScriptPhases
  <2> QED
    BY <1>4, <1>5, <2>1, <2>2 DEF EndLoop
<1>6. CASE DeliverInput
  BY <1>1, <1>6, LoopStays DEF DeliverInput, At
<1>7. CASE EndInput
  BY <1>2, <1>4, <1>7 DEF EndInput, At
<1>8. CASE AfterScriptPass
  <2>1. Depth > 0 /\ Top.phase \in Plain
    BY <1>2, <1>8 DEF AfterScriptPass, At
  <2>2. Goto("finish") \/ Goto("idle")
    BY <1>8 DEF AfterScriptPass
  <2> QED
    BY <1>2, <1>4, <2>1, <2>2
<1>9. CASE EndPass \/ EndInvalidateWindow
  BY <1>2, <1>4, <1>9 DEF EndPass, EndInvalidateWindow, At, InHandler
<1>10. CASE ReturnInput
  <2>1. Depth > 0 /\ Top.phase \in Plain
    BY <1>2, <1>10 DEF ReturnInput, InHandler
  <2>2. Goto("tail") \/ Return
    BY <1>10 DEF ReturnInput
  <2> QED
    BY <1>1, <1>2, <1>4, <2>1, <2>2, LoopStays
<1>11. CASE ThrowInScriptPass
  <2>1. Depth > 0 /\ Top.phase \in Plain
    BY <1>2, <1>11 DEF ThrowInScriptPass, InHandler
  <2>2. Goto("tail") \/ Goto("interrupt")
    BY <1>11 DEF ThrowInScriptPass
  <2> QED
    BY <1>2, <1>4, <2>1, <2>2
<1>12. CASE ThrowIdle
  BY <1>2, <1>4, <1>12 DEF ThrowIdle, InHandler
<1> QED
  BY <1>3, <1>5, <1>6, <1>7, <1>8, <1>9, <1>10, <1>11, <1>12

\* The loops of windows.
LEMMA WindowsGuard ==
  ASSUME TypeOK, LoopGuards, Next
  PROVE  \/ Keeps(winDelivering, winDelivering', LoopIn(OfWindows), LoopIn(OfWindows)')
         \/ Starts(winDelivering, winDelivering', LoopIn(OfWindows), LoopIn(OfWindows)')
         \/ Ends(winDelivering', LoopIn(OfWindows), LoopIn(OfWindows)')
<1> DEFINE L == LoopIn(OfWindows)
<1> DEFINE Goal == \/ Keeps(winDelivering, winDelivering', L, L')
                   \/ Starts(winDelivering, winDelivering', L, L')
                   \/ Ends(winDelivering', L, L')
<1>1. stack \in Seq(Frame)
  BY DEF TypeOK
<1>2. ASSUME Script, ~UpdateWindow PROVE Goal
  <2>1. L' = L
    BY <1>2, ScriptLeavesLoops DEF OfWindows
  <2>2. winDelivering' = winDelivering
    BY Zenon, <1>2 DEF Script, ScriptPosts, ScriptCancels, ScriptInput, ScriptRequestsUpdate,
           InvalidateWindow, ScriptContinuous, PostImmediate, BeginPass, PostWindowUpdate,
           RemoveWindowUpdate, winVars
  <2> QED
    BY <2>1, <2>2 DEF Keeps
<1>3. ASSUME UpdateWindow PROVE Goal
  <2>1. CASE winDelivering
    BY <1>3, <2>1 DEF UpdateWindow, Keeps, LoopIn
  <2>2. CASE ~winDelivering
    <3>1. L' = L \cup (IF "update" \in OfWindows THEN {Depth + 1} ELSE {})
      BY <1>1, <1>3, <2>2, LoopEnters DEF UpdateWindow
    <3> QED
      BY <1>3, <2>2, <3>1 DEF UpdateWindow, Starts, OfWindows
  <2> QED
    BY <2>1, <2>2
<1>4. ASSUME \/ \E p \in ScriptPhases : DeliverEvent(p) \/ EndLoop(p)
             \/ DeliverInput \/ EndInput \/ AfterScriptPass \/ EndPass
             \/ ReturnInput \/ ThrowInScriptPass \/ ThrowIdle \/ EndInvalidateWindow
      PROVE  Goal
  <2>1. L' = L
    BY <1>4, PassLeavesLoops DEF OfWindows, Plain
  <2>2. winDelivering' = winDelivering
    BY <1>4 DEF DeliverEvent, EndLoop, DeliverInput, EndInput, AfterScriptPass, EndPass,
           ReturnInput, ThrowInScriptPass, ThrowIdle, EndInvalidateWindow,
           RemoveWindowUpdate, winVars
  <2> QED
    BY <2>1, <2>2 DEF Keeps
<1>5. ASSUME CallHook \/ CallClosure \/ SkipClosure PROVE Goal
  <2>1. L' = L
    BY <1>1, <1>5, LoopStays DEF CallHook, CallClosure, SkipClosure, At
  <2> QED
    BY <1>5, <2>1 DEF CallHook, CallClosure, SkipClosure, Keeps, winVars
<1>6. ASSUME BeginContinuous \/ SkipHook \/ EndHooks \/ EndClosures
               \/ ReturnContinuous \/ ThrowContinuous
      PROVE  Goal
  <2>1. Depth > 0 /\ Top.phase \notin OfWindows /\ winDelivering' = winDelivering
    BY <1>6 DEF BeginContinuous, SkipHook, EndHooks, EndClosures, ReturnContinuous,
           ThrowContinuous, At, InHandler, OfWindows, winVars
  <2>2. \/ Goto("hooks") \/ Goto("window") \/ Goto("closures")
        \/ SkipCell \/ \E b, k, e : Loop(b, k, e)
    BY <1>6 DEF BeginContinuous, SkipHook, EndHooks, EndClosures, ReturnContinuous,
           ThrowContinuous
  <2>3. {"hooks", "window", "closures"} \cap OfWindows = {}
    BY DEF OfWindows
  <2>4. L' = L
    BY <1>1, <2>1, <2>2, <2>3, OutsideLoops, LoopStays
  <2> QED
    BY <2>1, <2>4 DEF Keeps
<1>7. ASSUME BeginWindows PROVE Goal
  <2>1. Depth > 0 /\ Top.phase \notin OfWindows
    BY <1>7 DEF BeginWindows, At, OfWindows
  <2>2. CASE winDelivering
    <3>1. "finish" \notin OfWindows /\ Goto("finish")
      BY <1>7, <2>2 DEF BeginWindows, OfWindows
    <3>2. L' = L
      BY <1>1, <2>1, <3>1, OutsideLoops
    <3> QED
      BY <1>7, <2>2, <3>2 DEF BeginWindows, Keeps, winVars
  <2>3. CASE ~winDelivering
    <3>1. L' = (L \ {Depth}) \cup (IF "windows" \in OfWindows THEN {Depth} ELSE {})
      BY <1>1, <1>7, <2>1, <2>3, LoopGoes DEF BeginWindows
    <3>2. Depth \notin L
      BY <1>1, <2>1, Moves
    <3> QED
      BY <1>7, <2>3, <3>1, <3>2 DEF BeginWindows, StartWindowUpdates, Starts, OfWindows
  <2> QED
    BY <2>2, <2>3
<1>8. ASSUME NEW p \in {"windows", "update"}, UpdateContent(p) PROVE Goal
  <2>1. Depth > 0 /\ (NextCell \/ Call)
    BY <1>8 DEF UpdateContent, At
  <2>2. L' = L
    BY <1>1, <2>1, LoopStays
  <2> QED
    BY <1>8, <2>2 DEF UpdateContent, Keeps, winVars
<1>9. ASSUME ThrowWindows \/ \E p \in {"windows", "update"} : EndWindows(p) PROVE Goal
  <2>1. /\ Depth > 0 /\ Top.phase \in OfWindows /\ winDelivering' = FALSE
        /\ Goto("finish") \/ Pop
    BY <1>9 DEF ThrowWindows, EndWindows, EndWindowUpdates, At, InHandler, OfWindows
  <2>2. Depth \in L
    BY <1>1, <2>1, Moves
  <2>3. CASE Pop
    <3>1. L' = L \ {Depth}
      BY <1>1, <2>1, <2>3, Moves
    <3> QED
      BY <2>1, <2>2, <3>1 DEF Ends
  <2>4. CASE Goto("finish")
    <3>1. L' = (L \ {Depth}) \cup (IF "finish" \in OfWindows THEN {Depth} ELSE {})
      BY <1>1, <2>1, <2>4, LoopGoes
    <3>2. "finish" \notin OfWindows
      BY DEF OfWindows
    <3> QED
      BY <2>1, <2>2, <3>1, <3>2 DEF Ends
  <2> QED
    BY <2>1, <2>3, <2>4
<1>10. ASSUME ReturnPlain PROVE Goal
  <2>1. CASE Top.phase = "immediate"
    <3>1. Depth > 0 /\ Pop /\ Top.phase \notin OfWindows
      BY <1>10, <2>1 DEF ReturnPlain, OfWindows, ScriptPhases
    <3>2. L' = L
      BY <1>1, <3>1, OutsideLoops
    <3> QED
      BY <1>10, <3>2 DEF ReturnPlain, Keeps, winVars
  <2>2. CASE Top.phase # "immediate"
    <3>1. Depth > 0 /\ (Return \/ NextCell)
      BY <1>10, <2>2 DEF ReturnPlain
    <3>2. L' = L
      BY <1>1, <3>1, LoopStays
    <3> QED
      BY <1>10, <3>2 DEF ReturnPlain, Keeps, winVars
  <2> QED
    BY <2>1, <2>2
<1> HIDE DEF Goal
<1>11. Goal
  BY <1>2, <1>3, <1>4, <1>5, <1>6, <1>7, <1>8, <1>9, <1>10 DEF Next, Engine, HandlerEnds
<1> QED
  BY <1>11 DEF Goal

\* The loops of continuous events.
LEMMA ContinuousGuard ==
  ASSUME TypeOK, LoopGuards, Next
  PROVE  \/ Keeps(contProcessing, contProcessing', LoopIn(OfContinuous), LoopIn(OfContinuous)')
         \/ Starts(contProcessing, contProcessing', LoopIn(OfContinuous), LoopIn(OfContinuous)')
         \/ Ends(contProcessing', LoopIn(OfContinuous), LoopIn(OfContinuous)')
<1> DEFINE L == LoopIn(OfContinuous)
<1> DEFINE Goal == \/ Keeps(contProcessing, contProcessing', L, L')
                   \/ Starts(contProcessing, contProcessing', L, L')
                   \/ Ends(contProcessing', L, L')
<1>1. stack \in Seq(Frame)
  BY DEF TypeOK
<1>2. ASSUME Script PROVE Goal
  <2>1. L' = L
    <3>1. CASE ~UpdateWindow
      BY <1>2, <3>1, ScriptLeavesLoops DEF OfContinuous
    <3>2. CASE UpdateWindow /\ winDelivering
      BY <3>2 DEF UpdateWindow, LoopIn
    <3>3. CASE UpdateWindow /\ ~winDelivering
      <4>1. L' = L \cup (IF "update" \in OfContinuous THEN {Depth + 1} ELSE {})
        BY <1>1, <3>3, LoopEnters DEF UpdateWindow
      <4>2. "update" \notin OfContinuous
        BY DEF OfContinuous
      <4> QED
        BY <4>1, <4>2
    <3> QED
      BY <3>1, <3>2, <3>3
  <2>2. contProcessing' = contProcessing
    BY Zenon, <1>2 DEF Script, ScriptPosts, ScriptCancels, ScriptInput, ScriptRequestsUpdate,
           InvalidateWindow, ScriptContinuous, PostImmediate, UpdateWindow, BeginPass,
           AddHook, RemoveHook, AddClosure, RemoveClosure, contVars
  <2> QED
    BY <2>1, <2>2 DEF Keeps
<1>3. ASSUME \/ \E p \in ScriptPhases : DeliverEvent(p) \/ EndLoop(p)
             \/ DeliverInput \/ EndInput \/ AfterScriptPass \/ EndPass
             \/ ReturnInput \/ ThrowInScriptPass \/ ThrowIdle \/ EndInvalidateWindow
      PROVE  Goal
  <2>1. L' = L
    BY <1>3, PassLeavesLoops DEF OfContinuous, Plain
  <2>2. contProcessing' = contProcessing
    BY <1>3 DEF DeliverEvent, EndLoop, DeliverInput, EndInput, AfterScriptPass, EndPass,
           ReturnInput, ThrowInScriptPass, ThrowIdle, EndInvalidateWindow, contVars
  <2> QED
    BY <2>1, <2>2 DEF Keeps
<1>4. ASSUME CallHook \/ CallClosure \/ SkipClosure PROVE Goal
  <2>1. L' = L
    BY <1>1, <1>4, LoopStays DEF CallHook, CallClosure, SkipClosure, At
  <2> QED
    BY <1>4, <2>1 DEF CallHook, CallClosure, SkipClosure, Keeps, contVars
<1>5. ASSUME BeginContinuous PROVE Goal
  <2>1. /\ Depth > 0 /\ Top.phase \notin OfContinuous
        /\ contProcessing' = (contProcessing \/ contFlag)
        /\ Goto(IF contFlag /\ ~contProcessing THEN "hooks" ELSE "window")
    BY <1>5 DEF BeginContinuous, At, OfContinuous
  <2>2. CASE contFlag /\ ~contProcessing
    <3>1. L' = (L \ {Depth}) \cup (IF "hooks" \in OfContinuous THEN {Depth} ELSE {})
      BY <1>1, <2>1, <2>2, LoopGoes
    <3>2. Depth \notin L
      BY <1>1, <2>1, Moves
    <3> QED
      BY <2>1, <2>2, <3>1, <3>2 DEF Starts, OfContinuous
  <2>3. CASE ~(contFlag /\ ~contProcessing)
    <3>1. "window" \notin OfContinuous /\ Goto("window")
      BY <2>1, <2>3 DEF OfContinuous
    <3>2. L' = L
      BY <1>1, <2>1, <3>1, OutsideLoops
    <3>3. contProcessing' = contProcessing
      BY <2>1, <2>3 DEF TypeOK, ContinuousTypeOK
    <3> QED
      BY <3>2, <3>3 DEF Keeps
  <2> QED
    BY <2>2, <2>3
<1>6. ASSUME EndHooks PROVE Goal
  <2>1. /\ Depth > 0 /\ Top.phase \in OfContinuous /\ Goto("closures")
        /\ contProcessing' = contProcessing
    BY <1>6 DEF EndHooks, At, OfContinuous
  <2>2. L' = (L \ {Depth}) \cup (IF "closures" \in OfContinuous THEN {Depth} ELSE {})
    BY <1>1, <2>1, LoopGoes
  <2>3. Depth \in L
    BY <1>1, <2>1, Moves
  <2> QED
    BY <2>1, <2>2, <2>3 DEF Keeps, OfContinuous
<1>7. ASSUME SkipHook \/ EndClosures \/ ReturnContinuous \/ ThrowContinuous PROVE Goal
  <2>1. Depth > 0 /\ Top.phase \in OfContinuous
    BY <1>7 DEF SkipHook, EndClosures, ReturnContinuous, ThrowContinuous, At, InHandler,
           OfContinuous
  <2>2. \/ Goto("window") /\ contProcessing' = FALSE
        \/ /\ SkipCell \/ \E b, k, e : Loop(b, k, e)
           /\ contProcessing' = contProcessing
    BY <1>7 DEF SkipHook, EndClosures, ReturnContinuous, ThrowContinuous
  <2>3. CASE Goto("window") /\ contProcessing' = FALSE
    <3>1. L' = (L \ {Depth}) \cup (IF "window" \in OfContinuous THEN {Depth} ELSE {})
      BY <1>1, <2>1, <2>3, LoopGoes
    <3>2. "window" \notin OfContinuous
      BY DEF OfContinuous
    <3>3. Depth \in L
      BY <1>1, <2>1, Moves
    <3> QED
      BY <2>3, <3>1, <3>2, <3>3 DEF Ends
  <2>4. CASE (SkipCell \/ \E b, k, e : Loop(b, k, e)) /\ contProcessing' = contProcessing
    <3>1. L' = L
      BY <1>1, <2>1, <2>4, LoopStays
    <3> QED
      BY <2>4, <3>1 DEF Keeps
  <2> QED
    BY <2>2, <2>3, <2>4
<1>8. ASSUME ThrowWindows \/ BeginWindows
               \/ \E p \in {"windows", "update"} : UpdateContent(p) \/ EndWindows(p)
      PROVE  Goal
  <2>1. Depth > 0 /\ Top.phase \notin OfContinuous /\ contProcessing' = contProcessing
    BY <1>8 DEF ThrowWindows, BeginWindows, UpdateContent, EndWindows, At, InHandler,
           OfContinuous, contVars
  <2>2. Goto("finish") \/ Goto("windows") \/ Pop \/ NextCell \/ Call
    BY <1>8 DEF ThrowWindows, BeginWindows, UpdateContent, EndWindows
  <2>3. {"finish", "windows"} \cap OfContinuous = {}
    BY DEF OfContinuous
  <2>4. L' = L
    BY <1>1, <2>1, <2>2, <2>3, OutsideLoops, LoopStays
  <2> QED
    BY <2>1, <2>4 DEF Keeps
<1>9. ASSUME ReturnPlain PROVE Goal
  <2>1. /\ Depth > 0 /\ Top.phase \notin OfContinuous /\ contProcessing' = contProcessing
        /\ Pop \/ Return \/ NextCell
    BY <1>9 DEF ReturnPlain, OfContinuous, ScriptPhases, contVars
  <2>2. L' = L
    BY <1>1, <2>1, OutsideLoops, LoopStays
  <2> QED
    BY <2>1, <2>2 DEF Keeps
<1> HIDE DEF Goal
<1>10. Goal
  BY <1>2, <1>3, <1>4, <1>5, <1>6, <1>7, <1>8, <1>9 DEF Next, Engine, HandlerEnds
<1> QED
  BY <1>10 DEF Goal

LEMMA GuardsStep ==
  ASSUME TypeOK, LoopGuards, [Next]_vars
  PROVE  LoopGuards'
<1>1. /\ winDelivering \in BOOLEAN /\ Guarded(winDelivering, LoopIn(OfWindows))
      /\ contProcessing \in BOOLEAN /\ Guarded(contProcessing, LoopIn(OfContinuous))
  BY DEF TypeOK, WindowTypeOK, ContinuousTypeOK, LoopGuards, Guarded, OfWindows, OfContinuous
<1>2. CASE Next
  <2>1. Guarded(winDelivering', LoopIn(OfWindows)')
    BY <1>1, <1>2, WindowsGuard, GuardKept
  <2>2. Guarded(contProcessing', LoopIn(OfContinuous)')
    BY <1>1, <1>2, ContinuousGuard, GuardKept
  <2> QED
    BY <2>1, <2>2 DEF LoopGuards, Guarded, OfWindows, OfContinuous
<1>3. CASE UNCHANGED vars
  BY <1>3 DEF vars, winVars, contVars, LoopGuards, LoopIn
<1> QED
  BY <1>2, <1>3

\* A guard flag says exactly whether its loop runs, and the loop runs in one
\* frame at most, whatever passes nest and whichever handlers throw
\* (TVPDeliverContinuousEvent and TVPDeliverWindowUpdateEvents).
THEOREM GuardsStayExact == Spec => []LoopGuards
<1>1. Init => LoopGuards
  BY DEF Init, WindowInit, ContinuousInit, LoopGuards, LoopIn
<1>2. TypeOK /\ LoopGuards /\ [Next]_vars => LoopGuards'
  BY GuardsStep
<1> QED
  BY <1>1, <1>2, TypeCorrect, PTL DEF Spec

-----------------------------------------------------------------------------
(* The indices of the loops.                                               *)

\* How many cells the loop of phase p walks over, when the three vectors are
\* w, h and c.
Cells(p, w, h, c) ==
  CASE p \in OfWindows -> Len(w)
    [] p = "hooks"     -> Len(h)
    [] p = "closures"  -> Len(c)
    [] OTHER           -> 1

\* The index of a frame fits; where there is nothing to walk over it is 1.
Fits(f, w, h, c) ==
  /\ f.idx <= Cells(f.phase, w, h, c) + (IF f.running THEN 0 ELSE 1)
  /\ f.phase \in Plain => f.idx = 1

IndicesFit == \A d \in DOMAIN stack : Fits(stack[d], winUpdateQueue, hooks, closures)
FitsNow(f)  == Fits(f, winUpdateQueue, hooks, closures)
FitsNext(f) == Fits(f, winUpdateQueue', hooks', closures')

LEMMA VectorsNext ==
  ASSUME TypeOK, TypeOK'
  PROVE  /\ Len(winUpdateQueue) \in Nat /\ Len(hooks) \in Nat /\ Len(closures) \in Nat
         /\ Len(winUpdateQueue') \in Nat /\ Len(hooks') \in Nat /\ Len(closures') \in Nat
BY DEF TypeOK, WindowTypeOK, ContinuousTypeOK

\* A new frame fits whatever the vectors are.
LEMMA NewFits ==
  ASSUME NEW p \in Phases, NEW w, NEW h, NEW c, Len(w) \in Nat, Len(h) \in Nat, Len(c) \in Nat
  PROVE  /\ Fits(NewFrame(p), w, h, c)
         /\ p \in Plain => \A x : Fits(CallFrame(p, x), w, h, c)
<1>1. /\ NewFrame(p).idx = 1 /\ NewFrame(p).phase = p /\ NewFrame(p).running = FALSE
      /\ \A x : CallFrame(p, x).idx = 1 /\ CallFrame(p, x).phase = p
  BY DEF NewFrame, CallFrame, FrameOf
<1>2. Cells(p, w, h, c) \in Nat /\ (p \in Plain => Cells(p, w, h, c) = 1)
  BY DEF Cells, Plain, OfWindows, OfContinuous
<1> QED
  BY <1>1, <1>2 DEF Fits

\* A frame keeps fitting while the vector of its loop does not shrink.
LEMMA StillFits ==
  ASSUME TypeOK, TypeOK', NEW d \in DOMAIN stack, FitsNow(stack[d]),
         stack[d].phase \in OfWindows => Len(winUpdateQueue) <= Len(winUpdateQueue'),
         stack[d].phase = "hooks" => Len(hooks) <= Len(hooks'),
         stack[d].phase = "closures" => Len(closures) <= Len(closures')
  PROVE  FitsNext(stack[d])
<1> DEFINE before == Cells(stack[d].phase, winUpdateQueue, hooks, closures)
           after  == Cells(stack[d].phase, winUpdateQueue', hooks', closures')
<1>1. before \in Nat /\ after \in Nat /\ before <= after
  BY VectorsNext DEF Cells, OfWindows
<1>2. stack[d].idx \in Nat
  <2>1. stack[d] \in Frame
    BY DEF TypeOK
  <2> QED
    BY <2>1 DEF Frame
<1> HIDE DEF before, after
<1>3. /\ stack[d].idx <= before + (IF stack[d].running THEN 0 ELSE 1)
      /\ stack[d].phase \in Plain => stack[d].idx = 1
  BY DEF FitsNow, Fits, before
<1>4. stack[d].idx <= after + (IF stack[d].running THEN 0 ELSE 1)
  BY <1>1, <1>2, <1>3
<1> QED
  BY <1>3, <1>4 DEF FitsNext, Fits, after

LEMMA PushFrames ==
  ASSUME stack \in Seq(Frame), NEW f, Push(f)
  PROVE  /\ DOMAIN stack' = 1 .. Depth + 1 /\ stack'[Depth + 1] = f
         /\ \A i \in 1 .. Depth : stack'[i] = stack[i]
<1>1. DOMAIN stack = 1 .. Depth /\ Depth \in Nat
  BY DEF Depth
<1>2. DOMAIN stack' = 1 .. Depth + 1
  BY <1>1 DEF Push, Depth
<1>3. (\A i \in 1 .. Depth : stack'[i] = stack[i]) /\ stack'[Depth + 1] = f
  BY <1>1 DEF Push, Depth
<1> QED
  BY <1>2, <1>3

\* What each move of the stack asks for.
LEMMA FitMoves ==
  ASSUME stack \in Seq(Frame), \A d \in 1 .. Depth - 1 : FitsNext(stack[d]),
         \/ UNCHANGED stack /\ (Depth > 0 => FitsNext(Top))
         \/ \E f : Push(f) /\ FitsNext(f) /\ (Depth > 0 => FitsNext(Top))
         \/ Depth > 0 /\ \E f : SetTop(f) /\ FitsNext(f)
         \/ Depth > 0 /\ Pop
  PROVE  IndicesFit'
<1>1. DOMAIN stack = 1 .. Depth /\ Depth \in Nat
  BY DEF Depth
<1>2. SUFFICES ASSUME NEW d \in DOMAIN stack' PROVE FitsNext(stack'[d])
  BY DEF IndicesFit, FitsNext
<1>3. CASE UNCHANGED stack /\ (Depth > 0 => FitsNext(Top))
  BY <1>1, <1>3 DEF Top
<1>4. ASSUME NEW f, Push(f), FitsNext(f), Depth > 0 => FitsNext(Top) PROVE FitsNext(stack'[d])
  <2>1. /\ DOMAIN stack' = 1 .. Depth + 1 /\ stack'[Depth + 1] = f
        /\ \A i \in 1 .. Depth : stack'[i] = stack[i]
    BY <1>4, PushFrames
  <2> QED
    BY <1>1, <1>4, <2>1 DEF Top
<1>5. ASSUME NEW f, Depth > 0, SetTop(f), FitsNext(f) PROVE FitsNext(stack'[d])
  BY <1>1, <1>5 DEF SetTop
<1>6. CASE Depth > 0 /\ Pop
  BY <1>1, <1>6 DEF Pop
<1> QED
  BY <1>3, <1>4, <1>5, <1>6

\* The operations on the three vectors, none of which shortens one.
Lengthens ==
  /\ UNCHANGED hooks \/ \E h \in Hooks : AddHook(h) \/ RemoveHook(h)
  /\ \/ UNCHANGED closures \/ \E i : DropClosure(i)
     \/ \E c \in Closures : AddClosure(c) \/ RemoveClosure(c)
  /\ \/ UNCHANGED winUpdateQueue \/ \E w \in Windows : winUpdateQueue' = Requested(w)
     \/ \E w : RemoveWindowUpdate(w)

Grown ==
  /\ Len(hooks) <= Len(hooks')
  /\ Len(closures) <= Len(closures')
  /\ Len(winUpdateQueue) <= Len(winUpdateQueue')

LEMMA LengthensGrows == TypeOK /\ Lengthens => Grown
<1> SUFFICES ASSUME TypeOK, Lengthens PROVE Grown
  OBVIOUS
<1>1. /\ winUpdateQueue \in Seq(Windows \cup {None}) /\ Len(winUpdateQueue) \in Nat
      /\ hooks \in Seq(Hooks \cup {None}) /\ Len(hooks) \in Nat
      /\ closures \in Seq(Closures \cup {None}) /\ Len(closures) \in Nat
  BY DEF TypeOK, WindowTypeOK, ContinuousTypeOK
<1>2. Len(hooks) <= Len(hooks')
  BY <1>1 DEF Lengthens, AddHook, RemoveHook, Emptied
<1>3. Len(closures) <= Len(closures')
  BY <1>1 DEF Lengthens, AddClosure, RemoveClosure, Emptied, DropClosure
<1>4. \A w \in Windows : Len(winUpdateQueue) <= Len(Requested(w))
  BY <1>1 DEF Requested
<1>5. Len(winUpdateQueue) <= Len(winUpdateQueue')
  BY <1>1, <1>4 DEF Lengthens, RemoveWindowUpdate
<1> QED
  BY <1>2, <1>3, <1>5 DEF Grown

LEMMA ScriptGrows == TypeOK /\ Script => Grown
<1> SUFFICES ASSUME Script PROVE Lengthens
  BY LengthensGrows
<1>1. UNCHANGED hooks \/ \E h \in Hooks : AddHook(h) \/ RemoveHook(h)
  BY Zenon DEF Script, ScriptPosts, ScriptCancels, ScriptInput, ScriptRequestsUpdate,
         InvalidateWindow, ScriptContinuous, PostImmediate, UpdateWindow, BeginPass,
         AddClosure, RemoveClosure, contVars
<1>2. UNCHANGED closures \/ \E c \in Closures : AddClosure(c) \/ RemoveClosure(c)
  BY Zenon DEF Script, ScriptPosts, ScriptCancels, ScriptInput, ScriptRequestsUpdate,
         InvalidateWindow, ScriptContinuous, PostImmediate, UpdateWindow, BeginPass,
         AddHook, RemoveHook, contVars
<1>3. \/ UNCHANGED winUpdateQueue \/ (\E w \in Windows : winUpdateQueue' = Requested(w))
      \/ \E w : RemoveWindowUpdate(w)
  BY Zenon DEF Script, ScriptPosts, ScriptCancels, ScriptInput, ScriptRequestsUpdate,
         InvalidateWindow, ScriptContinuous, PostImmediate, UpdateWindow, BeginPass,
         PostWindowUpdate, winVars
<1> QED
  BY <1>1, <1>2, <1>3 DEF Lengthens

\* Only the end of a loop shortens its vector.
EndsLoop == EndHooks \/ EndClosures \/ ThrowWindows \/ \E p \in {"windows", "update"} : EndWindows(p)

LEMMA OthersGrow == TypeOK /\ (Engine \/ HandlerEnds) => Grown \/ EndsLoop
<1> SUFFICES ASSUME Engine \/ HandlerEnds, ~EndsLoop PROVE Lengthens
  BY LengthensGrows
<1>1. CASE Engine
  BY <1>1 DEF Engine, EndsLoop, DeliverEvent, EndLoop, DeliverInput, EndInput, AfterScriptPass,
         EndPass, BeginContinuous, CallHook, SkipHook, CallClosure, SkipClosure, BeginWindows,
         StartWindowUpdates, UpdateContent, contVars, winVars, Lengthens
<1>2. CASE HandlerEnds
  BY <1>2 DEF HandlerEnds, EndsLoop, ReturnPlain, ReturnInput, ReturnContinuous,
         ThrowInScriptPass, ThrowIdle, ThrowContinuous, EndInvalidateWindow, contVars, winVars,
         Lengthens
<1> QED
  BY <1>1, <1>2

\* What the end of a loop leaves alone.
LEMMA EndsShorten ==
  ASSUME EndsLoop
  PROVE  \/ Top.phase = "hooks" /\ UNCHANGED <<closures, winUpdateQueue>>
         \/ Top.phase = "closures" /\ UNCHANGED <<hooks, winUpdateQueue>>
         \/ Top.phase \in OfWindows /\ UNCHANGED <<hooks, closures>>
BY DEF EndsLoop, EndHooks, EndClosures, ThrowWindows, EndWindows, At, InHandler, OfWindows,
       contVars, winVars

\* The frames below the top one keep fitting: the loop that ends is theirs
\* in no case, because it runs in one frame only.
LEMMA OthersFit ==
  ASSUME TypeOK, TypeOK', LoopGuards, IndicesFit, Next
  PROVE  \A d \in 1 .. Depth - 1 : FitsNext(stack[d])
<1>1. stack \in Seq(Frame) /\ DOMAIN stack = 1 .. Depth /\ Depth \in Nat
  BY DEF TypeOK, Depth
<1>2. SUFFICES ASSUME NEW d \in 1 .. Depth - 1 PROVE FitsNext(stack[d])
  OBVIOUS
<1>3. d \in DOMAIN stack /\ Depth \in DOMAIN stack /\ d # Depth /\ FitsNow(stack[d])
  BY <1>1 DEF IndicesFit, FitsNow
<1>4. /\ Top.phase \in OfWindows => stack[d].phase \notin OfWindows
      /\ Top.phase \in OfContinuous => stack[d].phase \notin OfContinuous
  BY <1>3 DEF LoopGuards, LoopIn, OfWindows, OfContinuous, Top
<1>5. "hooks" \in OfContinuous /\ "closures" \in OfContinuous
  BY DEF OfContinuous
<1>6. /\ stack[d].phase \in OfWindows => Len(winUpdateQueue) <= Len(winUpdateQueue')
      /\ stack[d].phase = "hooks" => Len(hooks) <= Len(hooks')
      /\ stack[d].phase = "closures" => Len(closures) <= Len(closures')
  <2>1. CASE Grown
    BY <2>1 DEF Grown
  <2>2. CASE EndsLoop
    BY <1>4, <1>5, <2>2, EndsShorten, VectorsNext
  <2> QED
    BY <2>1, <2>2, ScriptGrows, OthersGrow DEF Next
<1> QED
  BY <1>3, <1>6, StillFits

\* And the top frame, when the step is no end of its loop.
LEMMA TopFits ==
  ASSUME TypeOK, TypeOK', IndicesFit, Grown, Depth > 0
  PROVE  FitsNext(Top)
<1>1. Depth \in DOMAIN stack
  BY DEF TypeOK, Depth
<1>2. FitsNow(Top) /\ Top = stack[Depth]
  BY <1>1 DEF IndicesFit, FitsNow, Top
<1> QED
  BY <1>1, <1>2, StillFits DEF Grown

\* Script code leaves the frames alone or adds one.
LEMMA ScriptFits ==
  ASSUME TypeOK, TypeOK', LoopGuards, IndicesFit, Script
  PROVE  IndicesFit'
<1>1. Grown
  BY ScriptGrows
<1>2. Depth > 0 => FitsNext(Top)
  BY <1>1, TopFits
<1>3. stack \in Seq(Frame) /\ \A d \in 1 .. Depth - 1 : FitsNext(stack[d])
  BY OthersFit DEF Next, TypeOK
<1>4. /\ \A p \in Phases : FitsNext(NewFrame(p))
      /\ \A p \in Plain : \A x : FitsNext(CallFrame(p, x))
  <2>1. Plain \subseteq Phases
    BY DEF Plain
  <2> QED
    BY <2>1, NewFits, VectorsNext DEF FitsNext
<1>5. CASE UNCHANGED stack
  BY <1>2, <1>3, <1>5, FitMoves
<1>6. CASE \E p \in Phases : Push(NewFrame(p))
  BY <1>2, <1>3, <1>4, <1>6, FitMoves
<1>7. CASE \E p \in Plain : \E x : Push(CallFrame(p, x))
  BY <1>2, <1>3, <1>4, <1>7, FitMoves
<1>8. /\ "exclusive" \in Phases /\ "update" \in Phases
      /\ "immediate" \in Plain /\ "finalizers" \in Plain
  BY DEF Plain, Phases, ScriptPhases, OfWindows, OfContinuous
<1>9. CASE PostImmediate \/ InvalidateWindow
  <2>1. \E p \in Plain : \E x : Push(CallFrame(p, x))
    BY <1>8, <1>9 DEF PostImmediate, InvalidateWindow
  <2> QED
    BY <1>7, <2>1
<1>10. CASE UpdateWindow \/ BeginPass
  <2>1. UNCHANGED stack \/ \E p \in Phases : Push(NewFrame(p))
    BY <1>8, <1>10 DEF UpdateWindow, BeginPass
  <2> QED
    BY <1>5, <1>6, <2>1
<1> QED
  BY <1>5, <1>9, <1>10
     DEF Script, ScriptPosts, ScriptCancels, ScriptInput, ScriptRequestsUpdate, ScriptContinuous

\* A step to another phase, and the end of a frame.
LEMMA GotoFits ==
  ASSUME TypeOK, TypeOK', LoopGuards, IndicesFit, Next, Depth > 0,
         Pop \/ \E p \in Phases : Goto(p)
  PROVE  IndicesFit'
<1>1. stack \in Seq(Frame) /\ \A d \in 1 .. Depth - 1 : FitsNext(stack[d])
  BY OthersFit DEF TypeOK
<1>2. \A p \in Phases : FitsNext(NewFrame(p))
  BY NewFits, VectorsNext DEF FitsNext
<1> QED
  BY <1>1, <1>2, FitMoves DEF Goto

\* A loop whose handler is called or returns, or that goes to the next cell.
LEMMA LoopFits ==
  ASSUME TypeOK, TypeOK', LoopGuards, IndicesFit, Next, Grown, Depth > 0,
         \/ Return
         \/ Call /\ Top.phase \in Plain
         \/ /\ Call \/ \E e : Loop(FALSE, Top.idx + 1, e)
            /\ Top.phase \notin Plain
            /\ Top.idx <= Cells(Top.phase, winUpdateQueue, hooks, closures)
  PROVE  IndicesFit'
<1> DEFINE before == Cells(Top.phase, winUpdateQueue, hooks, closures)
           after  == Cells(Top.phase, winUpdateQueue', hooks', closures')
<1>1. stack \in Seq(Frame) /\ \A d \in 1 .. Depth - 1 : FitsNext(stack[d])
  BY OthersFit DEF TypeOK
<1>2. /\ before \in Nat /\ after \in Nat /\ before <= after
      /\ Top.phase \in Plain => after = 1
  BY VectorsNext DEF Cells, OfWindows, OfContinuous, Plain, Grown
<1>3. Top.idx \in Nat
  <2>1. Top \in Frame
    BY <1>1 DEF Top, Depth
  <2> QED
    BY <2>1 DEF Frame
<1>4. FitsNext(Top)
  BY TopFits
<1> HIDE DEF before, after
<1>5. Top.idx <= after + 1 /\ (Top.phase \in Plain => Top.idx = 1)
  <2>1. Top.idx <= after + (IF Top.running THEN 0 ELSE 1)
    BY <1>4 DEF FitsNext, Fits, after
  <2>2. Top.phase \in Plain => Top.idx = 1
    BY <1>4 DEF FitsNext, Fits
  <2> QED
    BY <1>2, <1>3, <2>1, <2>2
<1>6. ASSUME NEW b \in BOOLEAN, NEW i \in Nat, NEW e, Loop(b, i, e),
             i <= after + (IF b THEN 0 ELSE 1), Top.phase \in Plain => i = 1
      PROVE  IndicesFit'
  <2> DEFINE f == FrameOf(Top.phase, b, i, e, Top.win)
  <2>1. SetTop(f) /\ f.phase = Top.phase /\ f.running = b /\ f.idx = i
    BY <1>6 DEF Loop, FrameOf
  <2> HIDE DEF f
  <2>2. FitsNext(f)
    BY <1>6, <2>1 DEF FitsNext, Fits, after
  <2> QED
    BY <1>1, <2>1, <2>2, FitMoves
<1>7. CASE Return
  BY <1>3, <1>5, <1>6, <1>7 DEF Return
<1>8. CASE Call /\ Top.phase \in Plain
  <2>1. Top.idx <= after + 0
    BY <1>2, <1>5, <1>8
  <2> QED
    BY <1>3, <1>5, <1>6, <1>8, <2>1 DEF Call
<1>9. CASE /\ Call \/ \E e : Loop(FALSE, Top.idx + 1, e)
           /\ Top.phase \notin Plain /\ Top.idx <= before
  <2>1. Top.idx <= after + 0 /\ Top.idx + 1 <= after + 1 /\ Top.idx + 1 \in Nat
    BY <1>2, <1>3, <1>9
  <2>2. CASE Call
    BY <1>3, <1>6, <1>9, <2>1, <2>2 DEF Call
  <2>3. CASE \E e : Loop(FALSE, Top.idx + 1, e)
    BY <1>6, <1>9, <2>1, <2>3
  <2> QED
    BY <1>9, <2>2, <2>3
<1> QED
  BY <1>7, <1>8, <1>9 DEF before

\* The frame whose handler runs looks at a cell.
LEMMA RunningFits ==
  ASSUME TypeOK, IndicesFit, Depth > 0, Top.running
  PROVE  Top.idx <= Cells(Top.phase, winUpdateQueue, hooks, closures)
<1>1. Depth \in DOMAIN stack /\ Top = stack[Depth] /\ stack[Depth] \in Frame
  BY DEF TypeOK, Depth, Top
<1>2. Top.idx \in Nat /\ Fits(Top, winUpdateQueue, hooks, closures)
  BY <1>1 DEF IndicesFit, Frame
<1>3. Cells(Top.phase, winUpdateQueue, hooks, closures) \in Nat
  BY DEF Cells, TypeOK, WindowTypeOK, ContinuousTypeOK
<1>4. Top.idx <= Cells(Top.phase, winUpdateQueue, hooks, closures) + 0
  BY <1>2 DEF Fits
<1> QED
  BY <1>2, <1>3, <1>4

LEMMA EngineFits ==
  ASSUME TypeOK, TypeOK', LoopGuards, IndicesFit, Engine
  PROVE  IndicesFit'
<1>1. Next /\ (Grown \/ EndsLoop)
  BY OthersGrow DEF Next
<1>2. /\ {"tail", "input", "normal", "continuous", "interrupt", "finish", "idle",
          "hooks", "closures", "window", "windows"} \subseteq Phases
      /\ ScriptPhases \cup {"input"} \subseteq Plain
  BY DEF Phases, ScriptPhases, Plain, OfWindows, OfContinuous
<1>3. ASSUME NEW p \in ScriptPhases, DeliverEvent(p) PROVE IndicesFit'
  <2>1. Depth > 0 /\ Top.phase \in Plain /\ (Call \/ Return)
    BY <1>2, <1>3 DEF DeliverEvent, At
  <2>2. Grown
    BY <1>3, VectorsNext DEF DeliverEvent, winVars, contVars, Grown
  <2> QED
    BY <1>1, <2>1, <2>2, LoopFits
<1>4. ASSUME NEW p \in ScriptPhases, EndLoop(p) PROVE IndicesFit'
  <2>1. AfterLoop(p) \in Phases
    BY <1>2 DEF AfterLoop, ScriptPhases
  <2> QED
    BY <1>1, <1>4, <2>1, GotoFits DEF EndLoop, At
<1>5. CASE DeliverInput
  <2>1. Depth > 0 /\ Top.phase \in Plain /\ Call
    BY <1>2, <1>5 DEF DeliverInput, At
  <2>2. Grown
    BY <1>5, VectorsNext DEF DeliverInput, winVars, contVars, Grown
  <2> QED
    BY <1>1, <2>1, <2>2, LoopFits
<1>6. CASE EndInput \/ AfterScriptPass \/ EndPass \/ BeginContinuous \/ EndHooks \/ EndClosures
             \/ BeginWindows \/ \E p \in {"windows", "update"} : EndWindows(p)
  <2>1. /\ Depth > 0
        /\ \/ Pop \/ Goto("normal") \/ Goto("finish") \/ Goto("idle") \/ Goto("hooks")
           \/ Goto("window") \/ Goto("closures") \/ Goto("windows")
    BY <1>6 DEF EndInput, AfterScriptPass, EndPass, BeginContinuous, EndHooks, EndClosures,
           BeginWindows, EndWindows, At
  <2> QED
    BY <1>1, <1>2, <2>1, GotoFits
<1>7. CASE CallHook \/ SkipHook \/ CallClosure \/ SkipClosure
  <2>1. Depth > 0 /\ Top.phase \notin Plain
    BY <1>7 DEF CallHook, SkipHook, CallClosure, SkipClosure, At, Plain, OfContinuous
  <2>2. Top.idx <= Cells(Top.phase, winUpdateQueue, hooks, closures)
    BY <1>7 DEF CallHook, SkipHook, CallClosure, SkipClosure, At, Cells, OfWindows
  <2>3. Grown
    BY <1>7, VectorsNext DEF CallHook, SkipHook, CallClosure, SkipClosure, winVars, contVars, Grown
  <2>4. Call \/ SkipCell \/ Goto("window")
    BY <1>7 DEF CallHook, SkipHook, CallClosure, SkipClosure
  <2>5. SkipCell => \E e : Loop(FALSE, Top.idx + 1, e)
    BY DEF SkipCell
  <2> QED
    BY <1>1, <1>2, <2>1, <2>2, <2>3, <2>4, <2>5, LoopFits, GotoFits
<1>8. ASSUME NEW p \in {"windows", "update"}, UpdateContent(p) PROVE IndicesFit'
  <2>1. Depth > 0 /\ Top.phase \in OfWindows /\ Top.phase \notin Plain
    BY <1>8 DEF UpdateContent, At, Plain, OfWindows
  <2>2. Top.idx <= Cells(Top.phase, winUpdateQueue, hooks, closures)
    <3>1. Cells(Top.phase, winUpdateQueue, hooks, closures) = Len(winUpdateQueue)
      BY <2>1 DEF Cells, OfWindows
    <3>2. Top.idx <= Len(winUpdateQueue)
      BY <1>8 DEF UpdateContent
    <3> QED
      BY <3>1, <3>2
  <2>3. Grown
    BY <1>8, VectorsNext DEF UpdateContent, winVars, contVars, Grown
  <2>4. Call \/ \E e : Loop(FALSE, Top.idx + 1, e)
    BY <1>8 DEF UpdateContent, NextCell
  <2> QED
    BY <1>1, <2>1, <2>2, <2>3, <2>4, LoopFits
<1> QED
  BY <1>3, <1>4, <1>5, <1>6, <1>7, <1>8 DEF Engine

LEMMA HandlersFit ==
  ASSUME TypeOK, TypeOK', LoopGuards, IndicesFit, HandlerEnds
  PROVE  IndicesFit'
<1>1. Next
  BY DEF Next
<1>2. /\ {"tail", "continuous", "interrupt", "finish", "window"} \subseteq Phases
      /\ ScriptPhases \cup {"input"} \subseteq Plain
  BY DEF Phases, ScriptPhases, Plain, OfWindows, OfContinuous
<1>3. CASE ReturnPlain
  <2>1. Depth > 0 /\ Top.running
    BY <1>3 DEF ReturnPlain
  <2>2. Grown
    BY <1>3, VectorsNext DEF ReturnPlain, winVars, contVars, Grown
  <2>3. Top.idx <= Cells(Top.phase, winUpdateQueue, hooks, closures)
    BY <2>1, RunningFits
  <2>4. Return \/ Pop \/ (Top.phase \notin Plain /\ \E e : Loop(FALSE, Top.idx + 1, e))
    BY <1>3 DEF ReturnPlain, NextCell, Plain, OfWindows
  <2> QED
    BY <1>1, <2>1, <2>2, <2>3, <2>4, LoopFits, GotoFits
<1>4. CASE ReturnInput
  <2>1. Depth > 0 /\ (Goto("tail") \/ Return)
    BY <1>4 DEF ReturnInput, InHandler
  <2>2. Grown
    BY <1>4, VectorsNext DEF ReturnInput, winVars, contVars, Grown
  <2> QED
    BY <1>1, <1>2, <2>1, <2>2, LoopFits, GotoFits
<1>5. CASE ReturnContinuous
  <2>1. Depth > 0 /\ Top.running /\ Top.phase \notin Plain
    BY <1>5 DEF ReturnContinuous, InHandler, Plain, OfContinuous
  <2>2. Lengthens
    BY <1>5 DEF ReturnContinuous, Lengthens, winVars
  <2>3. Grown
    BY <2>2, LengthensGrows
  <2>4. Top.idx <= Cells(Top.phase, winUpdateQueue, hooks, closures)
    BY <2>1, RunningFits
  <2>5. Goto("window") \/ \E e : Loop(FALSE, Top.idx + 1, e)
    BY <1>5 DEF ReturnContinuous
  <2> QED
    BY <1>1, <1>2, <2>1, <2>3, <2>4, <2>5, LoopFits, GotoFits
<1>6. CASE ThrowInScriptPass \/ ThrowIdle \/ ThrowContinuous \/ ThrowWindows \/ EndInvalidateWindow
  <2>1. /\ Depth > 0
        /\ \/ Pop \/ Goto("tail") \/ Goto("interrupt") \/ Goto("continuous") \/ Goto("window")
           \/ Goto("finish")
    BY <1>6 DEF ThrowInScriptPass, ThrowIdle, ThrowContinuous, ThrowWindows,
           EndInvalidateWindow, InHandler
  <2> QED
    BY <1>1, <1>2, <2>1, GotoFits
<1> QED
  BY <1>3, <1>4, <1>5, <1>6 DEF HandlerEnds

LEMMA IndicesStep ==
  ASSUME TypeOK, TypeOK', LoopGuards, IndicesFit, [Next]_vars
  PROVE  IndicesFit'
<1>1. CASE UNCHANGED vars
  BY <1>1 DEF vars, winVars, contVars, IndicesFit
<1> QED
  BY <1>1, ScriptFits, EngineFits, HandlersFit DEF Next

\* A loop that resumes after its handler looks at a cell of its vector or at
\* its end, whatever handlers and nested passes add, remove, clear and erase
\* (the loops by index of EventIntf.cpp).
THEOREM IndicesStayInRange == Spec => []LoopIndexInRange
<1>1. Init => IndicesFit
  BY DEF Init, IndicesFit
<1>2. TypeOK /\ TypeOK' /\ LoopGuards /\ IndicesFit /\ [Next]_vars => IndicesFit'
  BY IndicesStep
<1>3. IndicesFit => LoopIndexInRange
  BY DEF IndicesFit, LoopIndexInRange, Fits, Cells, OfWindows
<1> QED
  BY <1>1, <1>2, <1>3, TypeCorrect, GuardsStayExact, PTL DEF Spec
-----------------------------------------------------------------------------
(* Exclusive events, and the border between two flushes.                   *)

\* What a theorem assumes of the build, and of handlers: no modal window.
Folded    == UninitialisedR = {TRUE}
NoNesting == MaxDepth = 1

-----------------------------------------------------------------------------
(* The event system is never interrupted.                                  *)

Uninterrupted == ~eventInterrupting /\ LoopIn({"interrupt"}) = {}

LEMMA UninterruptedStack ==
  ASSUME Folded, TypeOK, Uninterrupted, [Next]_vars
  PROVE  LoopIn({"interrupt"})' = {}
<1> DEFINE P == {"interrupt"}
<1>1. stack \in Seq(Frame) /\ LoopIn(P) = {} /\ (Depth > 0 => Top.phase \notin P)
  BY Moves DEF TypeOK, Uninterrupted
<1>2. CASE Script
  <2>1. ASSUME NEW p, p # "interrupt", Push(NewFrame(p)) \/ \E w : Push(CallFrame(p, w))
        PROVE  LoopIn(P)' = {}
    <3>1. LoopIn(P)' = LoopIn(P) \cup (IF p \in P THEN {Depth + 1} ELSE {})
      BY <1>1, <2>1, LoopEnters
    <3> QED
      BY <1>1, <2>1, <3>1
  <2>2. CASE UNCHANGED stack
    BY <1>1, <2>2 DEF LoopIn
  <2>3. CASE PostImmediate \/ InvalidateWindow \/ UpdateWindow \/ BeginPass
    <3>1. CASE PostImmediate
      BY <2>1, <3>1 DEF PostImmediate
    <3>2. CASE InvalidateWindow
      BY <2>1, <3>2 DEF InvalidateWindow
    <3>3. CASE UpdateWindow
      BY <2>1, <2>2, <3>3 DEF UpdateWindow
    <3>4. CASE BeginPass
      BY <2>1, <3>4 DEF BeginPass
    <3> QED
      BY <2>3, <3>1, <3>2, <3>3, <3>4
  <2> QED
    BY <1>2, <2>2, <2>3
       DEF Script, ScriptPosts, ScriptCancels, ScriptInput, ScriptRequestsUpdate, ScriptContinuous
<1>3. CASE Engine \/ HandlerEnds
  <2>1. Depth > 0
    BY <1>3 DEF Engine, HandlerEnds, DeliverEvent, EndLoop, DeliverInput, EndInput,
           AfterScriptPass, EndPass, BeginContinuous, CallHook, SkipHook, EndHooks, CallClosure,
           SkipClosure, EndClosures, BeginWindows, UpdateContent, EndWindows, ReturnPlain,
           ReturnInput, ReturnContinuous, ThrowInScriptPass, ThrowIdle, ThrowContinuous,
           ThrowWindows, EndInvalidateWindow, At, InHandler
  <2>2. \/ Pop \/ Call \/ Return \/ NextCell \/ SkipCell \/ (\E b, k, e : Loop(b, k, e))
        \/ \E q : q # "interrupt" /\ Goto(q)
    <3>1. CASE \E p \in ScriptPhases : EndLoop(p)
      BY <3>1 DEF EndLoop, AfterLoop, ScriptPhases
    <3>2. CASE ThrowInScriptPass
      BY <3>2 DEF ThrowInScriptPass, Folded
    <3>3. CASE Engine /\ ~\E p \in ScriptPhases : EndLoop(p)
      BY <3>3 DEF Engine, DeliverEvent, DeliverInput, EndInput, AfterScriptPass, EndPass,
             BeginContinuous, CallHook, SkipHook, EndHooks, CallClosure, SkipClosure,
             EndClosures, BeginWindows, UpdateContent, EndWindows
    <3>4. CASE HandlerEnds /\ ~ThrowInScriptPass
      BY <3>4 DEF HandlerEnds, ReturnPlain, ReturnInput, ReturnContinuous, ThrowIdle,
             ThrowContinuous, ThrowWindows, EndInvalidateWindow
    <3> QED
      BY <1>3, <3>1, <3>2, <3>3, <3>4
  <2>3. CASE Call \/ Return \/ NextCell \/ SkipCell \/ \E b, k, e : Loop(b, k, e)
    BY <1>1, <2>1, <2>3, LoopStays
  <2>4. CASE Pop \/ \E q : q # "interrupt" /\ Goto(q)
    BY <1>1, <2>1, <2>4, OutsideLoops
  <2> QED
    BY <2>2, <2>3, <2>4
<1>4. CASE UNCHANGED vars
  BY <1>1, <1>4 DEF vars, LoopIn
<1> QED
  BY <1>2, <1>3, <1>4 DEF Next

LEMMA InterruptedSteps ==
  ASSUME [Next]_vars
  PROVE  UNCHANGED eventInterrupting \/ AfterScriptPass \/ eventInterrupting' = FALSE
<1>1. CASE Script
  BY Zenon, <1>1 DEF Script, ScriptPosts, PostEvent, Enqueue, Trigger, ScriptCancels,
         CancelEvents, CancelTrigger, CancelSourceEvents, SetCached, SetMode, InvalidateObject,
         ScriptInput, PostInputEvent, CancelInputEvents, ScriptRequestsUpdate, InvalidateWindow,
         CancelAllOf, ScriptContinuous, PostImmediate, UpdateWindow, BeginPass, queueVars, seqVars
<1>2. CASE Engine
  BY <1>2 DEF Engine, DeliverEvent, EndLoop, DeliverInput, EndInput, EndPass, BeginContinuous,
         CallHook, SkipHook, EndHooks, CallClosure, SkipClosure, EndClosures, BeginWindows,
         UpdateContent, EndWindows, queueVars, seqVars
<1>3. CASE HandlerEnds
  BY <1>3 DEF HandlerEnds, ReturnPlain, ReturnInput, ReturnContinuous, ThrowInScriptPass,
         ThrowIdle, ThrowContinuous, ThrowWindows, EndInvalidateWindow, CancelAllOf,
         queueVars, seqVars
<1>4. CASE UNCHANGED vars
  BY <1>4 DEF vars, queueVars, seqVars
<1> QED
  BY <1>1, <1>2, <1>3, <1>4 DEF Next

LEMMA UninterruptedStep ==
  ASSUME Folded, TypeOK, Uninterrupted, [Next]_vars
  PROVE  Uninterrupted'
<1>1. LoopIn({"interrupt"})' = {}
  BY UninterruptedStack
<1>2. AfterScriptPass => Top.phase # "interrupt"
  BY Moves DEF AfterScriptPass, At, TypeOK, Uninterrupted
<1>3. ~eventInterrupting'
  BY <1>2, InterruptedSteps DEF AfterScriptPass, Uninterrupted
<1> QED
  BY <1>1, <1>3 DEF Uninterrupted

\* TVPEventInterrupting stays false and no pass is cut short, when r is never
\* read as false (EventIntf.cpp:588-606).
THEOREM NeverInterrupted == ASSUME Folded PROVE Spec => []Uninterrupted
<1>1. Init => Uninterrupted
  BY DEF Init, QueueInit, Uninterrupted, LoopIn
<1>2. TypeOK /\ Uninterrupted /\ [Next]_vars => Uninterrupted'
  BY UninterruptedStep
<1> QED
  BY <1>1, <1>2, TypeCorrect, PTL DEF Spec

-----------------------------------------------------------------------------
(* Exclusive events are remembered.                                        *)

\* The events a pass with the number n need not remember, and the others.
Settled(n) == {e \in Event : e.prio = "exclusive" => e.seq <= n}
Plural     == {e \in Event : e.prio # "exclusive"}

LEMMA SeqOf ==
  ASSUME NEW S, NEW q \in Seq(S), NEW G
  PROVE  q \in Seq(G) <=> \A i \in DOMAIN q : q[i] \in G
<1>1. ASSUME \A i \in DOMAIN q : q[i] \in G PROVE q \in Seq(G)
  <2>1. q \in [1 .. Len(q) -> G]
    BY <1>1
  <2> QED
    BY <2>1
<1> QED
  BY <1>1

\* What a step does to the queue and to the flag of exclusive events.
LEMMA ExclusiveSteps ==
  ASSUME TypeOK, Next, ~BeginPass
  PROVE  /\ exclusiveEventPosted => exclusiveEventPosted'
         /\ \/ UNCHANGED eventQueue
            \/ (\E gone : eventQueue' \in Erased(eventQueue, gone))
            \/ (\E i \in DOMAIN eventQueue : eventQueue' = RemoveAt(eventQueue, i))
            \/ \E gone : \E s \in Objects, n \in Names, p \in Prios : Enqueue(gone, s, n, p)
<1>1. alive \subseteq Objects /\ mode \in [Triggers -> Prios]
  BY DEF TypeOK, QueueTypeOK
<1>2. CASE ScriptPosts
  <2>1. ASSUME NEW t \in Triggers, NEW n \in Names, Trigger(t, n)
        PROVE  \E gone : \E s \in Objects, m \in Names, p \in Prios : Enqueue(gone, s, m, p)
    <3>1. t \in Objects /\ mode[t] \in Prios
      BY <1>1, TypesAssumption
    <3>2. \E gone : Enqueue(gone, t, n, mode[t])
      BY <2>1 DEF Trigger
    <3> QED
      BY <3>1, <3>2
  <2>2. ASSUME NEW s \in alive \ Triggers, NEW n \in Names, NEW p \in Prios, NEW b \in BOOLEAN,
               NEW N, PostEvent(s, n, p, b, N)
        PROVE  \/ UNCHANGED queueVars
               \/ \E gone : \E o \in Objects, m \in Names, r \in Prios : Enqueue(gone, o, m, r)
    <3>1. s \in Objects
      BY <1>1
    <3> QED
      BY <2>2, <3>1 DEF PostEvent
  <2>3. \/ UNCHANGED queueVars
        \/ \E gone : \E o \in Objects, m \in Names, r \in Prios : Enqueue(gone, o, m, r)
    BY <1>2, <2>1, <2>2 DEF ScriptPosts
  <2>4. exclusiveEventPosted => exclusiveEventPosted'
    BY <2>3 DEF Enqueue, queueVars
  <2> QED
    BY Zenon, <2>3, <2>4 DEF queueVars
<1>3. CASE ScriptCancels \/ InvalidateWindow \/ EndInvalidateWindow
  <2>1. UNCHANGED exclusiveEventPosted
    BY Zenon, <1>3 DEF ScriptCancels, CancelEvents, CancelTrigger, CancelSourceEvents,
           SetCached, SetMode, InvalidateObject, InvalidateWindow, EndInvalidateWindow, CancelAllOf
  <2> QED
    BY <1>3, <2>1, CancelsErase
<1>4. CASE \E p \in ScriptPhases : DeliverEvent(p)
  BY <1>4 DEF DeliverEvent, Deliverable
<1>5. ASSUME Script, ~ScriptPosts, ~ScriptCancels, ~InvalidateWindow
      PROVE  UNCHANGED <<eventQueue, exclusiveEventPosted>>
  BY Zenon, <1>5 DEF Script, ScriptInput, PostInputEvent, CancelInputEvents,
         ScriptRequestsUpdate, ScriptContinuous, PostImmediate, UpdateWindow, queueVars
<1>6. ASSUME Engine, ~\E p \in ScriptPhases : DeliverEvent(p)
      PROVE  UNCHANGED <<eventQueue, exclusiveEventPosted>>
  BY <1>6 DEF Engine, EndLoop, DeliverInput, EndInput, AfterScriptPass, EndPass,
         BeginContinuous, CallHook, SkipHook, EndHooks, CallClosure, SkipClosure, EndClosures,
         BeginWindows, UpdateContent, EndWindows, queueVars
<1>7. ASSUME HandlerEnds, ~EndInvalidateWindow
      PROVE  UNCHANGED <<eventQueue, exclusiveEventPosted>>
  BY <1>7 DEF HandlerEnds, ReturnPlain, ReturnInput, ReturnContinuous, ThrowInScriptPass,
         ThrowIdle, ThrowContinuous, ThrowWindows, queueVars
<1> QED
  BY <1>2, <1>3, <1>4, <1>5, <1>6, <1>7 DEF Next

\* A queue of events of G stays one, unless an exclusive event is posted.
LEMMA QueueStaysIn ==
  ASSUME TypeOK, Next, ~BeginPass, NEW G, Plural \subseteq G, eventQueue \in Seq(G)
  PROVE  exclusiveEventPosted' \/ eventQueue' \in Seq(G)
<1>1. CASE UNCHANGED eventQueue
  BY <1>1
<1>2. CASE \E gone : eventQueue' \in Erased(eventQueue, gone)
  BY <1>2, ErasedKeepsOrder
<1>3. CASE \E i \in DOMAIN eventQueue : eventQueue' = RemoveAt(eventQueue, i)
  BY <1>3, RemoveAtKeepsOrder
<1>4. ASSUME NEW gone, NEW s \in Objects, NEW n \in Names, NEW p \in Prios,
             Enqueue(gone, s, n, p)
      PROVE  exclusiveEventPosted' \/ eventQueue' \in Seq(G)
  <2> DEFINE e == [src |-> s, name |-> n, prio |-> p, seq |-> seqNumber]
  <2>1. CASE p = "exclusive"
    BY <1>4, <2>1 DEF Enqueue
  <2>2. CASE p # "exclusive"
    <3>1. e \in G
      BY <2>2 DEF Plural, Event, TypeOK, QueueTypeOK
    <3>2. PICK r \in Erased(eventQueue, gone) : eventQueue' = Append(r, e)
      BY <1>4 DEF Enqueue
    <3>3. r \in Seq(G)
      BY <3>2, ErasedKeepsOrder
    <3> HIDE DEF e
    <3> QED
      BY <3>1, <3>2, <3>3
  <2> QED
    BY <2>1, <2>2
<1> QED
  BY <1>1, <1>2, <1>3, <1>4, ExclusiveSteps

Remembered == exclusiveEventPosted \/ eventQueue \in Seq(Settled(seqToProcess))

LEMMA RememberedIs ==
  ASSUME TypeOK
  PROVE  Remembered <=> ExclusiveRemembered
<1>1. eventQueue \in Seq(Event) /\ seqToProcess \in Nat
  BY DEF TypeOK, QueueTypeOK
<1>2. \A i \in DOMAIN eventQueue : eventQueue[i] \in Event /\ eventQueue[i].seq \in Nat
  <2>1. \A i \in DOMAIN eventQueue : eventQueue[i] \in Event
    BY <1>1
  <2> QED
    BY <2>1 DEF Event
<1>3. eventQueue \in Seq(Settled(seqToProcess))
        <=> \A i \in DOMAIN eventQueue : eventQueue[i] \in Settled(seqToProcess)
  BY <1>1, SeqOf
<1>4. ASSUME NEW i \in DOMAIN eventQueue
      PROVE  eventQueue[i] \in Settled(seqToProcess)
               <=> ~(eventQueue[i].prio = "exclusive" /\ eventQueue[i].seq > seqToProcess)
  BY <1>1, <1>2 DEF Settled
<1> QED
  BY <1>3, <1>4 DEF Remembered, ExclusiveRemembered

\* Only the beginning of a pass changes the number it delivers up to.
LEMMA NumberSteps ==
  ASSUME Next, ~BeginPass
  PROVE  UNCHANGED seqToProcess
<1>1. CASE Script
  BY Zenon, <1>1 DEF Script, ScriptPosts, PostEvent, Enqueue, Trigger, ScriptCancels,
         CancelEvents, CancelTrigger, CancelSourceEvents, SetCached, SetMode, InvalidateObject,
         ScriptInput, PostInputEvent, CancelInputEvents, ScriptRequestsUpdate, InvalidateWindow,
         CancelAllOf, ScriptContinuous, PostImmediate, UpdateWindow, queueVars, seqVars
<1>2. CASE Engine
  BY <1>2 DEF Engine, DeliverEvent, EndLoop, DeliverInput, EndInput, AfterScriptPass, EndPass,
         BeginContinuous, CallHook, SkipHook, EndHooks, CallClosure, SkipClosure, EndClosures,
         BeginWindows, UpdateContent, EndWindows, queueVars, seqVars
<1>3. CASE HandlerEnds
  BY <1>3 DEF HandlerEnds, ReturnPlain, ReturnInput, ReturnContinuous, ThrowInScriptPass,
         ThrowIdle, ThrowContinuous, ThrowWindows, EndInvalidateWindow, CancelAllOf,
         queueVars, seqVars
<1> QED
  BY <1>1, <1>2, <1>3 DEF Next

LEMMA RememberedStep ==
  ASSUME TypeOK, TypeOK', QueueOrdered, Uninterrupted, ExclusiveRemembered, [Next]_vars
  PROVE  ExclusiveRemembered'
<1>1. eventQueue \in Seq(Event) /\ seqNumber \in Nat /\ seqToProcess \in Nat
  BY DEF TypeOK, QueueTypeOK
<1>2. CASE UNCHANGED vars
  BY <1>2 DEF vars, queueVars, seqVars, ExclusiveRemembered
<1>3. CASE BeginPass
  <2>1. eventQueue' = eventQueue /\ seqToProcess' = seqNumber
    BY <1>3 DEF BeginPass, Uninterrupted
  <2>2. \A i \in DOMAIN eventQueue : eventQueue[i].seq \in Nat
    <3>1. \A i \in DOMAIN eventQueue : eventQueue[i] \in Event
      BY <1>1
    <3> QED
      BY <3>1 DEF Event
  <2>3. \A i \in DOMAIN eventQueue : ~(eventQueue[i].seq > seqNumber)
    BY <1>1, <2>2 DEF QueueOrdered
  <2> QED
    BY <2>1, <2>3 DEF ExclusiveRemembered
<1>4. CASE Next /\ ~BeginPass
  <2>1. Plural \subseteq Settled(seqToProcess)
    BY DEF Plural, Settled
  <2>2. Remembered
    BY RememberedIs
  <2>3. UNCHANGED seqToProcess
    BY <1>4, NumberSteps
  <2>4. exclusiveEventPosted => exclusiveEventPosted'
    BY <1>4, ExclusiveSteps
  <2>5. exclusiveEventPosted' \/ eventQueue' \in Seq(Settled(seqToProcess))
    BY <1>4, <2>1, <2>2, <2>4, QueueStaysIn DEF Remembered
  <2>6. CASE exclusiveEventPosted'
    BY <2>6 DEF ExclusiveRemembered
  <2>7. CASE eventQueue' \in Seq(Settled(seqToProcess))
    <3>1. \A i \in DOMAIN eventQueue' : eventQueue'[i] \in Settled(seqToProcess)
      BY <2>7
    <3>2. \A i \in DOMAIN eventQueue' : eventQueue'[i].seq \in Nat
      <4>1. \A i \in DOMAIN eventQueue' : eventQueue'[i] \in Event
        BY <3>1 DEF Settled
      <4> QED
        BY <4>1 DEF Event
    <3> QED
      BY <1>1, <2>3, <3>1, <3>2 DEF Settled, ExclusiveRemembered
  <2> QED
    BY <2>5, <2>6, <2>7
<1> QED
  BY <1>2, <1>3, <1>4

\* An exclusive event that waits for a later pass is remembered in TVPExclusive-
\* EventPosted, whatever nests, cancels, throws and resets the number, when r
\* is never read as false (EventIntf.cpp:291, 515-556, 608).
THEOREM ExclusiveStaysRemembered ==
  ASSUME Folded
  PROVE  Spec => []ExclusiveRemembered
<1>1. Init => ExclusiveRemembered
  BY DEF Init, QueueInit, ExclusiveRemembered
<1>2. TypeOK /\ TypeOK' /\ QueueOrdered /\ Uninterrupted /\ ExclusiveRemembered /\ [Next]_vars
        => ExclusiveRemembered'
  BY RememberedStep
<1> QED
  BY <1>1, <1>2, TypeCorrect, QueueStaysOrdered, NeverInterrupted, PTL DEF Spec

-----------------------------------------------------------------------------
(* Passes that do not nest.                                                *)

\* The phases before the continuous events.
Early == {"exclusive", "input", "normal", "tail", "interrupt", "idle"}

Flat  == Depth <= 1
Ahead == Depth > 0 /\ Top.phase \in Early => seqNumber > seqToProcess
Clear == Depth > 0 /\ Top.phase = "input"
           => eventQueue \in Seq(Plural) \/ (Top.running /\ exclusiveEventPosted)

LEMMA FlatMoves ==
  ASSUME TypeOK
  PROVE  /\ \A f : Depth > 0 /\ SetTop(f) => Depth' = Depth /\ Top' = f
         /\ Depth > 0 /\ Pop => Depth' = Depth - 1
         /\ \A f : Push(f) => Depth' = Depth + 1 /\ Top' = f
<1>1. stack \in Seq(Frame) /\ Depth \in Nat /\ Depth = Len(stack) /\ DOMAIN stack = 1 .. Depth
  BY DEF TypeOK, Depth
<1>2. ASSUME NEW f, Depth > 0, SetTop(f) PROVE Depth' = Depth /\ Top' = f
  <2>1. Len(stack') = Len(stack) /\ stack'[Depth] = f
    BY <1>1, <1>2 DEF SetTop
  <2> QED
    BY <1>1, <2>1 DEF Depth, Top
<1>3. ASSUME Depth > 0, Pop PROVE Depth' = Depth - 1
  BY <1>1, <1>3 DEF Pop, Depth
<1>4. ASSUME NEW f, Push(f) PROVE Depth' = Depth + 1 /\ Top' = f
  <2>1. Len(stack') = Depth + 1
    BY <1>1, <1>4 DEF Push
  <2>2. stack'[Depth + 1] = f
    BY <1>1, <1>4, PushFrames
  <2> QED
    BY <2>1, <2>2 DEF Depth, Top
<1> QED
  BY <1>2, <1>3, <1>4

\* A step of the engine that stays in the early phases comes from one, and
\* the loop over input events goes on only past all exclusive events.
EngineMove ==
  /\ Depth > 0
  /\ \/ Pop
     \/ \E f : /\ SetTop(f)
               /\ f.phase \in Early => Top.phase \in Early
               /\ f.phase = "input" => eventQueue' \in Seq(Plural)

LEMMA GotoMove ==
  ASSUME NEW p, Depth > 0, Goto(p), p \in Early => Top.phase \in Early,
         p = "input" => eventQueue' \in Seq(Plural)
  PROVE  EngineMove
<1>1. SetTop(NewFrame(p)) /\ NewFrame(p).phase = p
  BY DEF Goto, NewFrame, FrameOf
<1> QED
  BY <1>1 DEF EngineMove

LEMMA LoopMove ==
  ASSUME Depth > 0, Call \/ Return \/ NextCell \/ SkipCell \/ \E b, k, e : Loop(b, k, e),
         Top.phase = "input" => eventQueue' \in Seq(Plural)
  PROVE  EngineMove
<1>1. \E b, k, e : SetTop(FrameOf(Top.phase, b, k, e, Top.win))
  BY DEF Loop, Call, Return, NextCell, SkipCell
<1>2. PICK f : SetTop(f) /\ f.phase = Top.phase
  BY <1>1 DEF FrameOf
<1> QED
  BY <1>2 DEF EngineMove

\* The loop over exclusive events ends, and none is to come.
LEMMA ExclusiveLoopEnds ==
  ASSUME TypeOK, ExclusiveRemembered, EndLoop("exclusive"), ~exclusiveEventPosted
  PROVE  eventQueue' \in Seq(Plural)
<1>1. eventQueue \in Seq(Event) /\ seqToProcess \in Nat /\ eventQueue' = eventQueue
  BY DEF TypeOK, QueueTypeOK, EndLoop, queueVars
<1>2. ASSUME NEW i \in DOMAIN eventQueue PROVE eventQueue[i] \in Plural
  <2>1. eventQueue[i] \in Event
    BY <1>1
  <2>2. eventQueue[i].seq \in Nat
    BY <2>1 DEF Event
  <2>3. eventQueue[i].prio = "exclusive" => eventQueue[i].seq > seqToProcess
    BY <1>1, <2>2 DEF EndLoop, Deliverable
  <2> QED
    BY <2>1, <2>3 DEF ExclusiveRemembered, Plural
<1> QED
  BY <1>1, <1>2, SeqOf

LEMMA EngineFlat ==
  ASSUME Folded, TypeOK, ExclusiveRemembered, Clear, Engine \/ HandlerEnds
  PROVE  EngineMove
<1>1. ASSUME NEW p \in ScriptPhases, DeliverEvent(p) PROVE EngineMove
  <2>1. Depth > 0 /\ Top.phase # "input" /\ (Call \/ Return)
    BY <1>1 DEF DeliverEvent, At, ScriptPhases
  <2> QED
    BY <2>1, LoopMove
<1>2. ASSUME NEW p \in ScriptPhases, EndLoop(p) PROVE EngineMove
  <2>1. Depth > 0 /\ Top.phase \in Early /\ Goto(AfterLoop(p))
    BY <1>2 DEF EndLoop, At, ScriptPhases, Early
  <2>2. AfterLoop(p) = "input" => p = "exclusive" /\ ~exclusiveEventPosted
    BY DEF AfterLoop, ScriptPhases
  <2> QED
    BY <1>2, <2>1, <2>2, GotoMove, ExclusiveLoopEnds
<1>3. CASE DeliverInput
  <2>1. Depth > 0 /\ Call /\ eventQueue' \in Seq(Plural)
    BY <1>3 DEF DeliverInput, At, Clear
  <2> QED
    BY <2>1, LoopMove
<1>4. CASE EndInput
  BY <1>4, GotoMove DEF EndInput, At, Early
<1>5. CASE AfterScriptPass
  <2>1. Depth > 0 /\ Top.phase \in Early /\ (Goto("finish") \/ Goto("idle"))
    BY <1>5 DEF AfterScriptPass, At, Early
  <2> QED
    BY <2>1, GotoMove
<1>6. CASE EndPass \/ EndInvalidateWindow
  BY <1>6 DEF EndPass, EndInvalidateWindow, At, InHandler, EngineMove
<1>7. CASE BeginContinuous \/ EndHooks \/ EndClosures \/ BeginWindows \/ ThrowIdle
             \/ ThrowContinuous \/ ThrowWindows \/ \E p \in {"windows", "update"} : EndWindows(p)
  <2>1. /\ Depth > 0
        /\ \/ Pop \/ Goto("hooks") \/ Goto("window") \/ Goto("closures") \/ Goto("finish")
           \/ Goto("windows") \/ Goto("continuous")
    BY <1>7 DEF BeginContinuous, EndHooks, EndClosures, BeginWindows, ThrowIdle,
           ThrowContinuous, ThrowWindows, EndWindows, At, InHandler
  <2>2. {"hooks", "window", "closures", "finish", "windows", "continuous"} \cap Early = {}
    BY DEF Early
  <2>3. "input" \in Early
    BY DEF Early
  <2>4. CASE Pop
    BY <2>1, <2>4 DEF EngineMove
  <2> QED
    BY <2>1, <2>2, <2>3, <2>4, GotoMove
<1>8. CASE CallHook \/ SkipHook \/ CallClosure \/ SkipClosure \/ ReturnContinuous
             \/ \E p \in {"windows", "update"} : UpdateContent(p)
  <2>1. Depth > 0 /\ Top.phase # "input"
    BY <1>8 DEF CallHook, SkipHook, CallClosure, SkipClosure, ReturnContinuous, UpdateContent,
           At, InHandler
  <2>2. Call \/ NextCell \/ SkipCell \/ (\E b, k, e : Loop(b, k, e)) \/ Goto("window")
    BY <1>8 DEF CallHook, SkipHook, CallClosure, SkipClosure, ReturnContinuous, UpdateContent
  <2>3. "window" \notin Early
    BY DEF Early
  <2> QED
    BY <2>1, <2>2, <2>3, LoopMove, GotoMove
<1>9. CASE ReturnPlain
  <2>1. Depth > 0 /\ (Pop \/ (Top.phase # "input" /\ (Return \/ NextCell)))
    BY <1>9 DEF ReturnPlain, ScriptPhases
  <2> QED
    BY <2>1, LoopMove DEF EngineMove
<1>10. CASE ReturnInput
  <2>1. Depth > 0 /\ Top.phase = "input" /\ Top.phase \in Early
    BY <1>10 DEF ReturnInput, InHandler, Early
  <2>2. CASE exclusiveEventPosted
    BY <1>10, <2>1, <2>2, GotoMove DEF ReturnInput
  <2>3. CASE ~exclusiveEventPosted
    <3>1. Return /\ eventQueue' \in Seq(Plural)
      BY <1>10, <2>1, <2>3 DEF ReturnInput, queueVars, Clear
    <3> QED
      BY <2>1, <3>1, LoopMove
  <2> QED
    BY <2>2, <2>3
<1>11. CASE ThrowInScriptPass
  <2>1. Depth > 0 /\ Top.phase \in Early /\ Goto("tail")
    BY <1>11 DEF ThrowInScriptPass, InHandler, Early, Folded
  <2> QED
    BY <2>1, GotoMove
<1> QED
  BY <1>1, <1>2, <1>3, <1>4, <1>5, <1>6, <1>7, <1>8, <1>9, <1>10, <1>11
     DEF Engine, HandlerEnds

FlatSafe == Flat /\ Ahead /\ Clear

LEMMA FlatStep ==
  ASSUME Folded, NoNesting, TypeOK, TypeOK', Uninterrupted, ExclusiveRemembered, FlatSafe,
         [Next]_vars
  PROVE  FlatSafe'
<1>1. /\ Depth \in Nat /\ Depth <= 1 /\ seqNumber \in Nat /\ seqToProcess \in Nat
      /\ eventQueue \in Seq(Event)
  BY DEF TypeOK, QueueTypeOK, FlatSafe, Flat, Depth
<1>2. CASE UNCHANGED vars
  BY <1>2 DEF vars, queueVars, seqVars, FlatSafe, Flat, Ahead, Clear, Depth, Top
<1>4. CASE Engine \/ HandlerEnds
  <2>1. EngineMove
    BY <1>4, EngineFlat DEF FlatSafe
  <2>2. Depth = 1
    BY <1>1, <2>1 DEF EngineMove
  <2>3. ~BeginPass
    BY <2>2 DEF BeginPass, NoNesting
  <2>4. CASE Pop
    <3>1. Depth' = 0
      BY <2>2, <2>4, FlatMoves
    <3> QED
      BY <3>1 DEF FlatSafe, Flat, Ahead, Clear
  <2>5. ASSUME NEW f, SetTop(f), f.phase \in Early => Top.phase \in Early,
               f.phase = "input" => eventQueue' \in Seq(Plural), ~EndPass
        PROVE  FlatSafe'
    <3>1. Depth' = Depth /\ Top' = f
      BY <2>2, <2>5, FlatMoves
    <3>2. seqNumber' = seqNumber /\ seqToProcess' = seqToProcess
      BY <1>4, <2>3, <2>5, SequenceSteps, NumberSteps DEF Next
    <3>3. Ahead'
      BY <2>2, <2>5, <3>1, <3>2 DEF FlatSafe, Ahead
    <3>4. Clear'
      BY <2>5, <3>1 DEF Clear
    <3> QED
      BY <2>2, <3>1, <3>3, <3>4 DEF FlatSafe, Flat
  <2>6. EndPass => Pop
    BY DEF EndPass
  <2> QED
    BY <2>1, <2>4, <2>5, <2>6 DEF EngineMove
<1>5. CASE BeginPass
  <2>1. Push(NewFrame("exclusive")) /\ Depth = 0
    BY <1>1, <1>5 DEF BeginPass, NoNesting
  <2>2. Depth' = 1 /\ Top'.phase = "exclusive"
    BY <1>1, <2>1, FlatMoves DEF NewFrame, FrameOf
  <2>3. seqNumber' = seqNumber + 1 /\ seqToProcess' = seqNumber
    BY <1>5 DEF BeginPass, Uninterrupted
  <2> QED
    BY <1>1, <2>2, <2>3 DEF FlatSafe, Flat, Ahead, Clear
<1>6. CASE Script /\ ~BeginPass
  <2>1. seqNumber' = seqNumber /\ seqToProcess' = seqToProcess
    <3>1. ~EndPass
      BY <1>6 DEF Script, ScriptRuns, EndPass, At
    <3> QED
      BY <1>6, <3>1, SequenceSteps, NumberSteps DEF Next
  <2>2. \/ UNCHANGED stack
        \/ /\ Depth < MaxDepth
           /\ \E f : Push(f) /\ f.phase \notin Early
    <3>1. \A w : /\ CallFrame("immediate", w).phase \notin Early
                 /\ CallFrame("finalizers", w).phase \notin Early
                 /\ NewFrame("update").phase \notin Early
      BY DEF CallFrame, NewFrame, FrameOf, Early
    <3>2. CASE PostImmediate \/ InvalidateWindow \/ UpdateWindow
      BY <3>1, <3>2 DEF PostImmediate, InvalidateWindow, UpdateWindow
    <3> QED
      BY <1>6, <3>2 DEF Script, ScriptPosts, ScriptCancels, ScriptInput, ScriptRequestsUpdate,
             ScriptContinuous
  <2>3. CASE UNCHANGED stack
    <3>1. Depth' = Depth /\ Top' = Top
      BY <2>3 DEF Depth, Top
    <3>2. Clear'
      <4>1. SUFFICES ASSUME Depth > 0, Top.phase = "input"
                     PROVE  eventQueue' \in Seq(Plural) \/ (Top.running /\ exclusiveEventPosted')
        BY <3>1 DEF Clear
      <4>2. Top.running
        BY <1>6, <4>1 DEF Script, ScriptRuns
      <4>3. Next
        BY <1>6 DEF Next
      <4>4. CASE exclusiveEventPosted
        BY <1>6, <4>2, <4>3, <4>4, ExclusiveSteps
      <4>5. CASE eventQueue \in Seq(Plural)
        BY <1>6, <4>2, <4>3, <4>5, QueueStaysIn
      <4> QED
        BY <4>1, <4>4, <4>5 DEF FlatSafe, Clear
    <3> QED
      BY <1>1, <2>1, <3>1, <3>2 DEF FlatSafe, Flat, Ahead
  <2>4. ASSUME NEW f, Depth < MaxDepth, Push(f), f.phase \notin Early PROVE FlatSafe'
    <3>1. Depth' = 1 /\ Top' = f
      BY <1>1, <2>4, FlatMoves DEF NoNesting
    <3>2. "input" \in Early
      BY DEF Early
    <3> QED
      BY <2>4, <3>1, <3>2 DEF FlatSafe, Flat, Ahead, Clear
  <2> QED
    BY <2>2, <2>3, <2>4
<1> QED
  BY <1>2, <1>4, <1>5, <1>6 DEF Next

\* The strengthening behind the next two theorems: one frame at most, its
\* number taken (EventIntf.cpp:575-582) and no exclusive event before input.
THEOREM FlatStaysSafe ==
  ASSUME Folded, NoNesting
  PROVE  Spec => []FlatSafe
<1>1. Init => FlatSafe
  BY DEF Init, FlatSafe, Flat, Ahead, Clear, Depth
<1>2. /\ TypeOK /\ TypeOK' /\ Uninterrupted /\ ExclusiveRemembered /\ FlatSafe /\ [Next]_vars
      => FlatSafe'
  BY FlatStep
<1> QED
  BY <1>1, <1>2, TypeCorrect, NeverInterrupted, ExclusiveStaysRemembered, PTL DEF Spec

\* An event posted in a flush waits for the next one, when passes do not nest
\* (EventIntf.h:293-294): the number it takes is beyond the pass.
THEOREM PostsWaitForNextFlush ==
  ASSUME Folded, NoNesting
  PROVE  Spec => []WaitsForNextFlush
<1>1. TypeOK /\ FlatSafe => WaitsForNextFlush
  <2> SUFFICES ASSUME TypeOK, FlatSafe, NEW d \in DOMAIN stack,
                      stack[d].phase \in ScriptPhases \cup {"input"}
               PROVE  seqNumber > seqToProcess
    BY DEF WaitsForNextFlush
  <2>1. d = Depth /\ Depth > 0
    BY DEF TypeOK, FlatSafe, Flat, Depth
  <2> QED
    BY <2>1 DEF FlatSafe, Ahead, Top, Early, ScriptPhases
<1> QED
  BY <1>1, TypeCorrect, FlatStaysSafe, PTL

\* No input event is delivered before the exclusive events that are queued,
\* when passes do not nest (EventIntf.cpp:518-548).
THEOREM InputWaits ==
  ASSUME Folded, NoNesting
  PROVE  Spec => []InputWaitsForExclusive
<1>1. FlatSafe => InputWaitsForExclusive
  <2> SUFFICES ASSUME FlatSafe, At("input"), NEW i \in DOMAIN eventQueue
               PROVE  eventQueue[i].prio # "exclusive"
    BY DEF InputWaitsForExclusive
  <2>1. eventQueue \in Seq(Plural)
    BY DEF FlatSafe, Clear, At
  <2>2. eventQueue[i] \in Plural
    BY <2>1
  <2> QED
    BY <2>2 DEF Plural
<1> QED
  BY <1>1, FlatStaysSafe, PTL
=============================================================================
