-------------------------- MODULE EventProperties ---------------------------
(***************************************************************************)
(* What the delivery of events promises.  The invariants below hold for    *)
(* every depth of nesting unless their comment says otherwise.             *)
(***************************************************************************)
EXTENDS EventDelivery

\* The script event queue is ordered by sequence number, and no number in it
\* is ahead of TVPEventSequenceNumber: the reset of the number at the end of
\* a pass must not let a later event carry a smaller number than a queued one
\* (EventIntf.cpp:645-648, with passes nested).
QueueOrdered ==
  /\ \A i, j \in DOMAIN eventQueue : i <= j => eventQueue[i].seq <= eventQueue[j].seq
  /\ \A i \in DOMAIN eventQueue : eventQueue[i].seq <= seqNumber

\* Events of one priority are delivered in the order of their posting: what
\* leaves the queue for a handler is the first queued event of its priority,
\* whatever passes nested and whatever was cancelled (_TVPDeliverEventByPrio
\* picks by sequence number and priority, and later numbers may be queued).
DeliversInOrder ==
  \A p \in ScriptPhases :
    At(p) /\ InHandler(p)' /\ Depth' = Depth =>
      \E i \in DOMAIN eventQueue :
        /\ eventQueue[i].prio = p
        /\ eventQueue' = RemoveAt(eventQueue, i)
        /\ \A j \in 1 .. i - 1 : eventQueue[j].prio # p

FifoDelivery == [][DeliversInOrder]_vars

\* Whatever passes nest, handlers throw and numbers are reset, the queues are
\* those of Mailbox: no event is lost, delivered twice or overtaken in its
\* priority, each call of a handler takes one event, and handlers return in
\* the order of their calls (EventIntf.cpp 478-660).
HandlerOf(f) ==
  IF f.running /\ f.phase \in ScriptPhases \cup {"input"} THEN f.phase ELSE "engine"
Calls(s)   == [d \in DOMAIN s |-> HandlerOf(s[d])]
Letter(e)  == [src |-> e.src, name |-> e.name, prio |-> e.prio]
Letters(q) == [i \in DOMAIN q |-> Letter(q[i])]

Mail == INSTANCE Mailbox WITH
  mail <- Letters(eventQueue), input <- inputQueue, valid <- alive, calls <- Calls(stack)
MailSpec == Mail!Spec

\* An exclusive event the current sequence number keeps for a later pass has
\* TVPExclusiveEventPosted set, so the pass ends before other events overtake
\* it.  Holds when r is never read as false (UninitialisedR = {TRUE}).
ExclusiveRemembered ==
  \A i \in DOMAIN eventQueue :
    eventQueue[i].prio = "exclusive" /\ eventQueue[i].seq > seqToProcess
      => exclusiveEventPosted

\* An AsyncTrigger has all its queued events of its current mode, and at most
\* one while it is cached, after any sequence of trigger, cancel, and changes
\* of cached and mode, in handlers or not (EventIntf.cpp:1216-1272).
TriggerConsistent ==
  \A t \in Triggers :
    /\ \A i \in DOMAIN eventQueue : eventQueue[i].src = t => eventQueue[i].prio = mode[t]
    /\ cached[t] => \A i, j \in DOMAIN eventQueue :
                      eventQueue[i].src = t /\ eventQueue[j].src = t => i = j

\* No queue mentions an invalidated object: its events would be delivered to
\* an object that is gone, and a window update calls through the pointer.
NothingOfTheDead ==
  /\ \A i \in DOMAIN eventQueue : eventQueue[i].src \in alive
  /\ \A i \in DOMAIN inputQueue : inputQueue[i].src \in alive
  /\ \A i \in DOMAIN winUpdateQueue : winUpdateQueue[i] \in alive \cup {None}

\* A window has one pending update outside the delivery of updates and two
\* within, so a redraw that requests a redraw cannot keep the loop going.
UpdatesBounded == \A w \in Windows : Cardinality(CellsOf(w)) <= CellLimit

\* The loops that must not be re-entered run in at most one frame, and their
\* guard flags say exactly whether one does: an exception or an early return
\* that leaves a flag behind would stop redraws or continuous events for good.
LoopIn(P) == {d \in DOMAIN stack : stack[d].phase \in P}

LoopGuards ==
  /\ winDelivering <=> LoopIn({"windows", "update"}) # {}
  /\ contProcessing <=> LoopIn({"hooks", "closures"}) # {}
  /\ \A d, e \in LoopIn({"windows", "update"}) : d = e
  /\ \A d, e \in LoopIn({"hooks", "closures"}) : d = e

\* A loop that resumes after its handler looks at a cell that exists or at
\* the end of its vector, whatever the handler and nested passes did to it.
LoopIndexInRange ==
  \A d \in DOMAIN stack :
    LET n == CASE stack[d].phase \in {"windows", "update"} -> Len(winUpdateQueue)
               [] stack[d].phase = "hooks"    -> Len(hooks)
               [] stack[d].phase = "closures" -> Len(closures)
               [] OTHER -> 1
    IN stack[d].idx <= n + (IF stack[d].running THEN 0 ELSE 1)

Registered ==
  \/ \E i \in DOMAIN hooks : hooks[i] # None
  \/ \E i \in DOMAIN closures : closures[i] # None

\* While a hook or a closure is registered the main loop keeps calling, even
\* when others are removed, fail or throw during the delivery: otherwise the
\* animation that registered it freezes (EventIntf.cpp:1046-1047).
ContinuousKeptAlive == Registered => contCalling

\* Once nothing is registered the continuous calling stops, so that the main
\* loop can sleep again, unless something registers first or exclusive events
\* are queued again: with one in every pass the code returns before it comes to
\* the end of the calling (EventIntf.cpp:608, 964, 1015).  One that was
\* delivered or cancelled holds back no pass but its own.  Holds for passes
\* that are not nested, when r is never read as false; MaxSeq is a bound of the
\* model, where no further pass begins while events stay queued.
ExclusiveQueued == \E i \in DOMAIN eventQueue : eventQueue[i].prio = "exclusive"
ContinuousStops ==
  (contCalling /\ ~Registered) ~>
    (~contCalling \/ Registered \/ ExclusiveQueued \/ seqNumber = MaxSeq)

\* An event posted in a flush waits for the next one: while a pass is in its
\* script event loops, the number a new event would take is beyond the pass
\* (EventIntf.h:293-294).  Holds for passes that are not nested.
WaitsForNextFlush ==
  \A d \in DOMAIN stack :
    stack[d].phase \in ScriptPhases \cup {"input"} => seqNumber > seqToProcess

\* No input event is delivered while an exclusive event is queued.  Holds for
\* passes that are not nested, when r is never read as false.
InputWaitsForExclusive ==
  At("input") => \A i \in DOMAIN eventQueue : eventQueue[i].prio # "exclusive"

\* A flush ends, even if every handler posts again, cancels, registers
\* callbacks and requests redraws, as long as handlers end and do not post
\* input events.  Holds for passes that are not nested.
FlushEnds == (Depth > 0) ~> (Depth = 0)

-----------------------------------------------------------------------------
(* What EventIntf.h says of priorities, which the code does not do.         *)

\* EventIntf.h:87-88: other posted events are not processed until the
\* exclusive event is processed.  The loop over normal events does not look.
ExclusiveGoesFirst ==
  At("normal") /\ Deliverable("normal") # {}
    => \A i \in DOMAIN eventQueue : eventQueue[i].prio # "exclusive"
=============================================================================
