----------------------------- MODULE SoundLocks -----------------------------
(***************************************************************************)
(* The order in which the threads of the sound system take its locks       *)
(* (core/sound/sdl2/WaveImpl.cpp and WaveMixer.cpp).  A thread runs one of *)
(* its programs after the other, a program is the sequence of locks it     *)
(* takes and releases and of the threads it waits for.  The critical       *)
(* sections may be taken again by their owner.                             *)
(***************************************************************************)
EXTENDS Naturals, Sequences

CONSTANT LabelFirst  \* the first unit of a sound may hold a label

Thread == {"main", "player", "decoder", "audio"}
Lock   == {"vector", "buffer", "l2", "oneLoop", "streams", "queue"}

VARIABLES
  todo,   \* what is left of each thread's program
  owner,  \* the thread that has a lock, or "nobody"
  depth,  \* how often it has taken it
  gone    \* the threads that were told to end, and ended

vars == <<todo, owner, depth, gone>>

Take(l) == <<"take", l>>
Drop(l) == <<"drop", l>>
Join(t) == <<"join", t>>

\* A block that holds l around p.
Inside(l, p) == <<Take(l)>> \o p \o <<Drop(l)>>

\* Fault: the locks are taken in the other order.
L2First(p) == Inside("l2", Inside("buffer", p))

BothBuffers(p) == Inside("buffer", Inside("l2", p))

AppendBuffer == Inside("queue", <<>>)

StopPlay == BothBuffers(Inside("queue", <<>>))

\* Interrupt, of the decode thread.
Interrupt == Inside("oneLoop", <<>>)

\* The destructor of a stream of the mixer.
ReleaseStream == Inside("queue", <<>>) \o Inside("streams", <<>>)

\* StartPlay: a stream may be replaced; a label of the first unit makes it
\* reschedule under the playing thread's lock.
StartPlay(label) ==
  BothBuffers(ReleaseStream \o Inside("streams", <<>>) \o AppendBuffer
                \o (IF label THEN Inside("vector", <<>>) ELSE <<>>))

Stop == StopPlay \o Interrupt

\* Invalidate of the last sound buffer: both threads are ended.
Invalidate ==
  Stop \o Interrupt \o ReleaseStream \o <<Join("decoder")>>
    \o Inside("vector", <<>>) \o <<Join("player")>>

Programs == [
  main |->
    {StopPlay \o BothBuffers(StartPlay(l)) : l \in {FALSE, LabelFirst}}
      \cup {Stop, Invalidate,
            BothBuffers(<<>>),                            \* SetPaused
            Inside("buffer", <<>>),                       \* GetSamplePosition
            Inside("vector", Stop \o ReleaseStream),      \* TVPReleaseDirectSound
            Inside("vector", Inside("buffer", <<>>))},    \* UtilWndProc
  player |->
    {Inside("vector", Inside("buffer", p)) :
       p \in {<<>>, AppendBuffer, Inside("l2", <<>>) \o Inside("l2", AppendBuffer)}},
  decoder |-> {Inside("oneLoop", Inside("l2", <<>>))},
  audio |-> {Inside("streams", Inside("queue", <<>>))}]

TypeOK ==
  /\ todo \in [Thread -> Seq({Take(l) : l \in Lock} \cup {Drop(l) : l \in Lock}
                               \cup {Join(t) : t \in Thread})]
  /\ owner \in [Lock -> Thread \cup {"nobody"}]
  /\ depth \in [Lock -> Nat]
  /\ gone \subseteq Thread

Init ==
  /\ todo = [t \in Thread |-> <<>>]
  /\ owner = [l \in Lock |-> "nobody"]
  /\ depth = [l \in Lock |-> 0]
  /\ gone = {}

\* A thread that was not told to end goes into its loop again.
Begin(t) ==
  /\ todo[t] = <<>> /\ t \notin gone
  /\ \E p \in Programs[t] : todo' = [todo EXCEPT ![t] = p]
  /\ UNCHANGED <<owner, depth, gone>>

Now(t, what) == todo[t] # <<>> /\ Head(todo[t])[1] = what

TakeLock(t) ==
  /\ Now(t, "take")
  /\ LET l == Head(todo[t])[2]
     IN /\ owner[l] \in {t, "nobody"}
        /\ owner' = [owner EXCEPT ![l] = t]
        /\ depth' = [depth EXCEPT ![l] = @ + 1]
  /\ todo' = [todo EXCEPT ![t] = Tail(@)]
  /\ UNCHANGED gone

DropLock(t) ==
  /\ Now(t, "drop")
  /\ LET l == Head(todo[t])[2]
     IN /\ owner' = [owner EXCEPT ![l] = IF depth[l] = 1 THEN "nobody" ELSE t]
        /\ depth' = [depth EXCEPT ![l] = @ - 1]
  /\ todo' = [todo EXCEPT ![t] = Tail(@)]
  /\ UNCHANGED gone

\* A thread is joined when it has come to the end of its loop.
JoinThread(t) ==
  /\ Now(t, "join")
  /\ todo[Head(todo[t])[2]] = <<>>
  /\ gone' = gone \cup {Head(todo[t])[2]}
  /\ todo' = [todo EXCEPT ![t] = Tail(@)]
  /\ UNCHANGED <<owner, depth>>

\* A new sound buffer starts its threads again.
Revive ==
  /\ todo["main"] = <<>> /\ gone # {}
  /\ gone' = {}
  /\ UNCHANGED <<todo, owner, depth>>

Next == Revive \/ \E t \in Thread : Begin(t) \/ TakeLock(t) \/ DropLock(t) \/ JoinThread(t)

Spec == Init /\ [][Next]_vars
-----------------------------------------------------------------------------
\* The thread that t waits for; t itself if it waits for none.
WaitsFor(t) ==
  IF Now(t, "take") /\ owner[Head(todo[t])[2]] # "nobody" THEN owner[Head(todo[t])[2]]
  ELSE IF Now(t, "join") /\ todo[Head(todo[t])[2]] # <<>> THEN Head(todo[t])[2]
  ELSE t

\* No two, three or four threads wait for each other, whatever methods the
\* script calls: main, playing and decode thread and the audio callback
\* share six locks, and the main thread joins two threads.  The audio
\* callback and the locks of the mixer are taken last by everybody.
NoCircularWait ==
  \A T \in SUBSET Thread : T # {} => \E t \in T : WaitsFor(t) \notin T \/ WaitsFor(t) = t
=============================================================================
