----------------------------- MODULE WaveSound -----------------------------
(***************************************************************************)
(* One WaveSoundBuffer (core/sound/sdl2/WaveImpl.cpp) with the threads     *)
(* that feed it.  The decode thread writes units of decoded sound to the   *)
(* level 2 ring; the playing thread moves them from the ring to the queue  *)
(* of the mixer; the audio callback consumes the queue; the main thread    *)
(* runs the methods the script calls.  A unit is its index in the sound.   *)
(*                                                                         *)
(* A block of the main thread that runs under BufferCS and L2BufferCS is   *)
(* one action.  A lock held across actions shows in the program counters:  *)
(* the player holds BufferCS in Holding, the decoder holds OneLoopCS and   *)
(* L2BufferCS while "writing".  Thread priorities are left out.            *)
(***************************************************************************)
EXTENDS Integers, Sequences

CONSTANTS
  StreamUnits,  \* units in the sound; the last one is short
  Looping,      \* the loop manager goes back to the start at the end
  L2Units,      \* L2BufferUnits
  QueueLimit,   \* TVPAL_BUFFER_COUNT
  SeekTargets,  \* units the script seeks to
  Underruns,    \* the audio device may drain the queue before the player refills it
  MaxStale,     \* bound: how far the ring may be read past its content
  MaxOps        \* bound: calls of the script

ASSUME WaveAssumption ==
  /\ StreamUnits \in Nat \ {0}
  /\ L2Units \in Nat \ {0, 1}
  /\ QueueLimit \in Nat \ {0}
  /\ MaxStale \in Nat
  /\ MaxOps \in Nat
  /\ Looping \in BOOLEAN
  /\ Underruns \in BOOLEAN
  /\ SeekTargets \subseteq 0 .. StreamUnits - 1

VARIABLES
  decoder,        \* Decoder, LoopManager and the filters exist
  pos,            \* position of the loop manager
  status,         \* Status
  soundBuffer,    \* SoundBuffer exists
  bufferPlaying, dsPlaying, paused,
  callback,       \* ThreadCallbackEnabled
  running,        \* Running, of the decode thread
  ring, readPos, writePos, remain, ended,  \* the level 2 buffer
  queue,          \* _buffers of the mixer's stream
  mixPlaying,     \* _playing of the mixer's stream
  primary,        \* TVPPrimarySoundBufferPlaying
  byProgram,      \* TVPPrimaryBufferPlayingByProgram
  player,         \* the playing thread
  decodeThread,   \* the decode thread
  main,           \* the main thread: the rest of the method it is in
  ops             \* calls of the script so far

ringVars  == <<ring, readPos, writePos, remain, ended, pos>>
mixVars   == <<queue, mixPlaying>>
playVars  == <<bufferPlaying, dsPlaying>>
flagVars  == <<decoder, status, soundBuffer, paused, callback>>
mainVars  == <<main, ops>>
globals   == <<primary, byProgram>>
vars == <<ringVars, mixVars, playVars, flagVars, mainVars, globals, running, player, decodeThread>>

Silence == StreamUnits   \* a unit with no decoded samples
Unit    == 0 .. StreamUnits
Cell    == 0 .. L2Units - 1
Holding == {"prepare", "fill", "read", "readReady"}

TypeOK ==
  /\ decoder \in BOOLEAN
  /\ pos \in Unit
  /\ status \in {"unload", "stop", "play"}
  /\ soundBuffer \in BOOLEAN
  /\ bufferPlaying \in BOOLEAN /\ dsPlaying \in BOOLEAN
  /\ paused \in BOOLEAN /\ callback \in BOOLEAN /\ running \in BOOLEAN
  /\ ring \in [Cell -> Unit]
  /\ readPos \in Cell /\ writePos \in Cell
  /\ remain \in -MaxStale .. L2Units
  /\ ended \in BOOLEAN
  /\ queue \in Seq(0 .. StreamUnits - 1)
  /\ mixPlaying \in BOOLEAN
  /\ primary \in BOOLEAN /\ byProgram \in BOOLEAN
  /\ player \in {"none", "idle", "check"} \cup Holding
  /\ decodeThread \in {"idle", "entering", "writing"}
  /\ main \in {"idle", "stop", "status", "handler", "clear", "unload", "load", "restart"}
  /\ ops \in 0 .. MaxOps

\* A new buffer: the playing thread is not there before the first sound of
\* the program, and has long been running before a later one.
Init ==
  /\ decoder = FALSE /\ pos = 0 /\ status = "unload" /\ soundBuffer = FALSE
  /\ bufferPlaying = FALSE /\ dsPlaying = FALSE /\ paused = FALSE
  /\ callback = FALSE /\ running = FALSE
  /\ ring = [c \in Cell |-> Silence]
  /\ readPos = 0 /\ writePos = 0 /\ remain = 0 /\ ended = FALSE
  /\ queue = <<>> /\ mixPlaying = FALSE
  /\ \/ primary = FALSE /\ byProgram = FALSE /\ player = "none"
     \/ primary = TRUE /\ byProgram = TRUE /\ player = "idle"
  /\ decodeThread = "idle"
  /\ main = "idle" /\ ops = 0

-----------------------------------------------------------------------------
(***************************************************************************)
(* The level 2 ring.                                                       *)
(***************************************************************************)
\* Fault: the position goes back to the start one unit early.
AfterEarly(c) == IF c + 2 >= L2Units THEN 0 ELSE c + 1

After(c) == IF c + 1 >= L2Units THEN 0 ELSE c + 1

\* Decode: the unit at the position of the loop manager, and the position after it.
Advanced(p) ==
  IF p + 1 < StreamUnits THEN p + 1 ELSE IF Looping THEN 0 ELSE StreamUnits
LastUnit(p) == ~Looping /\ p + 1 >= StreamUnits

\* Fault: the test for a full ring is gone.
NeverFull == FALSE

FullRing == remain = L2Units

\* FillL2Buffer past its test for a full ring: one unit is written.
FillL2Unit ==
  /\ ring' = [ring EXCEPT ![writePos] = IF ended THEN Silence ELSE pos]
  /\ ended' = (ended \/ LastUnit(pos))
  /\ pos' = IF ended THEN pos ELSE Advanced(pos)
  /\ writePos' = After(writePos)
  /\ remain' = remain + 1
  /\ UNCHANGED readPos

\* ReadL2Buffer: the unit under readPos goes to the mixer's queue.
ReadL2Buffer ==
  /\ queue' = IF ring[readPos] = Silence THEN queue ELSE Append(queue, ring[readPos])
  /\ readPos' = After(readPos)
  /\ remain' = remain - 1
  /\ UNCHANGED <<ring, writePos, ended, pos>>

\* The units in the ring that were not read yet, oldest first.
Unread == [i \in 1 .. remain |-> ring[(readPos + i - 1) % L2Units]]

-----------------------------------------------------------------------------
(***************************************************************************)
(* The decode thread.                                                      *)
(***************************************************************************)
\* Execute: Running is tested, before OneLoopCS is taken.
DecodeCheck ==
  /\ decodeThread = "idle" /\ running
  /\ decodeThread' = "entering"
  /\ UNCHANGED <<ringVars, mixVars, playVars, flagVars, mainVars, globals, running, player>>

\* FillL2Buffer(false, true): a full ring leaves everything as it is.
DecodeBegin ==
  /\ decodeThread = "entering"
  /\ decodeThread' = IF FullRing THEN "idle" ELSE "writing"
  /\ UNCHANGED <<ringVars, mixVars, playVars, flagVars, mainVars, globals, running, player>>

\* A decoder or ring deleted in the meantime is a use after free: no step follows.
DecodeEnd ==
  /\ decodeThread = "writing" /\ decoder /\ soundBuffer
  /\ FillL2Unit
  /\ decodeThread' = "idle"
  /\ UNCHANGED <<mixVars, playVars, flagVars, mainVars, globals, running, player>>

-----------------------------------------------------------------------------
(***************************************************************************)
(* The playing thread.                                                     *)
(***************************************************************************)
\* One round of Execute: the state of the primary buffer is followed, and
\* the buffer is filled when due (60 ms after the last time).
PlayerRound ==
  /\ player = "idle"
  /\ primary' = byProgram
  /\ mixPlaying' =
       IF primary = byProgram \/ ~callback \/ ~decoder \/ ~soundBuffer THEN mixPlaying
       ELSE byProgram /\ (mixPlaying \/ (~paused /\ dsPlaying /\ bufferPlaying))
  /\ \E due \in BOOLEAN : player' = IF due /\ byProgram /\ callback THEN "check" ELSE "idle"
  /\ UNCHANGED <<ringVars, queue, playVars, flagVars, mainVars, byProgram, running, decodeThread>>

\* Fault: FillBuffer does not look at BufferPlaying.
NothingThere == ~soundBuffer \/ ~decoder \/ ~primary

\* The tests FillBuffer returns at.
NothingPlays == ~soundBuffer \/ ~decoder \/ ~bufferPlaying \/ ~primary

FillSkips ==
  /\ player = "check" /\ NothingPlays
  /\ player' = "idle"
  /\ UNCHANGED <<ringVars, mixVars, playVars, flagVars, mainVars, globals, running, decodeThread>>

FillActive == player = "check" /\ ~NothingPlays

FillPauses ==
  /\ FillActive /\ paused
  /\ player' = "idle"
  /\ mixPlaying' = (mixPlaying /\ ~dsPlaying)
  /\ dsPlaying' = FALSE
  /\ UNCHANGED <<ringVars, queue, bufferPlaying, flagVars, mainVars, globals, running, decodeThread>>

\* Fault: what the mixer still has does not count.
DecodedToEnd == ended

\* Fault: what is decoded, silence included, must be read first.
ReadToEnd == ended /\ queue = <<>> /\ remain = 0

\* The sound is over: decoded to its end, and the mixer has nothing left.
AtEnd == ended /\ queue = <<>>

FillEnds ==
  /\ FillActive /\ ~paused /\ AtEnd
  /\ player' = "idle"
  /\ mixPlaying' = FALSE /\ dsPlaying' = FALSE /\ bufferPlaying' = FALSE
  /\ pos' = 0
  /\ UNCHANGED <<ring, readPos, writePos, remain, ended, queue, flagVars, mainVars, globals,
                 running, decodeThread>>

\* Fault: one unit too many.
QueueOverFull == Len(queue) > QueueLimit

QueueFull == Len(queue) >= QueueLimit

\* Past the tests; whether the ring must be locked is decided on the
\* number of units seen here.
FillGoesOn ==
  /\ FillActive /\ ~paused /\ ~AtEnd
  /\ mixPlaying' = (mixPlaying \/ ~dsPlaying)
  /\ dsPlaying' = TRUE
  /\ player' = IF QueueFull THEN "idle"
               ELSE IF remain > 1 THEN "readReady" ELSE "prepare"
  /\ UNCHANGED <<ringVars, queue, bufferPlaying, flagVars, mainVars, globals, running, decodeThread>>

\* PrepareToReadL2Buffer: an empty ring is filled by the player itself.
Prepare ==
  /\ player = "prepare"
  /\ player' = IF remain = 0 /\ ~ended THEN "fill" ELSE "read"
  /\ UNCHANGED <<ringVars, mixVars, playVars, flagVars, mainVars, globals, running, decodeThread>>

PlayerFillsL2 ==
  /\ player = "fill" /\ decodeThread # "writing"
  /\ IF FullRing THEN UNCHANGED ringVars ELSE FillL2Unit
  /\ player' = "read"
  /\ UNCHANGED <<mixVars, playVars, flagVars, mainVars, globals, running, decodeThread>>

\* The unit is moved, under L2BufferCS ("read") or without it ("readReady").
PlayerReads ==
  /\ \/ player = "read" /\ decodeThread # "writing"
     \/ player = "readReady"
  /\ remain > -MaxStale
  /\ ReadL2Buffer
  /\ player' = "idle"
  /\ UNCHANGED <<mixPlaying, playVars, flagVars, mainVars, globals, running, decodeThread>>

\* The audio callback finishes the first unit of the queue.
Hear ==
  /\ mixPlaying /\ queue # <<>>
  /\ Underruns \/ Len(queue) > 1 \/ (ended /\ \A i \in DOMAIN Unread : Unread[i] = Silence)
  /\ queue' = Tail(queue)
  /\ UNCHANGED <<ringVars, mixPlaying, playVars, flagVars, mainVars, globals, running, player,
                 decodeThread>>

-----------------------------------------------------------------------------
(***************************************************************************)
(* The methods of the script, on the main thread.                          *)
(***************************************************************************)
\* Fault: the critical sections are left out.
AlwaysFree == TRUE

\* BufferCS and L2BufferCS are free.
BufferFree == player \notin Holding /\ decodeThread # "writing"

Call == main = "idle" /\ ops < MaxOps /\ ops' = ops + 1

\* StopPlay: the mixer's stream is stopped and emptied.
StopPlay ==
  /\ IF decoder /\ soundBuffer
     THEN /\ BufferFree
          /\ queue' = <<>> /\ mixPlaying' = FALSE
          /\ dsPlaying' = FALSE /\ bufferPlaying' = FALSE
     ELSE UNCHANGED <<mixVars, playVars>>

\* Interrupt, of the decode thread: Running falls under OneLoopCS.
Interrupt ==
  IF running THEN decodeThread # "writing" /\ running' = FALSE ELSE UNCHANGED running

\* StartPlay: an empty ring gets one unit, FillL2Buffer(true, false), which
\* FillBuffer(true, false) moves to the emptied queue, if the playing thread
\* has seen that the primary buffer plays; then both threads are let go.
StartPlay ==
  /\ BufferFree
  /\ soundBuffer' = TRUE
  /\ bufferPlaying' = TRUE
  /\ ended' = LastUnit(pos)
  /\ pos' = Advanced(pos)
  /\ ring' = [c \in Cell |-> IF c = 0 THEN pos ELSE Silence]
  /\ writePos' = After(0)
  /\ readPos' = IF primary THEN After(0) ELSE 0
  /\ queue' = IF primary /\ pos # Silence THEN <<pos>> ELSE <<>>
  /\ remain' = IF primary THEN 0 ELSE 1
  /\ mixPlaying' = ~paused
  /\ dsPlaying' = ~paused
  /\ player' = IF player = "none" THEN "idle" ELSE player
  /\ byProgram' = TRUE /\ callback' = TRUE /\ running' = TRUE

\* Play, of a sound that does not play: StopPlay has nothing left to stop.
\* The handler of onStatusChanged, which Stop runs, may call it.
Play ==
  /\ main \in {"idle", "handler"} /\ ops < MaxOps /\ ops' = ops + 1
  /\ decoder /\ ~bufferPlaying
  /\ StartPlay
  /\ status' = "play"
  /\ UNCHANGED <<decoder, paused, primary, decodeThread, main>>

\* Stop, in steps: the sound, the decode thread, the status with its
\* handler, the position.
Stop ==
  /\ Call /\ StopPlay
  /\ main' = "stop"
  /\ UNCHANGED <<ringVars, flagVars, globals, running, player, decodeThread>>

StopThread ==
  /\ main \in {"stop", "clear"}
  /\ callback' = FALSE
  /\ Interrupt
  /\ main' = IF main = "stop" THEN "status" ELSE "unload"
  /\ UNCHANGED <<ringVars, mixVars, playVars, decoder, status, soundBuffer, paused, globals, ops,
                 player, decodeThread>>

StopStatus ==
  /\ main = "status"
  /\ status' = IF status = "unload" THEN status ELSE "stop"
  /\ main' = "handler"
  /\ UNCHANGED <<ringVars, mixVars, playVars, decoder, soundBuffer, paused, callback, globals, ops,
                 running, player, decodeThread>>

Rewind ==
  /\ main = "handler"
  /\ pos' = IF decoder THEN 0 ELSE pos
  /\ main' = "idle"
  /\ UNCHANGED <<ring, readPos, writePos, remain, ended, mixVars, playVars, flagVars, globals, ops,
                 running, player, decodeThread>>

\* Open: Clear stops as Stop does and deletes the decoder, then a new one is made.
Open ==
  /\ Call /\ StopPlay
  /\ byProgram' = TRUE
  /\ main' = "clear"
  /\ UNCHANGED <<ringVars, flagVars, primary, running, player, decodeThread>>

Unload ==
  /\ main = "unload"
  /\ decoder' = FALSE /\ status' = "unload" /\ paused' = FALSE
  /\ bufferPlaying' = FALSE /\ dsPlaying' = FALSE
  /\ main' = "load"
  /\ UNCHANGED <<ringVars, mixVars, soundBuffer, callback, globals, ops, running, player,
                 decodeThread>>

Load ==
  /\ main = "load"
  /\ decoder' = TRUE /\ pos' = 0 /\ status' = "stop"
  /\ main' = "idle"
  /\ UNCHANGED <<ring, readPos, writePos, remain, ended, mixVars, playVars, soundBuffer, paused,
                 callback, globals, ops, running, player, decodeThread>>

\* TVPReleaseDirectSound: Stop and DestroySoundBuffer while the playing
\* thread is kept out by TVPWaveSoundBufferVectorCS.
FreeDirectSound ==
  /\ Call /\ player \in {"none", "idle"} /\ decodeThread # "writing"
  /\ soundBuffer' = FALSE /\ bufferPlaying' = FALSE /\ dsPlaying' = FALSE
  /\ queue' = <<>> /\ mixPlaying' = FALSE
  /\ callback' = FALSE /\ running' = FALSE
  /\ status' = IF status = "unload" THEN status ELSE "stop"
  /\ pos' = IF decoder THEN 0 ELSE pos
  /\ UNCHANGED <<ring, readPos, writePos, remain, ended, decoder, paused, globals, main, player,
                 decodeThread>>

SetPaused(b) ==
  /\ Call /\ BufferFree
  /\ paused' = b
  /\ UNCHANGED <<ringVars, mixVars, playVars, decoder, status, soundBuffer, callback, globals, main,
                 running, player, decodeThread>>

\* SetSamplePosition: of a sound that is heard, by a stop and a new start.
\* The decode thread may run before StartPlay, and take the new position.
Seek(p) ==
  /\ Call /\ decoder /\ bufferPlaying /\ dsPlaying
  /\ StopPlay
  /\ pos' = p
  /\ main' = "restart"
  /\ UNCHANGED <<ring, readPos, writePos, remain, ended, flagVars, globals, running, player,
                 decodeThread>>

SeekStarts ==
  /\ main = "restart"
  /\ StartPlay
  /\ main' = "idle"
  /\ UNCHANGED <<decoder, status, paused, primary, ops, decodeThread>>

SeekSilent(p) ==
  /\ Call /\ decoder /\ ~(bufferPlaying /\ dsPlaying)
  /\ pos' = p
  /\ UNCHANGED <<ring, readPos, writePos, remain, ended, mixVars, playVars, flagVars, globals, main,
                 running, player, decodeThread>>

\* TimerBeatHandler: a sound that ended by itself becomes a stopped one.
TimerBeat ==
  /\ main = "idle" /\ status = "play" /\ ~bufferPlaying
  /\ callback' = FALSE
  /\ Interrupt
  /\ status' = "stop"
  /\ UNCHANGED <<ringVars, mixVars, playVars, decoder, soundBuffer, paused, globals, mainVars,
                 player, decodeThread>>

-----------------------------------------------------------------------------
DecodeStep == DecodeCheck \/ DecodeBegin \/ DecodeEnd
PlayerStep == PlayerRound \/ FillSkips \/ FillPauses \/ FillEnds \/ FillGoesOn
                \/ Prepare \/ PlayerFillsL2 \/ PlayerReads
CallStep == \/ Play \/ Stop \/ Open \/ FreeDirectSound
            \/ \E b \in BOOLEAN : SetPaused(b)
            \/ \E p \in SeekTargets : Seek(p) \/ SeekSilent(p)
MainStep == \/ StopThread \/ StopStatus \/ Rewind \/ Unload \/ Load \/ SeekStarts \/ TimerBeat

Next == DecodeStep \/ PlayerStep \/ Hear \/ CallStep \/ MainStep

Spec == Init /\ [][Next]_vars

\* Every thread goes on, a started method returns, and what the mixer has
\* is heard; nobody has to call a method.
FairSpec ==
  /\ Spec
  /\ WF_vars(DecodeStep) /\ WF_vars(PlayerStep) /\ WF_vars(Hear) /\ WF_vars(MainStep)
=============================================================================
