----------------------------- MODULE SoundMixer -----------------------------
(***************************************************************************)
(* The software mixer (core/sound/sdl2/WaveMixer.cpp).  The audio callback *)
(* of SDL walks the streams under _streams_mtx and takes what each has     *)
(* queued under the stream's _buffer_mtx, buffer by buffer; another thread  *)
(* appends to a stream, starts and stops it, and deletes it.  Lengths are  *)
(* in frames of the device; any other block under a mutex that calls       *)
(* nothing is one action.                                                  *)
(***************************************************************************)
EXTENDS Integers, Sequences

CONSTANTS
  Stream,      \* every stream there may be
  Wide,        \* those whose own frames are half as long as the device's
  Length,      \* frames the device asks for at once
  Chunks,      \* lengths of the buffers appended
  MaxBuffers,  \* TVPAL_BUFFER_COUNT, which the caller of AppendBuffer heeds
  MaxSent      \* bound on the frames appended since a reset

VARIABLES
  streams,   \* _streams
  memory,    \* of each stream: "none", "live", "stopped", "erased" while it is deleted, "freed"
  playing,   \* _playing
  buffers,   \* _buffers, a sequence of lengths
  front,     \* _sendedFrontBuffer
  sent,      \* _sendedSamples
  cached,    \* _inCachedSamples
  callback,  \* the audio callback: "idle", or holding _streams_mtx, or also a _buffer_mtx
  left,      \* streams the callback has still to mix
  current,   \* the stream it has seen playing and now mixes
  wanted     \* frames it still wants from that stream

countVars == <<buffers, front, sent, cached>>
callVars  == <<callback, left, current, wanted>>
lifeVars  == <<streams, memory>>
vars == <<lifeVars, playing, countVars, callVars>>

TypeOK ==
  /\ streams \subseteq Stream
  /\ memory \in [Stream -> {"none", "live", "stopped", "erased", "freed"}]
  /\ playing \in [Stream -> BOOLEAN]
  /\ buffers \in [Stream -> Seq(Chunks)]
  /\ front \in [Stream -> Nat] /\ sent \in [Stream -> Nat] /\ cached \in [Stream -> Nat]
  /\ callback \in {"idle", "mixing", "filling"}
  /\ left \subseteq Stream /\ current \subseteq Stream /\ wanted \in 0 .. Length

Init ==
  /\ streams = {} /\ memory = [s \in Stream |-> "none"]
  /\ playing = [s \in Stream |-> FALSE]
  /\ buffers = [s \in Stream |-> <<>>]
  /\ front = [s \in Stream |-> 0]
  /\ sent = [s \in Stream |-> 0] /\ cached = [s \in Stream |-> 0]
  /\ callback = "idle" /\ left = {} /\ current = {} /\ wanted = 0

\* FillBuffer has _buffer_mtx.
Filling(s) == callback = "filling" /\ s \in current

-----------------------------------------------------------------------------
\* The thread that owns the streams.
CreateStream(s) ==
  /\ memory[s] = "none" /\ callback = "idle"
  /\ streams' = streams \cup {s}
  /\ memory' = [memory EXCEPT ![s] = "live"]
  /\ UNCHANGED <<playing, countVars, callVars>>

\* AppendBuffer counts what it converted to frames of the device in frames
\* of the stream.
Counted(s, n) == IF s \in Wide THEN 2 * n ELSE n

AppendBuffer(s, n) ==
  /\ memory[s] = "live" /\ ~Filling(s)
  /\ Len(buffers[s]) < MaxBuffers /\ sent[s] + cached[s] + n <= MaxSent
  /\ buffers' = [buffers EXCEPT ![s] = Append(@, n)]
  /\ cached' = [cached EXCEPT ![s] = @ + Counted(s, n)]
  /\ UNCHANGED <<lifeVars, playing, front, sent, callVars>>

Play(s) ==
  /\ memory[s] = "live"
  /\ playing' = [playing EXCEPT ![s] = TRUE]
  /\ UNCHANGED <<lifeVars, countVars, callVars>>

\* Pause, and the first half of Stop.
Pause(s) ==
  /\ memory[s] = "live"
  /\ playing' = [playing EXCEPT ![s] = FALSE]
  /\ UNCHANGED <<lifeVars, countVars, callVars>>

\* Fault: the front of the queue is not reset.
FrontAfterReset(s) == front[s]

FrontReset(s) == 0

\* Reset, and the second half of Stop.
Reset(s) ==
  /\ memory[s] \in {"live", "stopped"} /\ ~Filling(s)
  /\ buffers' = [buffers EXCEPT ![s] = <<>>]
  /\ cached' = [cached EXCEPT ![s] = 0]
  /\ sent' = [sent EXCEPT ![s] = 0]
  /\ front' = [front EXCEPT ![s] = FrontReset(s)]
  /\ UNCHANGED <<lifeVars, playing, callVars>>

\* The destructor: Stop, ReleaseStream, the memory.
ReleaseStop(s) ==
  /\ memory[s] = "live"
  /\ memory' = [memory EXCEPT ![s] = "stopped"]
  /\ playing' = [playing EXCEPT ![s] = FALSE]
  /\ UNCHANGED <<streams, countVars, callVars>>

\* Fault: the stream is taken out without _streams_mtx.
AnyTime == TRUE

StreamsFree == callback = "idle"

ReleaseStream(s) ==
  /\ memory[s] = "stopped" /\ StreamsFree
  /\ streams' = streams \ {s}
  /\ memory' = [memory EXCEPT ![s] = "erased"]
  /\ UNCHANGED <<playing, countVars, callVars>>

Free(s) ==
  /\ memory[s] = "erased"
  /\ memory' = [memory EXCEPT ![s] = "freed"]
  /\ UNCHANGED <<streams, playing, countVars, callVars>>

-----------------------------------------------------------------------------
\* The audio callback: the output is silence, then every stream is added.
CallbackBegins ==
  /\ callback = "idle"
  /\ callback' = "mixing" /\ left' = streams
  /\ UNCHANGED <<lifeVars, playing, countVars, current, wanted>>

\* FillBuffer, before it takes _buffer_mtx.
SeePlaying(s) ==
  /\ callback = "mixing" /\ current = {} /\ s \in left
  /\ left' = left \ {s}
  /\ current' = IF playing[s] THEN {s} ELSE {}
  /\ UNCHANGED <<lifeVars, playing, countVars, callback, wanted>>

FillBegins ==
  /\ callback = "mixing" /\ current # {}
  /\ callback' = "filling" /\ wanted' = Length
  /\ UNCHANGED <<lifeVars, playing, countVars, left, current>>

\* Fault: a buffer that is used up exactly stays.
AfterLast(s, to) == to > Head(buffers[s])

UsedUp(s, to) == to >= Head(buffers[s])

\* Once round the loop of FillBuffer: from the first buffer, which is dropped
\* when it is used up.
Mix(s) ==
  /\ Filling(s) /\ wanted > 0 /\ buffers[s] # <<>>
  /\ LET rest == Head(buffers[s]) - front[s]
         n == IF rest < wanted THEN rest ELSE wanted
     IN /\ sent' = [sent EXCEPT ![s] = @ + n]
        /\ cached' = [cached EXCEPT ![s] = @ - n]
        /\ wanted' = wanted - n
        /\ IF UsedUp(s, front[s] + n)
           THEN /\ front' = [front EXCEPT ![s] = 0]
                /\ buffers' = [buffers EXCEPT ![s] = Tail(@)]
           ELSE front' = [front EXCEPT ![s] = @ + n] /\ UNCHANGED buffers
  /\ UNCHANGED <<lifeVars, playing, callback, left, current>>

FillEnds(s) ==
  /\ Filling(s) /\ (wanted = 0 \/ buffers[s] = <<>>)
  /\ callback' = "mixing" /\ current' = {} /\ wanted' = 0
  /\ UNCHANGED <<lifeVars, playing, countVars, left>>

CallbackEnds ==
  /\ callback = "mixing" /\ left = {} /\ current = {}
  /\ callback' = "idle"
  /\ UNCHANGED <<lifeVars, playing, countVars, left, current, wanted>>

Owner(s) ==
  \/ CreateStream(s) \/ Play(s) \/ Pause(s) \/ Reset(s)
  \/ ReleaseStop(s) \/ ReleaseStream(s) \/ Free(s)
  \/ \E n \in Chunks : AppendBuffer(s, n)

Callback == \/ CallbackBegins \/ FillBegins \/ CallbackEnds
            \/ \E s \in Stream : SeePlaying(s) \/ Mix(s) \/ FillEnds(s)

Next == Callback \/ \E s \in Stream : Owner(s)

Spec == Init /\ [][Next]_vars
-----------------------------------------------------------------------------
\* The callback never touches a stream whose destructor has gone on to free
\* it: ReleaseStream waits for _streams_mtx, which the callback holds.
OnlyLive == \A s \in left \cup current : memory[s] \in {"live", "stopped"}

\* Frames of a queue of buffers.
Frames(q) ==
  LET upTo[i \in 0 .. Len(q)] == IF i = 0 THEN 0 ELSE upTo[i - 1] + q[i] IN upTo[Len(q)]

\* The play position is worked out from what is queued: the count of queued
\* frames, changed by appending, mixing and resetting, is what the buffers
\* hold, in streams whose frames are as long as the device's; the first
\* buffer is never used up (AppendBuffer, Reset, FillBuffer).
PositionExact ==
  \A s \in Stream \ Wide :
    /\ cached[s] = Frames(buffers[s]) - front[s]
    /\ front[s] < IF buffers[s] = <<>> THEN 1 ELSE Head(buffers[s])
=============================================================================
