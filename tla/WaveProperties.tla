--------------------------- MODULE WaveProperties ---------------------------
(***************************************************************************)
(* What the threads of WaveSound guarantee together.                       *)
(***************************************************************************)
EXTENDS WaveSound

\* The positions and the count of the ring agree in every interleaving of
\* the two threads, though the count is read and written outside the lock
\* of the positions (FillL2Buffer, ReadL2Buffer).
RingConsistent == writePos = (readPos + remain) % L2Units

\* ReadL2Buffer reads without L2BufferCS when it has seen more than one unit,
\* because it "will never read currently writing L2 buffer".
NeverReadsWritingUnit ==
  player = "readReady" /\ decodeThread = "writing" => readPos # writePos

\* Once StopPlay, or the end of the sound, has reset BufferPlaying, no thread
\* puts anything into the mixer's queue, and the stream is not playing: the
\* playing thread may have been anywhere in FillBuffer.
StoppedIsSilent == ~bufferPlaying => queue = <<>> /\ ~mixPlaying

\* The queue of the mixer stays within TVPAL_BUFFER_COUNT although it is
\* tested some steps before a unit is added.
QueueBounded == Len(queue) <= QueueLimit

\* A sound that comes to its end by itself was handed to the mixer to its
\* last unit.  It needs an audio device that never runs dry before, and a
\* playing thread that had seen the primary buffer playing at the start.
EndsWhole == FillEnds => \A i \in DOMAIN Unread : Unread[i] = Silence

\* A finite sound that is played ends, and its end becomes the status, unless
\* the script pauses it or goes on calling: the last call of the script is
\* the last thing that can keep it from ending.
PlayedSoundEnds ==
  (status = "play" /\ ops = MaxOps /\ ~paused) ~> (status # "play" \/ paused)
=============================================================================
