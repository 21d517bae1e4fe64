----------------------------- MODULE SoundParts ------------------------------
(***************************************************************************)
(* The parts with a clock, the sound system and the timers, side by side.  *)
(* Each behaviour is one of a single part, which the variable part names;  *)
(* the variables of the others keep their initial values.  The threads     *)
(* around the level 2 buffer come twice: with a looped sound, whose        *)
(* buffering is compared with SoundStream, and with a sound that is not    *)
(* the first of the program, on a device that is fed in time.  (With       *)
(* everything that may happen, they are checked as WaveProperties.)  The   *)
(* timers are not an instance but this module's own.                       *)
(***************************************************************************)
EXTENDS Integers, Sequences, TimerThread

CONSTANTS
  StreamUnits, L2Units, QueueLimit, SeekTargets, MaxStale, MaxOps,          \* of WaveSound
  UnitSamples, Units, Labels, L1Units, MaxPlays, MaxLabelTick,              \* of WaveLabels
  Formats, Invalid, Unsupported, Volumes, Pans, Recreates,                  \* of SoundDevice
  Voice, Wide, Length, Chunks, MaxBuffers, MaxSent                          \* of SoundMixer

\* The sound has a unit, the ring two (L2BufferUnits is at least that,
\* WaveImpl.cpp:2189), the queue of the mixer one.
ASSUME StreamAssumption ==
  /\ StreamUnits \in Nat \ {0} /\ L2Units \in Nat \ {0, 1} /\ QueueLimit \in Nat \ {0}
  /\ MaxStale \in Nat /\ MaxOps \in Nat /\ SeekTargets \subseteq 0 .. StreamUnits - 1
\* The labels are positions in the sound, and the level 1 buffer has
\* two units at least (WaveImpl.cpp:2172).
ASSUME LabelAssumption ==
  /\ UnitSamples \in Nat \ {0} /\ L1Units \in Nat \ {0, 1} /\ Units \in Nat
  /\ Labels \subseteq 0 .. UnitSamples * Units - 1
  /\ MaxPlays \in Nat /\ MaxLabelTick \in Nat
ASSUME DeviceAssumption == "none" \notin Formats /\ Volumes \subseteq Int /\ Pans \subseteq Int
\* No buffer is empty.
ASSUME MixerAssumption == Chunks \subseteq Nat \ {0} /\ Length \in Nat
\* The intervals of the script have a greatest.
ASSUME TimerAssumption ==
  /\ Capacity \in Nat /\ Burst \in Nat /\ Least \in Nat /\ MaxTick \in Nat
  /\ Intervals \subseteq Nat /\ \E m \in Intervals : \A n \in Intervals : m >= n

VARIABLES part

VARIABLES decoder, pos, status, soundBuffer, bufferPlaying, dsPlaying, paused,
  callback, running, ring, readPos, writePos, remain, ended, queue, mixPlaying,
  primary, byProgram, player, decodeThread, main, ops
Looped == INSTANCE WaveProperties WITH Looping <- TRUE, Underruns <- TRUE, MaxStale <- 0
Warm == INSTANCE WaveProperties WITH Looping <- FALSE, Underruns <- FALSE

VARIABLES clock, sounding, dsSounding, held, sent, cached, decodePos, l1, l1Write, labelQueue,
  lastPos, lastTick, awaited, called, filledAt, announced, fired, plays
Events == INSTANCE LabelProperties WITH Pauses <- FALSE, MaxTick <- MaxLabelTick,
  playing <- sounding, dsPlaying <- dsSounding, paused <- held,
  now <- clock, pending <- awaited, posted <- announced

VARIABLES input, created, device, deviceL1, l2, vis, useVis, opened, started, failed,
  volume, volume2, globalVolume, pan, deviceVolume, devicePan
Device == INSTANCE SoundDevice WITH l1 <- deviceL1, decoder <- opened, playing <- started

VARIABLES streams, memory, mixed, buffers, front, streamSent, streamCached, mixer, left, current,
  wanted
Mixer == INSTANCE SoundMixer WITH Stream <- Voice,
  playing <- mixed, sent <- streamSent, cached <- streamCached, callback <- mixer

VARIABLES todo, owner, depth, gone
Locks == INSTANCE SoundLocks WITH LabelFirst <- FALSE

waveVars   == <<decoder, pos, status, soundBuffer, bufferPlaying, dsPlaying, paused,
  callback, running, ring, readPos, writePos, remain, ended, queue, mixPlaying,
  primary, byProgram, player, decodeThread, main, ops>>
labelVars  == <<clock, sounding, dsSounding, held, sent, cached, decodePos, l1, l1Write,
  labelQueue, lastPos, lastTick, awaited, called, filledAt, announced, fired, plays>>
deviceVars == <<input, created, device, deviceL1, l2, vis, useVis, opened, started, failed,
  volume, volume2, globalVolume, pan, deviceVolume, devicePan>>
mixerVars  == <<streams, memory, mixed, buffers, front, streamSent, streamCached, mixer,
  left, current, wanted>>
lockVars   == <<todo, owner, depth, gone>>

PartsInit ==
  /\ part \in {"looped", "warm", "labels", "device", "mixer", "locks", "timers"}
  /\ Looped!Init /\ (primary <=> part = "warm")
  /\ Events!Init /\ Device!Init /\ Mixer!Init /\ Locks!Init /\ Init

LoopedStep ==
  /\ part = "looped" /\ Looped!Next
  /\ UNCHANGED <<part, labelVars, deviceVars, mixerVars, lockVars, vars>>
WarmStep ==
  /\ part = "warm" /\ Warm!Next
  /\ UNCHANGED <<part, labelVars, deviceVars, mixerVars, lockVars, vars>>
LabelStep ==
  /\ part = "labels" /\ Events!Next
  /\ UNCHANGED <<part, waveVars, deviceVars, mixerVars, lockVars, vars>>
DeviceStep ==
  /\ part = "device" /\ Device!Next
  /\ UNCHANGED <<part, waveVars, labelVars, mixerVars, lockVars, vars>>
MixerStep ==
  /\ part = "mixer" /\ Mixer!Next
  /\ UNCHANGED <<part, waveVars, labelVars, deviceVars, lockVars, vars>>
LockStep ==
  /\ part = "locks" /\ Locks!Next
  /\ UNCHANGED <<part, waveVars, labelVars, deviceVars, mixerVars, vars>>
TimerStep ==
  /\ part = "timers" /\ Next
  /\ UNCHANGED <<part, waveVars, labelVars, deviceVars, mixerVars, lockVars>>

partsVars == <<part, waveVars, labelVars, deviceVars, mixerVars, lockVars, vars>>
PartsNext ==
  LoopedStep \/ WarmStep \/ LabelStep \/ DeviceStep \/ MixerStep \/ LockStep \/ TimerStep
PartsSpec == PartsInit /\ [][PartsNext]_partsVars
-----------------------------------------------------------------------------
\* The variables of every part keep their types.
PartsTypeOK ==
  /\ Warm!TypeOK /\ Events!TypeOK /\ Device!TypeOK /\ Mixer!TypeOK /\ Locks!TypeOK
  /\ TypeOK

\* The buffering of a looped sound implements SoundStream: the ring is the
\* queue of decoded units, and no thread loses, repeats or reorders one.
Stream == INSTANCE SoundStream WITH
  Units <- StreamUnits, DecodedMax <- L2Units, QueuedMax <- QueueLimit,
  at <- IF part = "looped" THEN pos ELSE 0,
  decoded <- IF part = "looped" THEN Looped!Unread ELSE <<>>,
  queued <- IF part = "looped" THEN queue ELSE <<>>
StreamSpec == Stream!Spec

\* A sound on a device that never runs dry, and not the first of the program,
\* ends after its last unit was handed over (WaveProperties), and a sound that
\* ends by itself has fired all its labels (LabelProperties).
EndsWhole == [][(part = "warm" => Warm!EndsWhole) /\ Events!EndFires]_partsVars

\* The labels of a sound are fired in order and awaited by an event or the
\* clock (LabelProperties).
LabelsKept == Events!FiredInOrder /\ Events!LabelsAwaited

\* The stream has the format and the volume of the sound (SoundDevice).
DeviceAgrees == Device!BuffersMatch /\ Device!VolumeFollows

\* The count of samples that positions are computed from (SoundMixer).
PositionExact == Mixer!PositionExact

\* Nobody waits in a circle, with no label in the first unit (SoundLocks), and
\* the audio callback never meets a stream that is deleted (SoundMixer).
LocksSuffice == Locks!NoCircularWait /\ Mixer!OnlyLive
=============================================================================
