---------------------------- MODULE SoundDevice ----------------------------
(***************************************************************************)
(* The stream of the mixer a WaveSoundBuffer plays through, its SoundBuffer *)
(* (core/sound/sdl2/WaveImpl.cpp): made when a sound is started whose      *)
(* format differs from the last one, with the level 1 and level 2 buffers  *)
(* and the buffer for visualisation, and given the volume and pan that the *)
(* script set before or sets later.                                        *)
(*                                                                         *)
(* Everything runs on the main thread.  A method is one action; one that   *)
(* throws leaves what it had changed by then.                              *)
(***************************************************************************)
EXTENDS Integers

CONSTANTS
  Formats,      \* formats of the sounds
  Invalid,      \* formats with less than one sample in an access unit
  Unsupported,  \* formats CreateStream has no conversion for
  Volumes,      \* volumes the script sets
  Pans,         \* pans the script sets
  Recreates     \* TVPAlwaysRecreateSoundBuffer, of -wsrecreate

None == "none"
Full == 100 * 1000  \* the full volume, and the pan to the right

VARIABLES
  input,        \* InputFormat, of the opened sound
  created,      \* C_InputFormat
  device,       \* the format SoundBuffer was made for
  l1, l2,       \* the formats the level 1 and level 2 buffers were made for
  vis,          \* the format VisBuffer was made for
  useVis,       \* UseVisBuffer
  decoder,      \* Decoder exists
  playing,      \* BufferPlaying
  failed,       \* StartPlay went on without a SoundBuffer: the end of the program
  volume, volume2, globalVolume, pan,
  deviceVolume, devicePan  \* of SoundBuffer, in the script's scale

formatVars == <<input, created, device, l1, l2, vis, useVis>>
playVars   == <<decoder, playing, failed>>
scriptVars == <<volume, volume2, globalVolume, pan>>
mixVars    == <<deviceVolume, devicePan>>
vars == <<formatVars, playVars, scriptVars, mixVars>>

Format == Formats \cup {None}

TypeOK ==
  /\ input \in Format /\ created \in Format /\ device \in Format
  /\ l1 \in Format /\ l2 \in Format /\ vis \in Format
  /\ useVis \in BOOLEAN /\ decoder \in BOOLEAN /\ playing \in BOOLEAN /\ failed \in BOOLEAN
  /\ {volume, volume2, globalVolume} \subseteq 0 .. Full
  /\ pan \in -Full .. Full
  /\ deviceVolume \in 0 .. Full /\ devicePan \in -Full .. Full

Init ==
  /\ input = None /\ created = None /\ device = None /\ l1 = None /\ l2 = None /\ vis = None
  /\ useVis = FALSE /\ decoder = FALSE /\ playing = FALSE /\ failed = FALSE
  /\ volume = Full /\ volume2 = Full /\ globalVolume = Full /\ pan = 0
  /\ deviceVolume = Full /\ devicePan = 0

-----------------------------------------------------------------------------
\* Fault: the factors are divided before they are multiplied.
DividedFirst(a, b) == (a \div 1000) * (b \div 1000) * 10

\* Two volumes in one.
Scaled(a, b) == ((a \div 10) * (b \div 10)) \div 1000

\* SetVolumeToSoundBuffer: what the device is given; mutevol stays full.
Product(v, v2, g) == Scaled(Scaled(Scaled(v, v2), g), Full)

\* BufferCanControlPan is FALSE for ever: the pan is not passed on.
SetVolumeToSoundBuffer(d, v, v2, g) ==
  deviceVolume' = IF d = None THEN deviceVolume ELSE Product(v, v2, g)

SameFormat == created = input /\ ~Recreates

\* Fault: the old buffer for visualisation is kept.
KeepVis(f) == IF useVis /\ vis = None THEN f ELSE vis

\* TryCreateSoundBuffer, for UseVisBuffer: ResetVisBuffer.
RemadeVis(f) == IF useVis THEN f ELSE vis

\* TryCreateSoundBuffer of a format whose units are empty: the old stream is
\* gone, the level 1 buffer is new, and an exception leaves the rest.
CreateThrows ==
  /\ ~SameFormat /\ input \in Invalid
  /\ device' = None /\ l1' = input
  /\ UNCHANGED <<input, created, l2, vis, useVis, playing, decoder, failed, mixVars>>

\* CreateSoundBuffer that goes through; StartPlay then plays on the stream.
CreateSoundBuffer ==
  /\ SameFormat \/ input \notin Invalid
  /\ IF SameFormat
     THEN /\ UNCHANGED <<device, l1, l2, vis, devicePan>>
     ELSE /\ device' = IF input \in Unsupported THEN None ELSE input
          /\ l1' = input /\ l2' = input
          /\ vis' = RemadeVis(input)
          /\ devicePan' = 0
  /\ SetVolumeToSoundBuffer(device', volume, volume2, globalVolume)
  /\ created' = input
  /\ playing' = TRUE
  /\ failed' = (device' = None)
  /\ UNCHANGED <<input, useVis, decoder>>

Play ==
  /\ decoder /\ ~playing /\ ~failed
  /\ CreateThrows \/ CreateSoundBuffer
  /\ UNCHANGED scriptVars

\* Stop, and the end of a sound.
Stop ==
  /\ playing /\ ~failed
  /\ playing' = FALSE
  /\ UNCHANGED <<formatVars, decoder, failed, scriptVars, mixVars>>

\* Open: the sound before it is stopped; one that cannot be opened leaves
\* none, and its format only when it was the loop information that failed.
Open(f) ==
  /\ ~failed
  /\ playing' = FALSE
  /\ \/ decoder' = TRUE /\ input' = f
     \/ decoder' = FALSE /\ input' \in {input, f}
  /\ UNCHANGED <<created, device, l1, l2, vis, useVis, failed, scriptVars, mixVars>>

\* TVPReleaseDirectSound: DestroySoundBuffer and DeallocateVisBuffer.
DestroySoundBuffer ==
  /\ ~failed
  /\ device' = None /\ l1' = None /\ l2' = None /\ created' = None
  /\ vis' = None /\ useVis' = FALSE
  /\ playing' = FALSE
  /\ UNCHANGED <<input, decoder, failed, scriptVars, mixVars>>

SetUseVisBuffer(b) ==
  /\ ~failed
  /\ useVis' = b
  /\ vis' = IF ~b THEN None ELSE IF device # None THEN l1 ELSE vis
  /\ UNCHANGED <<input, created, device, l1, l2, playVars, scriptVars, mixVars>>

Held(low, v) == IF v < low THEN low ELSE IF v > Full THEN Full ELSE v

SetVolume(v) ==
  /\ ~failed /\ volume # v
  /\ volume' = v
  /\ SetVolumeToSoundBuffer(device, v, volume2, globalVolume)
  /\ UNCHANGED <<formatVars, playVars, volume2, globalVolume, pan, devicePan>>

SetVolume2(v) ==
  /\ ~failed /\ volume2 # v
  /\ volume2' = v
  /\ SetVolumeToSoundBuffer(device, volume, v, globalVolume)
  /\ UNCHANGED <<formatVars, playVars, volume, globalVolume, pan, devicePan>>

\* SetGlobalVolume: TVPResetVolumeToAllSoundBuffer.
SetGlobalVolume(v) ==
  /\ ~failed /\ globalVolume # v
  /\ globalVolume' = v
  /\ SetVolumeToSoundBuffer(device, volume, volume2, v)
  /\ UNCHANGED <<formatVars, playVars, volume, volume2, pan, devicePan>>

\* SetPan takes the branch for 3D sound, which ends in a method of the
\* stream that does nothing.
SetPan(p) ==
  /\ ~failed /\ pan # p
  /\ pan' = p
  /\ UNCHANGED <<formatVars, playVars, volume, volume2, globalVolume, mixVars>>

Next ==
  \/ Play \/ Stop \/ DestroySoundBuffer
  \/ \E f \in Formats : Open(f)
  \/ \E b \in BOOLEAN : SetUseVisBuffer(b)
  \/ \E v \in {Held(0, x) : x \in Volumes} : SetVolume(v) \/ SetVolume2(v) \/ SetGlobalVolume(v)
  \/ \E p \in {Held(-Full, x) : x \in Pans} : SetPan(p)

Spec == Init /\ [][Next]_vars
-----------------------------------------------------------------------------
\* Until the program meets a missing stream, a sound that plays has a stream
\* and buffers of its own format, whatever was opened, played and released
\* before, though they are made anew only when the format differs from the
\* remembered one (CreateSoundBuffer); the buffer for visualisation is as
\* long as the level 1 buffer it mirrors.
BuffersMatch ==
  playing /\ ~failed => {device, l1, l2} = {input} /\ (useVis => vis = input)

\* A stream has the volume of the script, set before it was made or since:
\* it is never louder than one of the three, and with the other two full it
\* is the third, to a step of ten (SetVolumeToSoundBuffer).
Follows(v, w, x) ==
  deviceVolume <= v /\ (w = Full /\ x = Full => deviceVolume > v - 10)
VolumeFollows ==
  device # None =>
    /\ Follows(volume, volume2, globalVolume)
    /\ Follows(volume2, globalVolume, volume)
    /\ Follows(globalVolume, volume, volume2)
=============================================================================
