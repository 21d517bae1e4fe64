---------------------------- MODULE SoundStream ----------------------------
(***************************************************************************)
(* What the buffering of a looped sound promises: the units between the    *)
(* decoder and the loudspeaker form two queues in a row, nothing is lost,  *)
(* repeated or overtaken on the way, and only a start, a stop or a seek    *)
(* drops what is under way.                                                *)
(***************************************************************************)
EXTENDS Naturals, Sequences

CONSTANTS
  Units,       \* length of the sound
  DecodedMax,  \* decoded units kept
  QueuedMax    \* units handed to the audio device

VARIABLES
  at,       \* the unit decoded next
  decoded,  \* decoded, not handed over
  queued    \* handed over, not heard

vars == <<at, decoded, queued>>

Init == at = 0 /\ decoded = <<>> /\ queued = <<>>

Following(u) == (u + 1) % Units

Decode ==
  /\ Len(decoded) < DecodedMax
  /\ decoded' = Append(decoded, at)
  /\ at' = Following(at)
  /\ UNCHANGED queued

HandOver ==
  /\ decoded # <<>> /\ Len(queued) < QueuedMax
  /\ queued' = Append(queued, Head(decoded))
  /\ decoded' = Tail(decoded)
  /\ UNCHANGED at

Hear ==
  /\ queued # <<>>
  /\ queued' = Tail(queued)
  /\ UNCHANGED <<at, decoded>>

\* The first unit of a new start is handed over at once, or waits.
Start ==
  /\ \/ queued' = <<at>> /\ decoded' = <<>>
     \/ queued' = <<>> /\ decoded' = <<at>>
  /\ at' = Following(at)

\* A stop, a rewind or a seek; what is decoded already stays.
Halt ==
  /\ queued' = <<>>
  /\ at' \in 0 .. Units - 1
  /\ UNCHANGED decoded

Seek ==
  /\ at' \in 0 .. Units - 1
  /\ UNCHANGED <<decoded, queued>>

Next == Decode \/ HandOver \/ Hear \/ Start \/ Halt \/ Seek

Spec == Init /\ [][Next]_vars
=============================================================================
