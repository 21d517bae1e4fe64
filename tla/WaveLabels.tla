----------------------------- MODULE WaveLabels -----------------------------
(***************************************************************************)
(* The label events of a sound (core/sound/sdl2/WaveImpl.cpp): a label is  *)
(* queued when the unit that holds it goes to the mixer, and fired by the  *)
(* main thread when the position of the sound, worked out from the last    *)
(* checked one and the clock, has reached it.                              *)
(*                                                                         *)
(* One sample lasts one tick.  The operations below hold BufferCS from     *)
(* start to end, so each is one action; the decode thread always keeps up, *)
(* and the primary buffer plays.  A label is its sample position.          *)
(***************************************************************************)
EXTENDS Integers, Sequences, FiniteSets, Functions

CONSTANTS
  UnitSamples,  \* AccessUnitSamples
  Units,        \* units of the sound, all of them whole
  Labels,       \* positions of the labels
  L1Units,      \* L1BufferUnits
  QueueLimit,   \* TVPAL_BUFFER_COUNT
  Pauses,       \* whether the script pauses the sound
  MaxPlays,     \* bound: calls of Play
  MaxTick       \* bound on the clock

VARIABLES
  now,                  \* TVPGetTickCount
  playing, dsPlaying, paused,
  sent,                 \* _sendedSamples of the mixer's stream
  cached,               \* _inCachedSamples: queued and not sent
  decodePos,            \* DecodePos
  l1, l1Write,          \* L1BufferDecodeSamplePos, SoundBufferWritePos
  labelQueue,           \* LabelEventQueue: it is sorted, so a set will do
  lastPos, lastTick,    \* LastCheckedDecodePos, LastCheckedTick
  pending, called,      \* PendingLabelEventExists, WndProcToBeCalled
  filledAt,             \* LastFilledTick of the playing thread: it fills once in 60 ms, a tick here
  posted,               \* events of the playing thread in the native queue
  fired,                \* the labels fired since the start, in order
  plays                 \* calls of Play so far

streamVars == <<playing, dsPlaying, sent, cached, decodePos, l1, l1Write>>
checkVars  == <<lastPos, lastTick>>
wakeVars   == <<pending, called, posted>>
nowVars    == <<now, filledAt>>
firedVars  == <<labelQueue, fired>>
vars == <<nowVars, paused, plays, streamVars, checkVars, wakeVars, firedVars>>

Block == 0 .. L1Units - 1

TypeOK ==
  /\ now \in 0 .. MaxTick /\ sent \in Nat /\ cached \in Nat /\ decodePos \in Nat
  /\ {playing, dsPlaying, paused, pending, called} \subseteq BOOLEAN
  /\ l1 \in [Block -> Nat \cup {-1}] /\ l1Write \in Block
  /\ labelQueue \subseteq Labels
  /\ lastPos \in Nat \cup {-1} /\ lastTick \in 0 .. MaxTick
  /\ posted \in {0, 1} /\ filledAt \in -1 .. MaxTick
  /\ fired \in Seq(Labels) /\ plays \in 0 .. MaxPlays

Init ==
  /\ now = 0 /\ filledAt = -1 /\ playing = FALSE /\ dsPlaying = FALSE /\ paused = FALSE
  /\ sent = 0 /\ cached = 0 /\ decodePos = 0
  /\ l1 = [b \in Block |-> -1] /\ l1Write = 0
  /\ labelQueue = {} /\ lastPos = -1 /\ lastTick = 0
  /\ pending = FALSE /\ called = FALSE /\ posted = 0
  /\ fired = <<>> /\ plays = 0

\* Fault: the first label of the next unit is taken too.
LabelsTo(p) == {x \in Labels : p <= x /\ x <= p + UnitSamples}

\* Fault: the offsets are left as they are in the unit.
LabelsInUnit(p) == {x - p : x \in {y \in Labels : p <= y /\ y < p + UnitSamples}}

\* The labels of the unit that is decoded from position p on.
LabelsOf(p) == {x \in Labels : p <= x /\ x < p + UnitSamples}

\* GetCurrentPlaySamples: what was sent, less what still waits.
PlaySamples == IF cached > sent THEN 0 ELSE sent - cached

\* ResetLastCheckedDecodePos: the block it takes the position from.
CheckedBlock ==
  IF cached = 0 THEN l1Write ELSE (PlaySamples \div UnitSamples) % L1Units

CheckedPos == l1[CheckedBlock] + (IF cached = 0 THEN 0 ELSE PlaySamples % UnitSamples)

ResetLastChecked ==
  IF l1[CheckedBlock] # -1 THEN lastPos' = CheckedPos /\ lastTick' = now ELSE UNCHANGED checkVars

AllDecoded == decodePos >= UnitSamples * Units

\* The units in the queue of the mixer, begun ones included.
QueuedUnits == (cached + UnitSamples - 1) \div UnitSamples

\* StartPlay: the positions are reset and the first unit is queued.
StartPlay ==
  /\ ~playing /\ plays < MaxPlays /\ plays' = plays + 1
  /\ playing' = TRUE /\ dsPlaying' = ~paused
  /\ sent' = 0 /\ cached' = UnitSamples /\ decodePos' = UnitSamples
  /\ l1' = [b \in Block |-> IF b = 0 THEN 0 ELSE -1] /\ l1Write' = 1
  /\ labelQueue' = LabelsOf(0)
  /\ fired' = <<>>
  /\ pending' = (pending \/ LabelsOf(0) # {})
  /\ UNCHANGED <<nowVars, paused, checkVars, called, posted>>

StopPlay ==
  /\ playing
  /\ playing' = FALSE /\ dsPlaying' = FALSE /\ sent' = 0 /\ cached' = 0
  /\ UNCHANGED <<nowVars, paused, plays, decodePos, l1, l1Write, checkVars, wakeVars, firedVars>>

SetPaused ==
  /\ Pauses /\ paused' = ~paused
  /\ UNCHANGED <<nowVars, plays, streamVars, checkVars, wakeVars, firedVars>>

\* FillBuffer, of a paused sound.
FillPauses ==
  /\ playing /\ paused /\ dsPlaying' = FALSE
  /\ UNCHANGED <<now, paused, plays, playing, sent, cached, decodePos, l1, l1Write, checkVars,
                 wakeVars, firedVars>>

\* Fault: what is left in the queue is dropped.
Dropped == <<>>

\* Labels as they lie in a sorted queue.
InOrder(S) ==
  CHOOSE q \in [1 .. Cardinality(S) -> S] :
    Range(q) = S /\ \A i, j \in DOMAIN q : i < j => q[i] < q[j]

\* FlushAllLabelEvents.
Flushed == InOrder(labelQueue)

\* FillBuffer, at the end of the sound.
FillEnds ==
  /\ playing /\ ~paused /\ AllDecoded /\ cached = 0
  /\ ResetLastChecked
  /\ fired' = fired \o Flushed /\ labelQueue' = {}
  /\ playing' = FALSE /\ dsPlaying' = FALSE
  /\ decodePos' = 0 /\ l1' = [b \in Block |-> -1]
  /\ UNCHANGED <<now, paused, plays, sent, cached, l1Write, wakeVars>>

FillFull ==
  /\ playing /\ ~paused /\ cached # 0 /\ QueuedUnits >= QueueLimit
  /\ ResetLastChecked
  /\ dsPlaying' = TRUE
  /\ UNCHANGED <<now, paused, plays, playing, sent, cached, decodePos, l1, l1Write, wakeVars,
                 firedVars>>

Queued(new) == labelQueue \cup new

\* Fault: nobody is told of the new labels.
NotRescheduled(new) == pending

\* TVPReschedulePendingLabelEvent.
Rescheduled(new) == pending \/ new # {}

\* FillBuffer, with a unit for the mixer, or, past the end, an empty one.
FillUnit ==
  /\ playing /\ ~paused /\ QueuedUnits < QueueLimit /\ ~(AllDecoded /\ cached = 0)
  /\ ResetLastChecked
  /\ dsPlaying' = TRUE
  /\ cached' = IF AllDecoded THEN cached ELSE cached + UnitSamples
  /\ labelQueue' = Queued(LabelsOf(decodePos))
  /\ pending' = Rescheduled(LabelsOf(decodePos))
  /\ l1' = [l1 EXCEPT ![l1Write] = decodePos]
  /\ l1Write' = (l1Write + 1) % L1Units
  /\ decodePos' = decodePos + UnitSamples
  /\ UNCHANGED <<now, paused, plays, playing, sent, called, posted, fired>>

\* The clock and the audio device.
Tick ==
  /\ now < MaxTick /\ now' = now + 1
  /\ IF dsPlaying /\ cached > 0
     THEN sent' = sent + 1 /\ cached' = cached - 1
     ELSE UNCHANGED <<sent, cached>>
  /\ UNCHANGED <<filledAt, paused, plays, playing, dsPlaying, decodePos, l1, l1Write, checkVars, wakeVars,
                 firedVars>>

\* The playing thread's Execute asks the main thread, once, to fire labels.
PostLabelEvent ==
  /\ pending /\ ~called
  /\ called' = TRUE /\ posted' = posted + 1
  /\ UNCHANGED <<nowVars, paused, plays, streamVars, checkVars, pending, firedVars>>

\* Where FireLabelEventsAndGetNearestLabelEventStep takes the sound to be.
ReachedPos == now - lastTick' + lastPos'

\* UtilWndProc, of a sound that plays: labels reached are fired.
FireLabels ==
  /\ posted > 0 /\ posted' = posted - 1
  /\ called' = FALSE
  /\ playing /\ dsPlaying /\ labelQueue # {}
  /\ IF lastPos = -1 THEN ResetLastChecked ELSE UNCHANGED checkVars
  /\ LET due == {x \in labelQueue : x <= ReachedPos}
     IN /\ labelQueue' = labelQueue \ due
        /\ fired' = fired \o InOrder(due)
        /\ pending' = (labelQueue # due)
  /\ UNCHANGED <<nowVars, paused, plays, streamVars>>

\* UtilWndProc, with nothing to fire.
FireNothing ==
  /\ posted > 0 /\ posted' = posted - 1
  /\ called' = FALSE
  /\ ~playing \/ ~dsPlaying \/ labelQueue = {}
  /\ pending' = FALSE
  /\ UNCHANGED <<nowVars, paused, plays, streamVars, checkVars, firedVars>>

\* FillBuffer, called by the playing thread when due.
Fill ==
  /\ now > filledAt /\ filledAt' = now
  /\ FillPauses \/ FillEnds \/ FillFull \/ FillUnit

Next == StartPlay \/ StopPlay \/ SetPaused \/ Fill \/ Tick \/ PostLabelEvent
          \/ FireLabels \/ FireNothing

Spec == Init /\ [][Next]_vars
=============================================================================
