----------------------------- MODULE WaveProofs -----------------------------
(***************************************************************************)
(* Proofs that the threads of WaveSound keep the ring, the queue of the    *)
(* mixer and the flags consistent, for rings, queues, sounds and scripts   *)
(* of every size.                                                          *)
(***************************************************************************)
EXTENDS WaveProperties, SequenceTheorems, TLAPS

-----------------------------------------------------------------------------
(***************************************************************************)
(* Positions in the ring are remainders.                                   *)
(***************************************************************************)
\* A number is its quotient and its remainder.
LEMMA DivMod ==
  ASSUME NEW n \in Nat \ {0}, NEW a \in Int
  PROVE  a % n \in 0 .. n - 1 /\ a = n * (a \div n) + (a % n) /\ a \div n \in Int
BY SMT

\* A number below n is the remainder of every number it differs from by
\* multiples of n.
LEMMA ModUnique ==
  ASSUME NEW n \in Nat \ {0}, NEW q \in Int, NEW r \in 0 .. n - 1
  PROVE  (n * q + r) % n = r
BY SMT

\* The step of a position is the step of what it is the remainder of.
LEMMA ModSucc ==
  ASSUME NEW n \in Nat \ {0, 1}, NEW a \in Int
  PROVE  (a + 1) % n = IF (a % n) + 1 >= n THEN 0 ELSE (a % n) + 1
<1> DEFINE q == a \div n  x == a % n
<1>1. a = n * q + x /\ q \in Int /\ x \in 0 .. n - 1
  BY DivMod
<1> HIDE DEF q, x
<1>2. CASE x + 1 >= n
  <2>1. a + 1 = n * (q + 1) + 0
    BY <1>1, <1>2
  <2>2. (n * (q + 1) + 0) % n = 0
    BY <1>1, ModUnique
  <2> QED
    BY <1>2, <2>1, <2>2 DEF x
<1>3. CASE x + 1 < n
  <2>1. a + 1 = n * q + (x + 1) /\ x + 1 \in 0 .. n - 1
    BY <1>1, <1>3
  <2>2. (n * q + (x + 1)) % n = x + 1
    BY <1>1, <2>1, ModUnique
  <2> QED
    BY <1>1, <1>3, <2>1, <2>2 DEF x
<1> QED
  BY <1>1, <1>2, <1>3

\* Less than a round away is another place.
LEMMA ModApart ==
  ASSUME NEW n \in Nat \ {0, 1}, NEW r \in 0 .. n - 1, NEW m \in 1 .. n - 1
  PROVE  (r + m) % n # r
<1>1. CASE r + m < n
  <2>1. (n * 0 + (r + m)) % n = r + m
    BY <1>1, ModUnique
  <2> QED
    BY <2>1
<1>2. CASE r + m >= n
  <2>1. (n * 1 + (r + m - n)) % n = r + m - n
    BY <1>2, ModUnique
  <2> QED
    BY <2>1
<1> QED
  BY <1>1, <1>2

-----------------------------------------------------------------------------
(***************************************************************************)
(* What the threads rely on.                                               *)
(***************************************************************************)
\* A sound that plays has its decoder and buffer, and none plays while a
\* method is under way that stopped it; a thread in the middle of a unit
\* still has what it tested before: the playing thread a sound that plays,
\* a place in the queue and, without the lock, more than one unit; the
\* decode thread a place in the ring.
Threads ==
  /\ bufferPlaying => decoder /\ soundBuffer
  /\ main \in {"stop", "status", "clear", "unload", "load", "restart"} => ~bufferPlaying
  /\ main = "restart" => decoder
  /\ player \in Holding => bufferPlaying /\ Len(queue) < QueueLimit
  /\ player = "readReady" => remain > 1
  /\ decodeThread = "writing" => remain < L2Units

\* The inductive invariant.
Inv == TypeOK /\ RingConsistent /\ QueueBounded /\ StoppedIsSilent /\ Threads

USE WaveAssumption

\* The next place is a place.
LEMMA AfterCell == \A c \in Cell : After(c) \in Cell
BY DEF Cell, After

\* Decoding goes on to a unit of the sound or to its end.
LEMMA AdvancedUnit == \A p \in Unit : Advanced(p) \in Unit
BY DEF Unit, Advanced

LEMMA InitInv == Init => Inv
<1> SUFFICES ASSUME Init PROVE Inv
  OBVIOUS
<1>1. TypeOK
  <2>1. ring \in [Cell -> Unit] /\ pos \in Unit /\ readPos \in Cell /\ writePos \in Cell
    BY DEF Init, Cell, Unit, Silence
  <2>2. remain \in -MaxStale .. L2Units /\ ops \in 0 .. MaxOps
    BY DEF Init
  <2>3. queue \in Seq(0 .. StreamUnits - 1)
    BY DEF Init
  <2>4. /\ decoder \in BOOLEAN /\ soundBuffer \in BOOLEAN /\ bufferPlaying \in BOOLEAN
        /\ dsPlaying \in BOOLEAN /\ paused \in BOOLEAN /\ callback \in BOOLEAN
        /\ running \in BOOLEAN /\ ended \in BOOLEAN /\ mixPlaying \in BOOLEAN
        /\ primary \in BOOLEAN /\ byProgram \in BOOLEAN
    BY DEF Init
  <2>5. /\ player \in {"none", "idle", "check"} \cup Holding
        /\ decodeThread \in {"idle", "entering", "writing"}
        /\ main \in {"idle", "stop", "status", "handler", "clear", "unload", "load", "restart"}
        /\ status \in {"unload", "stop", "play"}
    BY DEF Init
  <2> QED
    BY <2>1, <2>2, <2>3, <2>4, <2>5 DEF TypeOK
<1>2. RingConsistent
  <2>1. (L2Units * 0 + 0) % L2Units = 0
    BY ModUnique
  <2> QED
    BY <2>1 DEF Init, RingConsistent
<1>3. QueueBounded /\ StoppedIsSilent /\ Threads
  BY DEF Init, QueueBounded, StoppedIsSilent, Threads, Holding
<1> QED
  BY <1>1, <1>2, <1>3 DEF Inv

-----------------------------------------------------------------------------
(***************************************************************************)
(* Filling and reading the ring.                                           *)
(***************************************************************************)
\* A unit is decoded into a ring that has a place for it.
LEMMA FillUnitStep ==
  ASSUME TypeOK, RingConsistent, FillL2Unit, remain < L2Units
  PROVE  /\ ring' \in [Cell -> Unit] /\ ended' \in BOOLEAN /\ pos' \in Unit
         /\ readPos' \in Cell /\ writePos' \in Cell /\ remain' \in -MaxStale .. L2Units
         /\ remain' = remain + 1
         /\ RingConsistent'
<1>1. remain \in Int /\ readPos \in Int
  BY DEF TypeOK, Cell
<1>2. ring' \in [Cell -> Unit] /\ ended' \in BOOLEAN
  BY DEF TypeOK, FillL2Unit, Unit, Silence, LastUnit
<1>3. pos' \in Unit
  BY AdvancedUnit DEF TypeOK, FillL2Unit
<1>4. readPos' \in Cell /\ writePos' \in Cell
  BY AfterCell DEF TypeOK, FillL2Unit
<1>5. remain' \in -MaxStale .. L2Units /\ remain' = remain + 1
  BY DEF TypeOK, FillL2Unit
<1>6. RingConsistent'
  <2> DEFINE a == readPos + remain
  <2>1. (a + 1) % L2Units = After(a % L2Units)
    <3>1. a \in Int
      BY <1>1
    <3> HIDE DEF a
    <3> QED
      BY <3>1, ModSucc DEF After
  <2>2. (readPos + remain) + 1 = readPos' + remain'
    BY <1>1 DEF FillL2Unit
  <2> QED
    BY <2>1, <2>2 DEF RingConsistent, FillL2Unit
<1> QED
  BY <1>2, <1>3, <1>4, <1>5, <1>6

\* A unit is read, also past what the ring has.
LEMMA ReadUnitStep ==
  ASSUME TypeOK, RingConsistent, ReadL2Buffer, remain > -MaxStale
  PROVE  /\ queue' \in Seq(0 .. StreamUnits - 1) /\ Len(queue') <= Len(queue) + 1
         /\ readPos' \in Cell /\ remain' \in -MaxStale .. L2Units
         /\ RingConsistent'
<1>1. remain \in Int /\ readPos \in 0 .. L2Units - 1
  BY DEF TypeOK, Cell
<1>2. ring[readPos] # Silence => ring[readPos] \in 0 .. StreamUnits - 1
  BY DEF TypeOK, Silence, Unit
<1>3. queue' \in Seq(0 .. StreamUnits - 1) /\ Len(queue') <= Len(queue) + 1
  <2>1. queue \in Seq(0 .. StreamUnits - 1)
    BY DEF TypeOK
  <2>2. CASE ring[readPos] = Silence
    BY <2>1, <2>2 DEF ReadL2Buffer
  <2>3. CASE ring[readPos] # Silence
    <3>1. queue' = Append(queue, ring[readPos])
      BY <2>3 DEF ReadL2Buffer
    <3> QED
      BY <1>2, <2>1, <2>3, <3>1
  <2> QED
    BY <2>2, <2>3
<1>4. readPos' \in Cell
  BY AfterCell DEF TypeOK, ReadL2Buffer
<1>5. remain' \in -MaxStale .. L2Units
  BY DEF TypeOK, ReadL2Buffer
<1>6. RingConsistent'
  <2>1. CASE readPos + 1 < L2Units
    <3>1. readPos' + remain' = readPos + remain
      BY <1>1, <2>1 DEF ReadL2Buffer, After
    <3> QED
      BY <3>1 DEF RingConsistent, ReadL2Buffer
  <2>2. CASE readPos + 1 >= L2Units
    <3> DEFINE q == (readPos' + remain') \div L2Units  w == (readPos' + remain') % L2Units
    <3>1. readPos' + remain' \in Int /\ readPos + remain = (readPos' + remain') + L2Units
      BY <1>1, <2>2 DEF ReadL2Buffer, After
    <3>2. readPos' + remain' = L2Units * q + w /\ q \in Int /\ w \in 0 .. L2Units - 1
      BY <3>1, DivMod
    <3> HIDE DEF q, w
    <3>3. readPos + remain = L2Units * (q + 1) + w
      BY <3>1, <3>2
    <3>4. (L2Units * (q + 1) + w) % L2Units = w
      BY <3>2, ModUnique
    <3>5. (readPos + remain) % L2Units = (readPos' + remain') % L2Units
      BY <3>3, <3>4 DEF w
    <3> QED
      BY <3>5 DEF RingConsistent, ReadL2Buffer
  <2> QED
    BY <1>1, <2>1, <2>2
<1> QED
  BY <1>3, <1>4, <1>5, <1>6
-----------------------------------------------------------------------------
(***************************************************************************)
(* Every step.                                                             *)
(***************************************************************************)
\* A method that starts a sound.
LEMMA StartPlayStep ==
  ASSUME TypeOK, StartPlay
  PROVE  /\ ring' \in [Cell -> Unit] /\ ended' \in BOOLEAN /\ pos' \in Unit
         /\ readPos' \in Cell /\ writePos' \in Cell /\ remain' \in 0 .. 1
         /\ queue' \in Seq(0 .. StreamUnits - 1) /\ Len(queue') <= 1
         /\ RingConsistent'
<1>1. ring' \in [Cell -> Unit] /\ ended' \in BOOLEAN /\ pos' \in Unit
  BY AdvancedUnit DEF TypeOK, StartPlay, Unit, Silence, LastUnit
<1>2. After(0) = 1 /\ 1 \in Cell /\ 0 \in Cell
  BY DEF After, Cell
<1>3. queue' \in Seq(0 .. StreamUnits - 1) /\ Len(queue') <= 1
  <2>1. CASE primary /\ pos # Silence
    <3>1. pos \in 0 .. StreamUnits - 1
      BY <2>1 DEF TypeOK, Unit, Silence
    <3> QED
      BY <2>1, <3>1 DEF StartPlay
  <2>2. CASE ~(primary /\ pos # Silence)
    <3>1. queue' = <<>>
      BY <2>2 DEF StartPlay
    <3> QED
      BY <3>1
  <2> QED
    BY <2>1, <2>2
<1>4. readPos' \in Cell /\ writePos' \in Cell /\ remain' \in 0 .. 1 /\ readPos' + remain' = 1
  BY <1>2 DEF StartPlay
<1>5. RingConsistent'
  <2>1. (L2Units * 0 + 1) % L2Units = 1
    BY ModUnique
  <2> QED
    BY <1>2, <1>4, <2>1 DEF RingConsistent, StartPlay
<1> QED
  BY <1>1, <1>3, <1>4, <1>5

\* Steps that leave the ring alone, all but decoding, reading and starting.
RingAlone ==
  UNCHANGED <<ring, readPos, writePos, remain, ended>> /\ pos' \in {pos, 0} \cup SeekTargets
QuietStep ==
  \/ DecodeCheck \/ DecodeBegin
  \/ PlayerRound \/ FillSkips \/ FillPauses \/ FillEnds \/ FillGoesOn \/ Prepare \/ Hear
  \/ Stop \/ Open \/ FreeDirectSound \/ (\E b \in BOOLEAN : SetPaused(b))
  \/ (\E p \in SeekTargets : Seek(p) \/ SeekSilent(p))
  \/ StopThread \/ StopStatus \/ Rewind \/ Unload \/ Load \/ TimerBeat
  \/ UNCHANGED vars

LEMMA QuietLeavesRing == QuietStep => RingAlone
<1>1. DecodeCheck \/ DecodeBegin => RingAlone
  BY DEF DecodeCheck, DecodeBegin, RingAlone, ringVars
<1>2. PlayerRound \/ FillSkips \/ FillPauses \/ FillGoesOn \/ Prepare \/ Hear => RingAlone
  BY DEF PlayerRound, FillSkips, FillPauses, FillGoesOn, Prepare, Hear, RingAlone, ringVars
<1>3. FillEnds => RingAlone
  BY DEF FillEnds, RingAlone
<1>4. Stop \/ Open \/ FreeDirectSound \/ (\E b \in BOOLEAN : SetPaused(b)) => RingAlone
  BY DEF Stop, Open, FreeDirectSound, SetPaused, RingAlone, ringVars
<1>5. (\E p \in SeekTargets : Seek(p) \/ SeekSilent(p)) => RingAlone
  BY DEF Seek, SeekSilent, RingAlone
<1>6. StopThread \/ StopStatus \/ Rewind \/ Unload \/ Load \/ TimerBeat => RingAlone
  BY DEF StopThread, StopStatus, Rewind, Unload, Load, TimerBeat, RingAlone, ringVars
<1>7. UNCHANGED vars => RingAlone
  BY DEF vars, RingAlone, ringVars
<1> QED
  BY <1>1, <1>2, <1>3, <1>4, <1>5, <1>6, <1>7 DEF QuietStep

LEMMA NextCases ==
  [Next]_vars <=> \/ QuietStep \/ DecodeEnd \/ PlayerFillsL2 \/ PlayerReads \/ Play \/ SeekStarts
BY DEF Next, DecodeStep, PlayerStep, CallStep, MainStep, QuietStep

\* The types of the ring and its positions, and how far they are apart.
RingTypes ==
  /\ ring \in [Cell -> Unit] /\ readPos \in Cell /\ writePos \in Cell
  /\ remain \in -MaxStale .. L2Units /\ ended \in BOOLEAN /\ pos \in Unit

LEMMA RingStep == Inv /\ [Next]_vars => RingTypes' /\ RingConsistent'
<1> SUFFICES ASSUME Inv, [Next]_vars PROVE RingTypes' /\ RingConsistent'
  OBVIOUS
<1>1. TypeOK /\ RingConsistent
  BY DEF Inv
<1>2. CASE QuietStep
  <2>1. RingAlone
    BY <1>2, QuietLeavesRing
  <2>2. pos' \in Unit
    BY <1>1, <2>1 DEF RingAlone, TypeOK, Unit
  <2> QED
    BY <1>1, <2>1, <2>2 DEF RingAlone, RingTypes, RingConsistent, TypeOK
<1>3. CASE DecodeEnd
  <2>1. FillL2Unit /\ remain < L2Units
    BY <1>3 DEF DecodeEnd, Inv, Threads
  <2> QED
    BY <1>1, <2>1, FillUnitStep DEF RingTypes
<1>4. CASE PlayerFillsL2
  <2>1. CASE FullRing
    <3>1. UNCHANGED ringVars
      BY <1>4, <2>1 DEF PlayerFillsL2
    <3> QED
      BY <1>1, <3>1 DEF ringVars, RingTypes, RingConsistent, TypeOK
  <2>2. CASE ~FullRing
    <3>1. FillL2Unit
      BY <1>4, <2>2 DEF PlayerFillsL2
    <3>2. remain < L2Units
      BY <1>1, <2>2 DEF FullRing, TypeOK
    <3> QED
      BY <1>1, <3>1, <3>2, FillUnitStep DEF RingTypes
  <2> QED
    BY <2>1, <2>2
<1>5. CASE PlayerReads
  <2>1. ReadL2Buffer /\ remain > -MaxStale
    BY <1>5 DEF PlayerReads
  <2>2. ring' = ring /\ writePos' = writePos /\ ended' = ended /\ pos' = pos
    BY <2>1 DEF ReadL2Buffer
  <2> QED
    BY <1>1, <2>1, <2>2, ReadUnitStep DEF RingTypes, TypeOK
<1>6. CASE Play \/ SeekStarts
  <2>1. StartPlay
    BY <1>6 DEF Play, SeekStarts
  <2>2. 0 .. 1 \subseteq -MaxStale .. L2Units
    OBVIOUS
  <2> QED
    BY <1>1, <2>1, <2>2, StartPlayStep DEF RingTypes
<1> QED
  BY <1>2, <1>3, <1>4, <1>5, <1>6, NextCases

-----------------------------------------------------------------------------
(***************************************************************************)
(* Flags and program counters.                                             *)
(***************************************************************************)
Flags ==
  /\ decoder \in BOOLEAN /\ soundBuffer \in BOOLEAN
  /\ bufferPlaying \in BOOLEAN /\ dsPlaying \in BOOLEAN
  /\ paused \in BOOLEAN /\ callback \in BOOLEAN /\ running \in BOOLEAN
  /\ mixPlaying \in BOOLEAN /\ primary \in BOOLEAN /\ byProgram \in BOOLEAN
Counters ==
  /\ status \in {"unload", "stop", "play"}
  /\ player \in {"none", "idle", "check"} \cup Holding
  /\ decodeThread \in {"idle", "entering", "writing"}
  /\ main \in {"idle", "stop", "status", "handler", "clear", "unload", "load", "restart"}
  /\ ops \in 0 .. MaxOps

LEMMA TypeParts ==
  TypeOK <=> RingTypes /\ Flags /\ Counters /\ queue \in Seq(0 .. StreamUnits - 1)
BY DEF TypeOK, RingTypes, Flags, Counters

LEMMA FlagStep == Flags /\ [Next]_vars => Flags'
<1> SUFFICES ASSUME Flags, [Next]_vars PROVE Flags'
  OBVIOUS
<1>1. CASE DecodeStep
  BY <1>1 DEF Flags, DecodeStep, DecodeCheck, DecodeBegin, DecodeEnd, mixVars, playVars,
     flagVars, mainVars, globals
<1>2. CASE PlayerRound
  BY <1>2 DEF Flags, PlayerRound, playVars, flagVars, mainVars
<1>3. CASE FillSkips
  BY <1>3 DEF Flags, FillSkips, mixVars, playVars, flagVars, mainVars, globals
<1>4. CASE FillPauses
  BY <1>4 DEF Flags, FillPauses, flagVars, mainVars, globals
<1>5. CASE FillEnds
  BY <1>5 DEF Flags, FillEnds, flagVars, mainVars, globals
<1>6. CASE FillGoesOn
  BY <1>6 DEF Flags, FillGoesOn, flagVars, mainVars, globals
<1>7. CASE Prepare \/ PlayerFillsL2 \/ PlayerReads \/ Hear
  BY <1>7 DEF Flags, Prepare, PlayerFillsL2, PlayerReads, Hear, mixVars, playVars, flagVars,
     mainVars, globals
<1>8. CASE Play
  BY <1>8 DEF Flags, Play, StartPlay
<1>9. CASE SeekStarts
  BY <1>9 DEF Flags, SeekStarts, StartPlay
<1>10. CASE Stop \/ Open
  BY <1>10 DEF Flags, Stop, Open, Call, StopPlay, mixVars, playVars, flagVars, globals
<1>11. CASE FreeDirectSound
  BY <1>11 DEF Flags, FreeDirectSound, Call, globals
<1>12. CASE \E b \in BOOLEAN : SetPaused(b)
  BY <1>12 DEF Flags, SetPaused, Call, mixVars, playVars, globals
<1>13. CASE \E p \in SeekTargets : Seek(p)
  BY <1>13 DEF Flags, Seek, Call, StopPlay, mixVars, playVars, flagVars, globals
<1>14. CASE \E p \in SeekTargets : SeekSilent(p)
  BY <1>14 DEF Flags, SeekSilent, Call, mixVars, playVars, flagVars, globals
<1>15. CASE StopThread
  BY <1>15 DEF Flags, StopThread, Interrupt, mixVars, playVars, mainVars, globals
<1>16. CASE TimerBeat
  BY <1>16 DEF Flags, TimerBeat, Interrupt, mixVars, playVars, mainVars, globals
<1>17. CASE StopStatus \/ Rewind
  BY <1>17 DEF Flags, StopStatus, Rewind, mixVars, playVars, flagVars, globals
<1>18. CASE Unload \/ Load
  BY <1>18 DEF Flags, Unload, Load, mixVars, playVars, globals
<1>19. CASE UNCHANGED vars
  BY <1>19 DEF Flags, vars, mixVars, playVars, flagVars, mainVars, globals
<1> QED
  BY <1>1, <1>2, <1>3, <1>4, <1>5, <1>6, <1>7, <1>8, <1>9, <1>10, <1>11, <1>12,
     <1>13, <1>14, <1>15, <1>16, <1>17, <1>18, <1>19
  DEF Next, PlayerStep, CallStep, MainStep

LEMMA CounterStep == Counters /\ [Next]_vars => Counters'
<1> SUFFICES ASSUME Counters, [Next]_vars PROVE Counters'
  OBVIOUS
<1>1. CASE DecodeStep
  BY <1>1 DEF Counters, Holding, DecodeStep, DecodeCheck, DecodeBegin, DecodeEnd, mixVars,
     playVars, flagVars, mainVars, globals
<1>2. CASE PlayerRound
  BY <1>2 DEF Counters, Holding, PlayerRound, playVars, flagVars, mainVars
<1>3. CASE FillSkips
  BY <1>3 DEF Counters, Holding, FillSkips, mixVars, playVars, flagVars, mainVars, globals
<1>4. CASE FillPauses
  BY <1>4 DEF Counters, Holding, FillPauses, flagVars, mainVars, globals
<1>5. CASE FillEnds
  BY <1>5 DEF Counters, Holding, FillEnds, flagVars, mainVars, globals
<1>6. CASE FillGoesOn
  BY <1>6 DEF Counters, Holding, FillGoesOn, flagVars, mainVars, globals
<1>7. CASE Prepare \/ PlayerFillsL2 \/ PlayerReads \/ Hear
  BY <1>7 DEF Counters, Holding, Prepare, PlayerFillsL2, PlayerReads, Hear, mixVars, playVars,
     flagVars, mainVars, globals
<1>8. CASE Play
  BY <1>8 DEF Counters, Holding, Play, StartPlay
<1>9. CASE SeekStarts
  BY <1>9 DEF Counters, Holding, SeekStarts, StartPlay
<1>10. CASE Stop \/ Open
  BY <1>10 DEF Counters, Holding, Stop, Open, Call, StopPlay, mixVars, playVars, flagVars, globals
<1>11. CASE FreeDirectSound
  BY <1>11 DEF Counters, Holding, FreeDirectSound, Call, globals
<1>12. CASE \E b \in BOOLEAN : SetPaused(b)
  BY <1>12 DEF Counters, Holding, SetPaused, Call, mixVars, playVars, globals
<1>13. CASE \E p \in SeekTargets : Seek(p)
  BY <1>13 DEF Counters, Holding, Seek, Call, StopPlay, mixVars, playVars, flagVars, globals
<1>14. CASE \E p \in SeekTargets : SeekSilent(p)
  BY <1>14 DEF Counters, Holding, SeekSilent, Call, mixVars, playVars, flagVars, globals
<1>15. CASE StopThread
  BY <1>15 DEF Counters, Holding, StopThread, Interrupt, mixVars, playVars, mainVars, globals
<1>16. CASE TimerBeat
  BY <1>16 DEF Counters, Holding, TimerBeat, Interrupt, mixVars, playVars, mainVars, globals
<1>17. CASE StopStatus \/ Rewind
  BY <1>17 DEF Counters, Holding, StopStatus, Rewind, mixVars, playVars, flagVars, globals
<1>18. CASE Unload \/ Load
  BY <1>18 DEF Counters, Holding, Unload, Load, mixVars, playVars, globals
<1>19. CASE UNCHANGED vars
  BY <1>19 DEF Counters, Holding, vars, mixVars, playVars, flagVars, mainVars, globals
<1> QED
  BY <1>1, <1>2, <1>3, <1>4, <1>5, <1>6, <1>7, <1>8, <1>9, <1>10, <1>11, <1>12,
     <1>13, <1>14, <1>15, <1>16, <1>17, <1>18, <1>19
  DEF Next, PlayerStep, CallStep, MainStep

-----------------------------------------------------------------------------
(***************************************************************************)
(* The queue of the mixer.                                                 *)
(***************************************************************************)
\* Steps that leave the queue as it is or empty it.
QueueShrinks == queue' \in {queue, <<>>} \/ (queue # <<>> /\ queue' = Tail(queue))

LEMMA QueueSteps ==
  ASSUME [Next]_vars
  PROVE  QueueShrinks \/ PlayerReads \/ Play \/ SeekStarts
<1>1. CASE DecodeStep
  BY <1>1 DEF QueueShrinks, DecodeStep, DecodeCheck, DecodeBegin, DecodeEnd, mixVars
<1>2. CASE PlayerRound \/ FillSkips \/ FillPauses \/ FillEnds \/ FillGoesOn
  BY <1>2 DEF QueueShrinks, PlayerRound, FillSkips, FillPauses, FillEnds, FillGoesOn, mixVars
<1>3. CASE Prepare \/ PlayerFillsL2 \/ Hear
  BY <1>3 DEF QueueShrinks, Prepare, PlayerFillsL2, Hear, mixVars
<1>4. CASE Stop \/ Open \/ FreeDirectSound
  BY <1>4 DEF QueueShrinks, Stop, Open, FreeDirectSound, StopPlay, mixVars
<1>5. CASE \E b \in BOOLEAN : SetPaused(b)
  BY <1>5 DEF QueueShrinks, SetPaused, mixVars
<1>6. CASE \E p \in SeekTargets : Seek(p) \/ SeekSilent(p)
  BY <1>6 DEF QueueShrinks, Seek, SeekSilent, StopPlay, mixVars
<1>7. CASE StopThread \/ StopStatus \/ Rewind \/ Unload \/ Load \/ TimerBeat
  BY <1>7 DEF QueueShrinks, StopThread, StopStatus, Rewind, Unload, Load, TimerBeat, mixVars
<1>8. CASE UNCHANGED vars
  BY <1>8 DEF QueueShrinks, vars, mixVars
<1>9. CASE PlayerReads \/ Play \/ SeekStarts
  BY <1>9
<1> QED
  BY <1>1, <1>2, <1>3, <1>4, <1>5, <1>6, <1>7, <1>8, <1>9
  DEF Next, PlayerStep, CallStep, MainStep

\* What is left of a sequence is a sequence, and no longer.
LEMMA QueueRest ==
  ASSUME NEW S, NEW q \in Seq(S), NEW r, r \in {q, <<>>} \/ (q # <<>> /\ r = Tail(q))
  PROVE  r \in Seq(S) /\ Len(r) <= Len(q)
<1>1. CASE r = q
  BY <1>1
<1>2. CASE r = <<>>
  <2>1. <<>> \in Seq(S) /\ Len(<<>>) = 0 /\ Len(q) \in Nat
    OBVIOUS
  <2> QED
    BY <2>1, <1>2
<1>3. CASE q # <<>> /\ r = Tail(q)
  BY <1>3
<1> QED
  BY <1>1, <1>2, <1>3

LEMMA QueueStep ==
  Inv /\ [Next]_vars => queue' \in Seq(0 .. StreamUnits - 1) /\ QueueBounded'
<1> SUFFICES ASSUME Inv, [Next]_vars
             PROVE  queue' \in Seq(0 .. StreamUnits - 1) /\ QueueBounded'
  OBVIOUS
<1>1. TypeOK /\ RingConsistent /\ queue \in Seq(0 .. StreamUnits - 1) /\ Len(queue) <= QueueLimit
  BY DEF Inv, TypeOK, QueueBounded
<1>2. CASE QueueShrinks
  <2>1. queue' \in Seq(0 .. StreamUnits - 1) /\ Len(queue') <= Len(queue)
    BY <1>1, <1>2, QueueRest DEF QueueShrinks
  <2> QED
    BY <1>1, <2>1 DEF QueueBounded
<1>3. CASE PlayerReads
  <2>1. ReadL2Buffer /\ remain > -MaxStale /\ Len(queue) < QueueLimit
    BY <1>3 DEF PlayerReads, Inv, Threads, Holding
  <2>2. queue' \in Seq(0 .. StreamUnits - 1) /\ Len(queue') <= Len(queue) + 1
    BY <1>1, <2>1, ReadUnitStep
  <2> QED
    BY <1>1, <2>1, <2>2 DEF QueueBounded
<1>4. CASE Play \/ SeekStarts
  <2>1. StartPlay
    BY <1>4 DEF Play, SeekStarts
  <2>2. queue' \in Seq(0 .. StreamUnits - 1) /\ Len(queue') <= 1
    BY <1>1, <2>1, StartPlayStep
  <2> QED
    BY <2>2 DEF QueueBounded
<1> QED
  BY <1>2, <1>3, <1>4, QueueSteps

-----------------------------------------------------------------------------
(***************************************************************************)
(* What is stopped stays silent, and what a thread has tested holds until  *)
(* it acts on it.                                                          *)
(***************************************************************************)
LEMMA SilentStep == Inv /\ [Next]_vars => StoppedIsSilent'
<1> SUFFICES ASSUME Inv, [Next]_vars PROVE StoppedIsSilent'
  OBVIOUS
<1>0. StoppedIsSilent /\ Threads
  BY DEF Inv
<1>1. CASE DecodeCheck
  BY <1>0, <1>1 DEF StoppedIsSilent, Threads, Holding, DecodeCheck, ringVars, mixVars, playVars,
     flagVars, mainVars, globals
<1>2. CASE DecodeBegin
  BY <1>0, <1>2 DEF StoppedIsSilent, Threads, Holding, DecodeBegin, FullRing, ringVars, mixVars,
     playVars, flagVars, mainVars, globals
<1>3. CASE DecodeEnd
  BY <1>0, <1>3 DEF StoppedIsSilent, Threads, Holding, DecodeEnd, FillL2Unit, mixVars, playVars,
     flagVars, mainVars, globals
<1>4. CASE PlayerRound
  BY <1>0, <1>4 DEF StoppedIsSilent, Threads, Holding, PlayerRound, ringVars, playVars, flagVars,
     mainVars
<1>5. CASE FillSkips
  BY <1>0, <1>5 DEF StoppedIsSilent, Threads, Holding, FillSkips, ringVars, mixVars, playVars,
     flagVars, mainVars, globals
<1>6. CASE FillPauses
  BY <1>0, <1>6 DEF StoppedIsSilent, Threads, Holding, FillPauses, FillActive, NothingPlays,
     ringVars, flagVars, mainVars, globals
<1>7. CASE FillEnds
  BY <1>0, <1>7 DEF StoppedIsSilent, Threads, Holding, FillEnds, AtEnd, flagVars, mainVars, globals
<1>8. CASE FillGoesOn
  BY <1>0, <1>8 DEF StoppedIsSilent, Threads, Holding, FillGoesOn, FillActive, NothingPlays,
     QueueFull, ringVars, flagVars, mainVars, globals
<1>9. CASE Prepare
  BY <1>0, <1>9 DEF StoppedIsSilent, Threads, Holding, Prepare, ringVars, mixVars, playVars,
     flagVars, mainVars, globals
<1>10. CASE PlayerFillsL2
  BY <1>0, <1>10 DEF StoppedIsSilent, Threads, Holding, PlayerFillsL2, FillL2Unit, mixVars,
     playVars, flagVars, mainVars, globals
<1>11. CASE PlayerReads
  BY <1>0, <1>11 DEF StoppedIsSilent, Threads, Holding, PlayerReads, playVars, flagVars,
     mainVars, globals
<1>12. CASE Hear
  BY <1>0, <1>12 DEF StoppedIsSilent, Threads, Holding, Hear, ringVars, playVars, flagVars,
     mainVars, globals
<1>13. CASE Play
  BY <1>0, <1>13 DEF StoppedIsSilent, Threads, Holding, Play, StartPlay, BufferFree
<1>14. CASE SeekStarts
  BY <1>0, <1>14 DEF StoppedIsSilent, Threads, Holding, SeekStarts, StartPlay, BufferFree
<1>15. CASE Stop
  BY <1>0, <1>15 DEF StoppedIsSilent, Threads, Holding, Stop, Call, StopPlay, BufferFree,
     mixVars, playVars, ringVars, flagVars, globals
<1>16. CASE Open
  BY <1>0, <1>16 DEF StoppedIsSilent, Threads, Holding, Open, Call, StopPlay, BufferFree,
     mixVars, playVars, ringVars, flagVars, globals
<1>17. CASE FreeDirectSound
  BY <1>0, <1>17 DEF StoppedIsSilent, Threads, Holding, FreeDirectSound, Call, globals
<1>18. CASE \E b \in BOOLEAN : SetPaused(b)
  BY <1>0, <1>18 DEF StoppedIsSilent, Threads, Holding, SetPaused, Call, ringVars, mixVars,
     playVars, globals
<1>19. CASE \E p \in SeekTargets : Seek(p)
  BY <1>0, <1>19 DEF StoppedIsSilent, Threads, Holding, Seek, Call, StopPlay, BufferFree,
     mixVars, playVars, flagVars, globals
<1>20. CASE \E p \in SeekTargets : SeekSilent(p)
  BY <1>0, <1>20 DEF StoppedIsSilent, Threads, Holding, SeekSilent, Call, mixVars, playVars,
     flagVars, globals
<1>21. CASE StopThread
  BY <1>0, <1>21 DEF StoppedIsSilent, Threads, Holding, StopThread, Interrupt, ringVars, mixVars,
     playVars, globals
<1>22. CASE StopStatus
  BY <1>0, <1>22 DEF StoppedIsSilent, Threads, Holding, StopStatus, ringVars, mixVars, playVars,
     globals
<1>23. CASE Rewind
  BY <1>0, <1>23 DEF StoppedIsSilent, Threads, Holding, Rewind, mixVars, playVars, flagVars, globals
<1>24. CASE Unload
  BY <1>0, <1>24 DEF StoppedIsSilent, Threads, Holding, Unload, ringVars, mixVars, globals
<1>25. CASE Load
  BY <1>0, <1>25 DEF StoppedIsSilent, Threads, Holding, Load, mixVars, playVars, globals
<1>26. CASE TimerBeat
  BY <1>0, <1>26 DEF StoppedIsSilent, Threads, Holding, TimerBeat, Interrupt, ringVars, mixVars,
     playVars, mainVars, globals
<1>27. CASE UNCHANGED vars
  BY <1>0, <1>27 DEF StoppedIsSilent, Threads, Holding, vars, ringVars, mixVars, playVars,
     flagVars, mainVars, globals
<1> QED
  BY <1>1, <1>2, <1>3, <1>4, <1>5, <1>6, <1>7, <1>8, <1>9, <1>10,
     <1>11, <1>12, <1>13, <1>14, <1>15, <1>16, <1>17, <1>18, <1>19, <1>20,
     <1>21, <1>22, <1>23, <1>24, <1>25, <1>26, <1>27
  DEF Next, DecodeStep, PlayerStep, CallStep, MainStep

LEMMA ThreadsStep == Inv /\ [Next]_vars => Threads'
<1> SUFFICES ASSUME Inv, [Next]_vars PROVE Threads'
  OBVIOUS
<1>0. TypeOK /\ Threads
  BY DEF Inv
<1>1. CASE DecodeCheck
  BY <1>0, <1>1 DEF TypeOK, Threads, Holding, DecodeCheck, ringVars, mixVars, playVars, flagVars,
     mainVars, globals
<1>2. CASE DecodeBegin
  BY <1>0, <1>2 DEF TypeOK, Threads, Holding, DecodeBegin, FullRing, ringVars, mixVars, playVars,
     flagVars, mainVars, globals
<1>3. CASE DecodeEnd
  BY <1>0, <1>3 DEF TypeOK, Threads, Holding, DecodeEnd, FillL2Unit, mixVars, playVars, flagVars,
     mainVars, globals
<1>4. CASE PlayerRound
  BY <1>0, <1>4 DEF TypeOK, Threads, Holding, PlayerRound, ringVars, playVars, flagVars, mainVars
<1>5. CASE FillSkips
  BY <1>0, <1>5 DEF TypeOK, Threads, Holding, FillSkips, ringVars, mixVars, playVars, flagVars,
     mainVars, globals
<1>6. CASE FillPauses
  BY <1>0, <1>6 DEF TypeOK, Threads, Holding, FillPauses, FillActive, NothingPlays, ringVars,
     flagVars, mainVars, globals
<1>7. CASE FillEnds
  BY <1>0, <1>7 DEF TypeOK, Threads, Holding, FillEnds, AtEnd, flagVars, mainVars, globals
<1>8. CASE FillGoesOn
  BY <1>0, <1>8 DEF TypeOK, Threads, Holding, FillGoesOn, FillActive, NothingPlays, QueueFull,
     ringVars, flagVars, mainVars, globals
<1>9. CASE Prepare
  BY <1>0, <1>9 DEF TypeOK, Threads, Holding, Prepare, ringVars, mixVars, playVars, flagVars,
     mainVars, globals
<1>10. CASE PlayerFillsL2
  BY <1>0, <1>10 DEF TypeOK, Threads, Holding, PlayerFillsL2, FillL2Unit, mixVars, playVars,
     flagVars, mainVars, globals
<1>11. CASE PlayerReads
  <2>1. player' = "idle" /\ decodeThread' = decodeThread /\ main' = main
    BY <1>11 DEF PlayerReads, mainVars
  <2>2. UNCHANGED <<bufferPlaying, decoder, soundBuffer>>
    BY <1>11 DEF PlayerReads, playVars, flagVars, globals
  <2>3. remain' = remain - 1 /\ remain \in Int
    BY <1>0, <1>11 DEF PlayerReads, ReadL2Buffer, TypeOK
  <2>4. L2Units \in Nat
    BY WaveAssumption
  <2>5. decodeThread = "writing" => remain' < L2Units
    BY <1>0, <2>3, <2>4 DEF Threads
  <2> QED
    BY <1>0, <2>1, <2>2, <2>5 DEF Threads, Holding
<1>12. CASE Hear
  BY <1>0, <1>12 DEF TypeOK, Threads, Holding, Hear, ringVars, playVars, flagVars, mainVars, globals
<1>13. CASE Play
  BY <1>0, <1>13 DEF TypeOK, Threads, Holding, Play, StartPlay, BufferFree
<1>14. CASE SeekStarts
  BY <1>0, <1>14 DEF TypeOK, Threads, Holding, SeekStarts, StartPlay, BufferFree
<1>15. CASE Stop
  BY <1>0, <1>15 DEF TypeOK, Threads, Holding, Stop, Call, StopPlay, BufferFree, mixVars,
     playVars, ringVars, flagVars, globals
<1>16. CASE Open
  BY <1>0, <1>16 DEF TypeOK, Threads, Holding, Open, Call, StopPlay, BufferFree, mixVars,
     playVars, ringVars, flagVars, globals
<1>17. CASE FreeDirectSound
  BY <1>0, <1>17 DEF TypeOK, Threads, Holding, FreeDirectSound, Call, globals
<1>18. CASE \E b \in BOOLEAN : SetPaused(b)
  BY <1>0, <1>18 DEF TypeOK, Threads, Holding, SetPaused, Call, ringVars, mixVars, playVars, globals
<1>19. CASE \E p \in SeekTargets : Seek(p)
  BY <1>0, <1>19 DEF TypeOK, Threads, Holding, Seek, Call, StopPlay, BufferFree, mixVars,
     playVars, flagVars, globals
<1>20. CASE \E p \in SeekTargets : SeekSilent(p)
  BY <1>0, <1>20 DEF TypeOK, Threads, Holding, SeekSilent, Call, mixVars, playVars, flagVars,
     globals
<1>21. CASE StopThread
  BY <1>0, <1>21 DEF TypeOK, Threads, Holding, StopThread, Interrupt, ringVars, mixVars,
     playVars, globals
<1>22. CASE StopStatus
  BY <1>0, <1>22 DEF TypeOK, Threads, Holding, StopStatus, ringVars, mixVars, playVars, globals
<1>23. CASE Rewind
  BY <1>0, <1>23 DEF TypeOK, Threads, Holding, Rewind, mixVars, playVars, flagVars, globals
<1>24. CASE Unload
  BY <1>0, <1>24 DEF TypeOK, Threads, Holding, Unload, ringVars, mixVars, globals
<1>25. CASE Load
  BY <1>0, <1>25 DEF TypeOK, Threads, Holding, Load, mixVars, playVars, globals
<1>26. CASE TimerBeat
  BY <1>0, <1>26 DEF TypeOK, Threads, Holding, TimerBeat, Interrupt, ringVars, mixVars, playVars,
     mainVars, globals
<1>27. CASE UNCHANGED vars
  BY <1>0, <1>27 DEF TypeOK, Threads, Holding, vars, ringVars, mixVars, playVars, flagVars,
     mainVars, globals
<1> QED
  BY <1>1, <1>2, <1>3, <1>4, <1>5, <1>6, <1>7, <1>8, <1>9, <1>10,
     <1>11, <1>12, <1>13, <1>14, <1>15, <1>16, <1>17, <1>18, <1>19, <1>20,
     <1>21, <1>22, <1>23, <1>24, <1>25, <1>26, <1>27
  DEF Next, DecodeStep, PlayerStep, CallStep, MainStep

LEMMA NextInv == Inv /\ [Next]_vars => Inv'
<1> SUFFICES ASSUME Inv, [Next]_vars PROVE Inv'
  OBVIOUS
<1>1. Flags /\ Counters
  BY TypeParts DEF Inv
<1>2. TypeOK'
  BY <1>1, RingStep, FlagStep, CounterStep, QueueStep DEF TypeOK, RingTypes, Flags, Counters
<1> QED
  BY <1>2, RingStep, QueueStep, SilentStep, ThreadsStep DEF Inv

\* The unit that is read lies 1 .. L2Units - 1 cells behind the one written.
LEMMA Reads == Inv => NeverReadsWritingUnit
<1> SUFFICES ASSUME Inv, player = "readReady", decodeThread = "writing"
             PROVE  readPos # writePos
  BY DEF NeverReadsWritingUnit
<1>1. L2Units \in Nat \ {0, 1} /\ readPos \in 0 .. L2Units - 1 /\ remain \in Int
  BY WaveAssumption DEF Inv, TypeOK, Cell
<1>2. remain \in 1 .. L2Units - 1
  BY <1>1 DEF Inv, Threads
<1> QED
  BY <1>1, <1>2, ModApart DEF Inv, RingConsistent

-----------------------------------------------------------------------------
(***************************************************************************)
(* The ring as a queue.                                                    *)
(***************************************************************************)
\* A remainder may be taken before an addition.
LEMMA ModShift ==
  ASSUME NEW n \in Nat \ {0}, NEW a \in Int, NEW k \in Int
  PROVE  ((a % n) + k) % n = (a + k) % n
<1> DEFINE q == a \div n  r == a % n  p == (r + k) \div n  s == (r + k) % n
<1>1. a = n * q + r /\ q \in Int /\ r \in 0 .. n - 1
  BY DivMod
<1> HIDE DEF q, r
<1>2. r + k \in Int
  BY <1>1
<1>3. r + k = n * p + s /\ p \in Int /\ s \in 0 .. n - 1
  BY <1>2, DivMod
<1> HIDE DEF p, s
<1>4. a + k = n * (q + p) + s
  BY <1>1, <1>3
<1>5. (n * (q + p) + s) % n = s /\ (n * p + s) % n = s
  BY <1>1, <1>3, ModUnique
<1>6. (r + k) % n = (a + k) % n
  BY <1>3, <1>4, <1>5
<1> QED
  BY <1>6 DEF r

\* Less than a round apart are different places.
LEMMA ModFar ==
  ASSUME NEW n \in Nat \ {0, 1}, NEW a \in Int, NEW m \in 1 .. n - 1
  PROVE  (a + m) % n # a % n
<1> DEFINE r == a % n
<1>1. r \in 0 .. n - 1
  BY DivMod
<1>2. (r + m) % n = (a + m) % n
  <2>1. n \in Nat \ {0} /\ m \in Int
    OBVIOUS
  <2> QED
    BY <2>1, ModShift
<1> HIDE DEF r
<1>3. (r + m) % n # r
  BY <1>1, ModApart
<1>4. (a + m) % n # r
  BY <1>2, <1>3
<1> QED
  BY <1>4 DEF r

\* A position of the ring goes on as a remainder does.
LEMMA AfterMod == ASSUME NEW c \in Cell PROVE After(c) = (c + 1) % L2Units
<1>1. (c + 1) % L2Units = IF (c % L2Units) + 1 >= L2Units THEN 0 ELSE (c % L2Units) + 1
  <2>1. c \in Int /\ L2Units \in Nat \ {0, 1}
    BY DEF Cell
  <2> QED
    BY <2>1, ModSucc
<1>2. c % L2Units = c
  <2>1. c \in 0 .. L2Units - 1
    BY DEF Cell
  <2>2. (L2Units * 0 + c) % L2Units = c
    BY <2>1, ModUnique
  <2> QED
    BY <2>1, <2>2
<1> QED
  BY <1>1, <1>2 DEF After

\* The cells of the units that wait, and the unit that comes first.
UnreadCells ==
  /\ DOMAIN Unread = 1 .. remain
  /\ \A i \in 1 .. remain :
       (readPos + i - 1) % L2Units \in Cell
       /\ Unread[i] = ring[(readPos + i - 1) % L2Units] /\ Unread[i] \in Unit
  /\ remain >= 1 => Unread[1] = ring[readPos]
  /\ remain >= 0 => Unread \in Seq(Unit) /\ Len(Unread) = remain

LEMMA UnreadAre == RingTypes => UnreadCells
<1> SUFFICES ASSUME RingTypes PROVE UnreadCells
  OBVIOUS
<1>1. readPos \in 0 .. L2Units - 1 /\ remain \in Int /\ ring \in [Cell -> Unit]
  BY DEF RingTypes, Cell
<1>2. \A i \in 1 .. remain :
        (readPos + i - 1) % L2Units \in Cell
        /\ Unread[i] = ring[(readPos + i - 1) % L2Units] /\ Unread[i] \in Unit
  <2> TAKE i \in 1 .. remain
  <2>1. readPos + i - 1 \in Int
    BY <1>1
  <2>2. (readPos + i - 1) % L2Units \in Cell
    BY <2>1, DivMod DEF Cell
  <2>3. Unread[i] = ring[(readPos + i - 1) % L2Units]
    BY DEF Unread
  <2> QED
    BY <1>1, <2>2, <2>3
<1>3. remain >= 1 => Unread[1] = ring[readPos]
  <2> SUFFICES ASSUME remain >= 1 PROVE Unread[1] = ring[readPos]
    OBVIOUS
  <2>1. readPos + 1 - 1 = readPos /\ (L2Units * 0 + readPos) % L2Units = readPos
    BY <1>1, ModUnique
  <2>2. readPos % L2Units = readPos
    BY <1>1, <2>1
  <2>3. 1 \in 1 .. remain
    BY <1>1
  <2>4. Unread[1] = ring[(readPos + 1 - 1) % L2Units]
    BY <1>2, <2>3
  <2> QED
    BY <2>1, <2>2, <2>4
<1>4. DOMAIN Unread = 1 .. remain
  BY DEF Unread
<1>5. remain >= 0 => Unread \in Seq(Unit) /\ Len(Unread) = remain
  <2> SUFFICES ASSUME remain >= 0 PROVE Unread \in Seq(Unit) /\ Len(Unread) = remain
    OBVIOUS
  <2>1. remain \in Nat
    BY <1>1
  <2>2. Unread \in [1 .. remain -> Unit]
    BY <1>2, <1>4 DEF Unread
  <2> QED
    BY <2>1, <2>2
<1> QED
  BY <1>2, <1>3, <1>4, <1>5 DEF UnreadCells

LEMMA UnreadAreNext == RingTypes' => UnreadCells'
BY UnreadAre, PTL

\* Decoding puts a unit behind those that wait.
LEMMA UnreadFill ==
  ASSUME TypeOK, RingConsistent, FillL2Unit, remain < L2Units
  PROVE  LET u == IF ended THEN Silence ELSE pos
         IN  /\ remain >= 0 => Unread' = Append(Unread, u)
             /\ \A i \in 1 .. remain' : Unread'[i] = u \/ (i \in 1 .. remain /\ Unread'[i] = Unread[i])
<1> DEFINE u == IF ended THEN Silence ELSE pos
<1>1. /\ RingTypes /\ remain \in Int /\ readPos \in 0 .. L2Units - 1 /\ ring \in [Cell -> Unit]
      /\ writePos \in Cell
  BY DEF TypeOK, RingTypes, Cell
<1>2. remain' = remain + 1 /\ readPos' = readPos /\ ring' = [ring EXCEPT ![writePos] = u]
  BY DEF FillL2Unit
<1>3. writePos = (readPos + remain) % L2Units
  BY DEF RingConsistent
<1>4. RingTypes'
  BY FillUnitStep DEF RingTypes
<1> HIDE DEF u
<1>5. \A i \in 1 .. remain + 1 : Unread'[i] = ring'[(readPos + i - 1) % L2Units]
  <2>1. \A i \in 1 .. remain' : Unread'[i] = ring'[(readPos' + i - 1) % L2Units]
    BY <1>4 DEF RingTypes, Unread
  <2> QED
    BY <1>2, <2>1
<1>6. ASSUME NEW i \in 1 .. remain PROVE Unread'[i] = Unread[i]
  <2> DEFINE a == readPos + i - 1
             m == remain - i + 1
  <2>1. a \in Int /\ m \in 1 .. L2Units - 1 /\ a + m = readPos + remain
    BY <1>1
  <2> HIDE DEF a, m
  <2>2. (a + m) % L2Units # a % L2Units
    BY <2>1, ModFar
  <2>3. a % L2Units # writePos
    BY <1>3, <2>1, <2>2
  <2>4. a % L2Units \in Cell /\ Unread[i] = ring[a % L2Units]
    BY <1>1, UnreadAre DEF a, UnreadCells
  <2>5. ring'[a % L2Units] = ring[a % L2Units]
    BY <1>1, <1>2, <2>3, <2>4
  <2>6. i \in 1 .. remain + 1
    BY <1>1
  <2>7. Unread'[i] = ring'[a % L2Units]
    BY <1>5, <2>6 DEF a
  <2> QED
    BY <2>4, <2>5, <2>7
<1>7. remain >= 0 => Unread'[remain + 1] = u
  <2> SUFFICES ASSUME remain >= 0 PROVE Unread'[remain + 1] = u
    OBVIOUS
  <2>1. remain + 1 \in 1 .. remain + 1 /\ readPos + (remain + 1) - 1 = readPos + remain
    BY <1>1
  <2>2. Unread'[remain + 1] = ring'[writePos]
    BY <1>3, <1>5, <2>1
  <2> QED
    BY <1>1, <1>2, <2>2
<1>8. \A i \in 1 .. remain' : Unread'[i] = u \/ (i \in 1 .. remain /\ Unread'[i] = Unread[i])
  <2> TAKE i \in 1 .. remain'
  <2>1. i \in 1 .. remain \/ (i = remain + 1 /\ remain >= 0)
    BY <1>1, <1>2
  <2> QED
    BY <1>6, <1>7, <2>1
<1>9. ASSUME remain >= 0 PROVE Unread' = Append(Unread, u)
  <2> DEFINE new == Unread'
             old == Unread
  <2>1. old \in Seq(Unit) /\ Len(old) = remain /\ new \in Seq(Unit) /\ Len(new) = remain + 1
    BY <1>1, <1>2, <1>4, <1>9, UnreadAre, UnreadAreNext DEF UnreadCells
  <2>2. \A i \in 1 .. remain : new[i] = old[i]
    BY <1>6
  <2>3. new[remain + 1] = u
    BY <1>7, <1>9
  <2> HIDE DEF new, old
  <2>4. new = Append(old, u)
    <3>1. u \in Unit
      <4>1. remain + 1 \in 1 .. Len(new)
        BY <1>1, <1>9, <2>1
      <4> QED
        BY <2>1, <2>3, <4>1
    <3>2. /\ Append(old, u) \in Seq(Unit) /\ Len(Append(old, u)) = remain + 1
          /\ \A i \in 1 .. remain : Append(old, u)[i] = old[i]
          /\ Append(old, u)[remain + 1] = u
      BY <2>1, <3>1
    <3>3. \A i \in 1 .. remain + 1 : i \in 1 .. remain \/ i = remain + 1
      BY <1>1
    <3> QED
      BY <2>1, <2>2, <2>3, <3>2, <3>3, SeqEqual
  <2> QED
    BY <2>4 DEF new, old
<1> QED
  BY <1>8, <1>9 DEF u

\* Reading takes the unit that comes first.
LEMMA UnreadRead ==
  ASSUME TypeOK, RingConsistent, ReadL2Buffer, remain > -MaxStale
  PROVE  /\ \A i \in 1 .. remain' : i + 1 \in 1 .. remain /\ Unread'[i] = Unread[i + 1]
         /\ remain >= 1 => /\ Unread \in Seq(Unit) /\ Unread # <<>> /\ Unread' = Tail(Unread)
                           /\ Head(Unread) = ring[readPos]
<1>1. RingTypes /\ remain \in Int /\ readPos \in 0 .. L2Units - 1 /\ readPos \in Cell
  BY DEF TypeOK, RingTypes, Cell
<1>2. remain' = remain - 1 /\ readPos' = After(readPos) /\ ring' = ring
  BY DEF ReadL2Buffer
<1>3. RingTypes'
  <2>1. UNCHANGED <<writePos, ended, pos>>
    BY DEF ReadL2Buffer
  <2> QED
    BY <1>1, <1>2, <2>1, ReadUnitStep DEF RingTypes
<1>4. ASSUME NEW i \in 1 .. remain'
      PROVE  i + 1 \in 1 .. remain /\ Unread'[i] = Unread[i + 1]
  <2>1. i \in Int /\ i + 1 \in 1 .. remain
    BY <1>1, <1>2
  <2>2. Unread'[i] = ring[(After(readPos) + i - 1) % L2Units]
    BY <1>2, <1>3, UnreadAreNext DEF UnreadCells
  <2>3. Unread[i + 1] = ring[(readPos + (i + 1) - 1) % L2Units]
    BY <1>1, <2>1, UnreadAre DEF UnreadCells
  <2>4. (After(readPos) + i - 1) % L2Units = (readPos + (i + 1) - 1) % L2Units
    <3> DEFINE b == readPos + 1
               k == i - 1
    <3>1. b \in Int /\ k \in Int
      BY <1>1, <2>1
    <3>2. After(readPos) = b % L2Units
      BY <1>1, AfterMod
    <3>3. After(readPos) + i - 1 = (b % L2Units) + k /\ b + k = readPos + (i + 1) - 1
      <4>1. After(readPos) \in Int
        BY <1>1, AfterCell DEF Cell
      <4> QED
        BY <1>1, <2>1, <3>2, <4>1
    <3> HIDE DEF b, k
    <3>4. ((b % L2Units) + k) % L2Units = (b + k) % L2Units
      BY <3>1, ModShift
    <3> QED
      BY <3>3, <3>4
  <2> QED
    BY <2>1, <2>2, <2>3, <2>4
<1>5. ASSUME remain >= 1
      PROVE  /\ Unread \in Seq(Unit) /\ Unread # <<>> /\ Unread' = Tail(Unread)
             /\ Head(Unread) = ring[readPos]
  <2> DEFINE new == Unread'
             old == Unread
  <2>1. /\ old \in Seq(Unit) /\ Len(old) = remain /\ new \in Seq(Unit) /\ Len(new) = remain - 1
        /\ old[1] = ring[readPos]
    BY <1>1, <1>2, <1>3, <1>5, UnreadAre, UnreadAreNext DEF UnreadCells
  <2>2. \A i \in 1 .. remain - 1 : new[i] = old[i + 1]
    BY <1>2, <1>4
  <2> HIDE DEF new, old
  <2>3. old # <<>> /\ Head(old) = old[1]
    BY <1>5, <2>1
  <2>4. /\ Tail(old) \in Seq(Unit) /\ Len(Tail(old)) = remain - 1
        /\ \A i \in 1 .. remain - 1 : Tail(old)[i] = old[i + 1]
    BY <2>1, <2>3
  <2>5. new = Tail(old)
    BY <2>1, <2>2, <2>4, SeqEqual
  <2> QED
    BY <2>1, <2>3, <2>5 DEF new, old
<1> QED
  BY <1>4, <1>5

-----------------------------------------------------------------------------
(***************************************************************************)
(* A looped sound: the buffering implements SoundStream.                   *)
(***************************************************************************)
Stream == INSTANCE SoundStream WITH
  Units <- StreamUnits, DecodedMax <- L2Units, QueuedMax <- QueueLimit,
  at <- pos, decoded <- Unread, queued <- queue

\* A looped sound never ends, no silence is decoded, and the unit that is
\* read is there.
Whole ==
  /\ ~ended /\ remain >= 0 /\ pos \in 0 .. StreamUnits - 1
  /\ \A i \in 1 .. remain : Unread[i] # Silence
  /\ player = "read" => remain >= 1

LoopInv == Inv /\ Whole

\* A unit is not silence, and the next one is the following one.
LEMMA FollowingUnit ==
  ASSUME Looping, NEW p \in 0 .. StreamUnits - 1
  PROVE  /\ p # Silence /\ ~LastUnit(p)
         /\ Advanced(p) \in 0 .. StreamUnits - 1 /\ Stream!Following(p) = Advanced(p)
<1>1. p # Silence /\ ~LastUnit(p) /\ Advanced(p) \in 0 .. StreamUnits - 1
  BY DEF Silence, LastUnit, Advanced
<1>2. CASE p + 1 < StreamUnits
  <2>1. (StreamUnits * 0 + (p + 1)) % StreamUnits = p + 1
    BY <1>2, ModUnique
  <2>2. (p + 1) % StreamUnits = p + 1
    BY <2>1
  <2> QED
    BY <1>1, <1>2, <2>2 DEF Advanced, Stream!Following
<1>3. CASE ~(p + 1 < StreamUnits)
  <2>1. (StreamUnits * 1 + 0) % StreamUnits = 0
    BY ModUnique
  <2>2. p + 1 = StreamUnits * 1 + 0
    BY <1>3
  <2>3. (p + 1) % StreamUnits = 0
    BY <2>1, <2>2
  <2> QED
    BY <1>1, <1>3, <2>3 DEF Advanced, Stream!Following
<1> QED
  BY <1>2, <1>3

LEMMA LoopStart == ASSUME Looping, Init PROVE LoopInv /\ Stream!Init
<1>1. Inv /\ RingTypes
  BY InitInv DEF Inv, TypeOK, RingTypes
<1>2. pos = 0 /\ remain = 0 /\ ~ended /\ queue = <<>> /\ player # "read"
  BY DEF Init
<1>3. Unread = <<>>
  <2>1. Unread \in Seq(Unit) /\ Len(Unread) = 0
    BY <1>1, <1>2, UnreadAre DEF UnreadCells
  <2> QED
    BY <2>1
<1>4. Whole
  BY <1>2 DEF Whole
<1> QED
  BY <1>1, <1>2, <1>3, <1>4 DEF LoopInv, Stream!Init

LEMMA QuietQueue == ASSUME QuietStep PROVE Hear \/ queue' \in {queue, <<>>}
<1>1. CASE DecodeCheck \/ DecodeBegin
  BY <1>1 DEF DecodeCheck, DecodeBegin, mixVars
<1>2. CASE PlayerRound \/ FillSkips \/ FillPauses \/ FillEnds \/ FillGoesOn \/ Prepare
  BY <1>2 DEF PlayerRound, FillSkips, FillPauses, FillEnds, FillGoesOn, Prepare, mixVars
<1>3. CASE Stop \/ Open \/ FreeDirectSound \/ (\E b \in BOOLEAN : SetPaused(b))
  BY <1>3 DEF Stop, Open, FreeDirectSound, SetPaused, StopPlay, mixVars
<1>4. CASE \E p \in SeekTargets : Seek(p) \/ SeekSilent(p)
  BY <1>4 DEF Seek, SeekSilent, StopPlay, mixVars
<1>5. CASE StopThread \/ StopStatus \/ Rewind \/ Unload \/ Load \/ TimerBeat \/ UNCHANGED vars
  BY <1>5 DEF StopThread, StopStatus, Rewind, Unload, Load, TimerBeat, vars, mixVars
<1> QED
  BY <1>1, <1>2, <1>3, <1>4, <1>5 DEF QuietStep

\* Nobody but the player puts it into "read", where it stays until it reads.
LEMMA ReaderSet ==
  ASSUME [Next]_vars, player' = "read"
  PROVE  player = "read" \/ Prepare \/ PlayerFillsL2
<1>1. CASE DecodeCheck \/ DecodeBegin \/ DecodeEnd \/ Hear
  BY <1>1 DEF DecodeCheck, DecodeBegin, DecodeEnd, Hear
<1>2. CASE PlayerRound \/ FillSkips \/ FillPauses \/ FillEnds \/ FillGoesOn \/ PlayerReads
  BY <1>2 DEF PlayerRound, FillSkips, FillPauses, FillEnds, FillGoesOn, PlayerReads
<1>3. CASE Stop \/ Open \/ FreeDirectSound \/ (\E b \in BOOLEAN : SetPaused(b))
  BY <1>3 DEF Stop, Open, FreeDirectSound, SetPaused
<1>4. CASE \E p \in SeekTargets : Seek(p) \/ SeekSilent(p)
  BY <1>4 DEF Seek, SeekSilent
<1>5. CASE StopThread \/ StopStatus \/ Rewind \/ Unload \/ Load \/ TimerBeat \/ UNCHANGED vars
  BY <1>5 DEF StopThread, StopStatus, Rewind, Unload, Load, TimerBeat, vars
<1>6. CASE Play \/ SeekStarts
  BY <1>6 DEF Play, SeekStarts, StartPlay
<1>7. CASE Prepare \/ PlayerFillsL2
  BY <1>7
<1> QED
  BY <1>1, <1>2, <1>3, <1>4, <1>5, <1>6, <1>7, NextCases DEF QuietStep

\* Decoding is Decode of SoundStream.
LEMMA LoopFills ==
  ASSUME Looping, LoopInv, FillL2Unit, remain < L2Units
  PROVE  /\ ~ended' /\ remain' >= 1 /\ pos' \in 0 .. StreamUnits - 1
         /\ \A i \in 1 .. remain' : Unread'[i] # Silence
         /\ UNCHANGED queue => Stream!Decode
<1>1. TypeOK /\ RingConsistent /\ Whole /\ RingTypes
  BY DEF LoopInv, Inv, TypeOK, RingTypes
<1>2. pos \in 0 .. StreamUnits - 1 /\ ~ended /\ remain >= 0 /\ remain \in Int
  BY <1>1 DEF Whole, TypeOK
<1>3. pos # Silence /\ ~LastUnit(pos) /\ Advanced(pos) \in 0 .. StreamUnits - 1
      /\ Stream!Following(pos) = Advanced(pos)
  BY <1>2, FollowingUnit
<1>4. ~ended' /\ pos' = Advanced(pos) /\ remain' = remain + 1
  BY <1>2, <1>3 DEF FillL2Unit
<1>5. /\ Unread' = Append(Unread, pos)
      /\ \A i \in 1 .. remain' : Unread'[i] = pos \/ (i \in 1 .. remain /\ Unread'[i] = Unread[i])
  BY <1>1, <1>2, UnreadFill
<1>6. \A i \in 1 .. remain' : Unread'[i] # Silence
  BY <1>1, <1>3, <1>5 DEF Whole
<1>7. Len(Unread) < L2Units
  BY <1>1, <1>2, UnreadAre DEF UnreadCells
<1>8. UNCHANGED queue => Stream!Decode
  BY <1>3, <1>4, <1>5, <1>7 DEF Stream!Decode
<1>9. pos' \in 0 .. StreamUnits - 1
  BY <1>3, <1>4
<1> QED
  BY <1>2, <1>4, <1>6, <1>8, <1>9

\* Reading is HandOver of SoundStream.
LEMMA LoopReads ==
  ASSUME LoopInv, PlayerReads
  PROVE  Whole' /\ Stream!HandOver
<1>1. TypeOK /\ RingConsistent /\ Whole /\ Threads /\ RingTypes /\ remain \in Int
  BY DEF LoopInv, Inv, TypeOK, RingTypes
<1>2. ReadL2Buffer /\ remain > -MaxStale /\ player' = "idle" /\ Len(queue) < QueueLimit
      /\ remain >= 1
  BY <1>1 DEF PlayerReads, Threads, Holding, Whole
<1>3. /\ \A i \in 1 .. remain' : i + 1 \in 1 .. remain /\ Unread'[i] = Unread[i + 1]
      /\ Unread \in Seq(Unit) /\ Unread # <<>> /\ Unread' = Tail(Unread)
      /\ Head(Unread) = ring[readPos]
  BY <1>1, <1>2, UnreadRead
<1>4. Unread[1] = ring[readPos] /\ 1 \in 1 .. remain
  BY <1>1, <1>2, UnreadAre DEF UnreadCells
<1>5. ring[readPos] # Silence
  BY <1>1, <1>4 DEF Whole
<1>6. queue' = Append(queue, Head(Unread)) /\ remain' = remain - 1 /\ UNCHANGED <<ended, pos>>
  BY <1>2, <1>3, <1>5 DEF ReadL2Buffer
<1>7. Whole'
  <2>1. \A i \in 1 .. remain' : Unread'[i] # Silence
    BY <1>1, <1>3 DEF Whole
  <2>2. remain' >= 0 /\ player' # "read"
    BY <1>1, <1>2, <1>6
  <2> QED
    BY <1>1, <1>6, <2>1, <2>2 DEF Whole
<1> QED
  BY <1>2, <1>3, <1>6, <1>7 DEF Stream!HandOver

\* Starting is Start of SoundStream.
LEMMA LoopBegins ==
  ASSUME Looping, LoopInv, StartPlay, RingTypes'
  PROVE  Whole' /\ Stream!Start
<1>1. pos \in 0 .. StreamUnits - 1
  BY DEF LoopInv, Whole
<1>2. pos # Silence /\ ~LastUnit(pos) /\ Advanced(pos) \in 0 .. StreamUnits - 1
      /\ Stream!Following(pos) = Advanced(pos)
  BY <1>1, FollowingUnit
<1>3. ~ended' /\ pos' = Advanced(pos) /\ player' # "read"
  BY <1>2 DEF StartPlay, BufferFree, Holding
<1>4. CASE primary
  <2>1. remain' = 0 /\ queue' = <<pos>>
    BY <1>2, <1>4 DEF StartPlay
  <2>2. Unread' = <<>>
    <3> DEFINE new == Unread'
    <3>1. new \in Seq(Unit) /\ Len(new) = 0
      BY <2>1, UnreadAreNext DEF UnreadCells
    <3> HIDE DEF new
    <3>2. new = <<>>
      BY <3>1
    <3> QED
      BY <3>2 DEF new
  <2>3. Whole'
    BY <1>2, <1>3, <2>1 DEF Whole
  <2> QED
    BY <1>2, <1>3, <2>1, <2>2, <2>3 DEF Stream!Start
<1>5. CASE ~primary
  <2>1. remain' = 1 /\ queue' = <<>> /\ readPos' = 0
        /\ ring' = [c \in Cell |-> IF c = 0 THEN pos ELSE Silence]
    BY <1>5 DEF StartPlay
  <2>2. ring'[0] = pos
    BY <2>1 DEF Cell
  <2>3. Unread' = <<pos>>
    <3> DEFINE new == Unread'
    <3>1. new \in Seq(Unit) /\ Len(new) = 1 /\ new[1] = pos
      BY <2>1, <2>2, UnreadAreNext DEF UnreadCells
    <3> HIDE DEF new
    <3>2. new = <<pos>>
      <4>1. pos \in Unit
        BY <1>1 DEF Unit
      <4>2. <<pos>> \in Seq(Unit) /\ Len(<<pos>>) = 1 /\ <<pos>>[1] = pos
        BY <4>1
      <4> QED
        BY <3>1, <4>2, SeqEqual
    <3> QED
      BY <3>2 DEF new
  <2>4. Whole'
    <3>1. \A i \in 1 .. remain' : Unread'[i] # Silence
      BY <1>2, <2>1, <2>3
    <3> QED
      BY <1>2, <1>3, <2>1, <3>1 DEF Whole
  <2> QED
    BY <1>2, <1>3, <2>1, <2>3, <2>4 DEF Stream!Start
<1> QED
  BY <1>4, <1>5

LEMMA LoopSteps ==
  ASSUME Looping, LoopInv, [Next]_vars PROVE LoopInv' /\ [Stream!Next]_(Stream!vars)
<1>1. Inv /\ Inv' /\ TypeOK /\ TypeOK' /\ Whole /\ RingTypes'
  BY NextInv DEF LoopInv, Inv, TypeOK, RingTypes
<1>2. CASE QuietStep
  <2>1. RingAlone
    BY <1>2, QuietLeavesRing
  <2>2. Unread' = Unread /\ pos' \in 0 .. StreamUnits - 1 /\ ~ended' /\ remain' = remain
    BY <1>1, <2>1 DEF RingAlone, Unread, Whole
  <2>3. player' = "read" => remain' >= 1
    <3> SUFFICES ASSUME player' = "read" PROVE remain' >= 1
      OBVIOUS
    <3>1. CASE player = "read"
      BY <1>1, <2>2, <3>1 DEF Whole
    <3>2. CASE Prepare
      BY <1>1, <2>2, <3>2 DEF Prepare, Whole, TypeOK
    <3>3. CASE PlayerFillsL2
      <4>1. FullRing
        BY <1>1, <2>2, <3>3 DEF PlayerFillsL2, FillL2Unit, TypeOK
      <4> QED
        BY <2>2, <4>1 DEF FullRing
    <3> QED
      BY <3>1, <3>2, <3>3, ReaderSet
  <2>4. Whole'
    BY <1>1, <2>2, <2>3 DEF Whole
  <2>5. CASE Hear
    <3>1. queue # <<>> /\ queue' = Tail(queue) /\ pos' = pos
      BY <2>5 DEF Hear, ringVars
    <3>2. Stream!Hear
      BY <2>2, <3>1 DEF Stream!Hear
    <3> QED
      BY <1>1, <2>4, <3>2 DEF LoopInv, Stream!Next
  <2>6. CASE queue' = queue
    <3>1. Stream!Seek
      BY <2>2, <2>6 DEF Stream!Seek
    <3> QED
      BY <1>1, <2>4, <3>1 DEF LoopInv, Stream!Next
  <2>7. CASE queue' = <<>>
    <3>1. Stream!Halt
      BY <2>2, <2>7 DEF Stream!Halt
    <3> QED
      BY <1>1, <2>4, <3>1 DEF LoopInv, Stream!Next
  <2> QED
    BY <1>2, <2>5, <2>6, <2>7, QuietQueue
<1>3. CASE DecodeEnd
  <2>1. FillL2Unit /\ remain < L2Units /\ UNCHANGED <<queue, player>>
    BY <1>1, <1>3 DEF DecodeEnd, Inv, Threads, mixVars
  <2>2. Whole' /\ Stream!Decode
    <3>1. ~ended' /\ remain' >= 1 /\ pos' \in 0 .. StreamUnits - 1 /\ Stream!Decode
      BY <2>1, LoopFills
    <3>2. \A i \in 1 .. remain' : Unread'[i] # Silence
      BY <2>1, LoopFills
    <3>3. remain' >= 0
      BY <1>1, <3>1 DEF RingTypes
    <3> QED
      BY <3>1, <3>2, <3>3 DEF Whole
  <2> QED
    BY <1>1, <2>2 DEF LoopInv, Stream!Next
<1>4. CASE PlayerFillsL2
  <2>1. CASE FullRing
    <3>1. UNCHANGED <<ring, readPos, writePos, remain, ended, pos, queue>>
      BY <1>4, <2>1 DEF PlayerFillsL2, ringVars, mixVars
    <3>2. Unread' = Unread
      BY <3>1 DEF Unread
    <3>3. remain >= 1
      BY <2>1 DEF FullRing
    <3>4. Whole'
      BY <1>1, <3>1, <3>2, <3>3 DEF Whole
    <3> QED
      BY <1>1, <3>1, <3>2, <3>4 DEF LoopInv, Stream!vars
  <2>2. CASE ~FullRing
    <3>1. FillL2Unit /\ remain < L2Units /\ UNCHANGED queue
      BY <1>1, <1>4, <2>2 DEF PlayerFillsL2, FullRing, TypeOK, mixVars
    <3>2. Whole' /\ Stream!Decode
      <4>1. ~ended' /\ remain' >= 1 /\ pos' \in 0 .. StreamUnits - 1 /\ Stream!Decode
        BY <3>1, LoopFills
      <4>2. \A i \in 1 .. remain' : Unread'[i] # Silence
        BY <3>1, LoopFills
      <4>3. remain' >= 0
        BY <1>1, <4>1 DEF RingTypes
      <4> QED
        BY <4>1, <4>2, <4>3 DEF Whole
    <3> QED
      BY <1>1, <3>2 DEF LoopInv, Stream!Next
  <2> QED
    BY <2>1, <2>2
<1>5. CASE PlayerReads
  BY <1>1, <1>5, LoopReads DEF LoopInv, Stream!Next
<1>6. CASE Play \/ SeekStarts
  <2>1. StartPlay
    BY <1>6 DEF Play, SeekStarts
  <2> QED
    BY <1>1, <2>1, LoopBegins DEF LoopInv, Stream!Next
<1> QED
  BY <1>2, <1>3, <1>4, <1>5, <1>6, NextCases


-----------------------------------------------------------------------------
(***************************************************************************)
(* The end of a sound on a device that is fed in time.                     *)
(***************************************************************************)
\* What still waits is silence.
Quiet == \A i \in 1 .. remain : Unread[i] = Silence

\* While a sound plays the mixer has something of it, until all was decoded
\* and handed over.
Fed ==
  /\ primary = TRUE /\ byProgram = TRUE
  /\ bufferPlaying # FALSE => queue # <<>> \/ (ended /\ Quiet)

FedInv == Inv /\ Fed

\* Steps that leave the ring alone start no sound, and empty the queue only
\* of one they stop.
LEMMA QuietPlays ==
  ASSUME QuietStep, byProgram = TRUE, primary = TRUE
  PROVE  /\ primary' = TRUE /\ byProgram' = TRUE
         /\ bufferPlaying' # FALSE => bufferPlaying # FALSE /\ (queue' = queue \/ Hear)
<1>1. CASE DecodeCheck \/ DecodeBegin
  BY <1>1 DEF DecodeCheck, DecodeBegin, mixVars, playVars, globals
<1>2. CASE PlayerRound \/ FillSkips \/ FillPauses \/ FillEnds \/ FillGoesOn \/ Prepare
  BY <1>2 DEF PlayerRound, FillSkips, FillPauses, FillEnds, FillGoesOn, Prepare, mixVars, playVars,
     globals
<1>3. CASE Stop \/ Open \/ FreeDirectSound \/ (\E b \in BOOLEAN : SetPaused(b))
  BY <1>3 DEF Stop, Open, FreeDirectSound, SetPaused, StopPlay, mixVars, playVars, globals
<1>4. CASE \E p \in SeekTargets : Seek(p) \/ SeekSilent(p)
  BY <1>4 DEF Seek, SeekSilent, StopPlay, mixVars, playVars, globals
<1>5. CASE StopThread \/ StopStatus \/ Rewind \/ Unload \/ Load \/ TimerBeat \/ UNCHANGED vars
  BY <1>5 DEF StopThread, StopStatus, Rewind, Unload, Load, TimerBeat, vars, mixVars, playVars,
     globals
<1>6. CASE Hear
  BY <1>6 DEF Hear, playVars, globals
<1> QED
  BY <1>1, <1>2, <1>3, <1>4, <1>5, <1>6 DEF QuietStep

LEMMA FedStart == ASSUME Init, primary PROVE FedInv
<1>1. Fed
  BY DEF Init, Fed
<1> QED
  BY <1>1, InitInv DEF FedInv

LEMMA FedFills ==
  ASSUME FedInv, FillL2Unit, remain < L2Units, UNCHANGED <<queue, bufferPlaying, primary, byProgram>>
  PROVE  Fed'
<1>1. TypeOK /\ RingConsistent /\ Fed
  BY DEF FedInv, Inv
<1>2. \A i \in 1 .. remain' : \/ Unread'[i] = IF ended THEN Silence ELSE pos
                              \/ i \in 1 .. remain /\ Unread'[i] = Unread[i]
  BY <1>1, UnreadFill
<1>3. ended /\ Quiet => ended' /\ Quiet'
  BY <1>2 DEF Quiet, FillL2Unit
<1> QED
  BY <1>1, <1>3 DEF Fed

LEMMA FedStays ==
  ASSUME ~Looping, ~Underruns, FedInv, [Next]_vars PROVE FedInv'
<1>1. Inv /\ Inv' /\ TypeOK /\ Fed /\ RingConsistent
  BY NextInv DEF FedInv, Inv
<1>2. CASE QuietStep
  <2>1. RingAlone
    BY <1>2, QuietLeavesRing
  <2>2. Quiet' <=> Quiet
    BY <2>1 DEF RingAlone, Quiet, Unread
  <2>3. /\ primary' = TRUE /\ byProgram' = TRUE /\ ended' = ended
        /\ bufferPlaying' # FALSE => bufferPlaying # FALSE /\ (queue' = queue \/ Hear)
    BY <1>1, <1>2, <2>1, QuietPlays DEF Fed, RingAlone
  <2>4. CASE Hear
    <3>1. queue' = Tail(queue) /\ queue \in Seq(0 .. StreamUnits - 1)
          /\ (Len(queue) > 1 \/ (ended /\ \A i \in DOMAIN Unread : Unread[i] = Silence))
      BY <1>1, <2>4 DEF Hear, TypeOK
    <3>2. DOMAIN Unread = 1 .. remain
      BY DEF Unread
    <3>3. Len(queue) > 1 => queue' # <<>>
      <4>1. Len(queue) > 1 => Len(Tail(queue)) > 0
        BY <3>1
      <4>2. Len(<<>>) = 0 /\ ~(0 > 0)
        OBVIOUS
      <4>3. queue' = Tail(queue)
        BY <3>1
      <4> QED
        BY <4>1, <4>2, <4>3, Zenon
    <3>4. queue' # <<>> \/ (ended /\ Quiet)
      BY <3>1, <3>2, <3>3, Zenon DEF Quiet
    <3> QED
      BY <1>1, <2>2, <2>3, <3>4 DEF Fed, FedInv
  <2>5. CASE ~Hear
    BY <1>1, <2>2, <2>3, <2>5 DEF Fed, FedInv
  <2> QED
    BY <2>4, <2>5
<1>3. CASE DecodeEnd
  <2>1. FillL2Unit /\ remain < L2Units /\ UNCHANGED <<queue, bufferPlaying, primary, byProgram>>
    BY <1>1, <1>3 DEF DecodeEnd, Inv, Threads, mixVars, playVars, globals
  <2> QED
    BY <1>1, <2>1, FedFills DEF FedInv
<1>4. CASE PlayerFillsL2
  <2>1. CASE FullRing
    <3>1. UNCHANGED <<ring, readPos, remain, ended, queue, bufferPlaying, primary, byProgram>>
      BY <1>4, <2>1 DEF PlayerFillsL2, ringVars, mixVars, playVars, globals
    <3>2. Quiet' <=> Quiet
      BY <3>1 DEF Quiet, Unread
    <3> QED
      BY <1>1, <3>1, <3>2 DEF Fed, FedInv
  <2>2. CASE ~FullRing
    <3>1. FillL2Unit /\ remain < L2Units /\ UNCHANGED <<queue, bufferPlaying, primary, byProgram>>
      BY <1>1, <1>4, <2>2 DEF PlayerFillsL2, FullRing, TypeOK, mixVars, playVars, globals
    <3> QED
      BY <1>1, <3>1, FedFills DEF FedInv
  <2> QED
    BY <2>1, <2>2
<1>5. CASE PlayerReads
  <2>1. ReadL2Buffer /\ remain > -MaxStale /\ UNCHANGED <<ended, bufferPlaying, primary, byProgram>>
    BY <1>5 DEF PlayerReads, ReadL2Buffer, playVars, globals
  <2>2. \A i \in 1 .. remain' : i + 1 \in 1 .. remain /\ Unread'[i] = Unread[i + 1]
    BY <1>1, <2>1, UnreadRead
  <2>3. Quiet => Quiet'
    BY <2>2 DEF Quiet
  <2>4. queue # <<>> => queue' # <<>>
    <3>1. queue \in Seq(0 .. StreamUnits - 1)
      BY <1>1 DEF TypeOK
    <3>2. queue' = queue \/ queue' = Append(queue, ring[readPos])
      BY <2>1 DEF ReadL2Buffer
    <3>3. Append(queue, ring[readPos]) # <<>>
      BY <3>1
    <3> QED
      BY <3>2, <3>3
  <2> QED
    BY <1>1, <2>1, <2>3, <2>4 DEF Fed, FedInv
<1>6. CASE Play \/ SeekStarts
  <2>1. StartPlay /\ primary' = TRUE /\ primary = TRUE
    BY <1>1, <1>6 DEF Play, SeekStarts, Fed
  <2>2. byProgram' = TRUE /\ remain' = 0
    BY <2>1 DEF StartPlay
  <2>3. Quiet'
    BY <2>2 DEF Quiet
  <2>4. CASE pos = Silence
    <3>1. ended'
      <4>1. pos + 1 >= StreamUnits
        BY <2>4 DEF Silence
      <4>2. LastUnit(pos)
        BY <4>1 DEF LastUnit
      <4> QED
        BY <2>1, <4>2, Zenon DEF StartPlay
    <3> QED
      BY <1>1, <2>1, <2>2, <2>3, <3>1 DEF Fed, FedInv
  <2>5. CASE pos # Silence
    <3>1. queue' = <<pos>>
      BY <2>1, <2>5 DEF StartPlay
    <3>2. queue' # <<>>
      BY <3>1
    <3> QED
      BY <1>1, <2>1, <2>2, <3>2 DEF Fed, FedInv
  <2> QED
    BY <2>4, <2>5
<1> QED
  BY <1>2, <1>3, <1>4, <1>5, <1>6, NextCases

LEMMA FedEnds == ASSUME FedInv PROVE EndsWhole
<1> SUFFICES ASSUME FillEnds PROVE \A i \in DOMAIN Unread : Unread[i] = Silence
  BY DEF EndsWhole
<1>1. bufferPlaying # FALSE /\ queue = <<>>
  BY DEF FillEnds, FillActive, NothingPlays, AtEnd
<1>2. DOMAIN Unread = 1 .. remain
  BY DEF Unread
<1> QED
  BY <1>1, <1>2 DEF FedInv, Fed, Quiet

-----------------------------------------------------------------------------
(***************************************************************************)
(* The theorems.                                                           *)
(***************************************************************************)
LEMMA AlwaysInv == Spec => []Inv
BY InitInv, NextInv, PTL DEF Spec

\* Every variable keeps its type: the positions stay inside the ring, and a
\* unit read early leaves the count at -MaxStale at the least.
THEOREM WaveTypeCorrect == Spec => []TypeOK
<1>1. Inv => TypeOK
  BY DEF Inv
<1> QED
  BY <1>1, AlwaysInv, PTL

\* The positions and the count of the ring agree in every interleaving of
\* the two threads, for a ring of any size (FillL2Buffer, ReadL2Buffer).
THEOREM RingStaysConsistent == Spec => []RingConsistent
<1>1. Inv => RingConsistent
  BY DEF Inv
<1> QED
  BY <1>1, AlwaysInv, PTL

\* A reader without the lock never meets the unit that is being written: the
\* claim of the comment in ReadL2Buffer.
THEOREM ReaderAvoidsWriter == Spec => []NeverReadsWritingUnit
BY Reads, AlwaysInv, PTL

\* A sound whose BufferPlaying is reset has no unit in the mixer and does
\* not play there, wherever the playing thread was in FillBuffer.
THEOREM StoppedStaysSilent == Spec => []StoppedIsSilent
<1>1. Inv => StoppedIsSilent
  BY DEF Inv
<1> QED
  BY <1>1, AlwaysInv, PTL

\* The queue of the mixer never holds more than TVPAL_BUFFER_COUNT units,
\* though the test and the addition are steps of the thread of their own.
THEOREM QueueStaysBounded == Spec => []QueueBounded
<1>1. Inv => QueueBounded
  BY DEF Inv
<1> QED
  BY <1>1, AlwaysInv, PTL

\* The buffering of a looped sound implements SoundStream, for a ring, a
\* queue and a sound of every size: what is decoded is handed over and heard
\* in order, nothing lost or repeated but by a start, a stop or a seek
\* (FillL2Buffer, ReadL2Buffer, the mixer's queue).
THEOREM LoopedImplementsStream == ASSUME Looping PROVE Spec => Stream!Spec
<1>1. Init => LoopInv /\ Stream!Init
  BY LoopStart
<1>2. LoopInv /\ [Next]_vars => LoopInv' /\ [Stream!Next]_(Stream!vars)
  BY LoopSteps
<1> QED
  BY <1>1, <1>2, PTL DEF Spec, Stream!Spec

\* A sound that is not looped and not the first of the program, on a device
\* that never runs dry, ends only after its last unit was handed to the
\* mixer, wherever the threads are (FillBuffer's test for the end).
THEOREM EndsAfterLastUnit ==
  ASSUME ~Looping, ~Underruns PROVE primary /\ Spec => [][EndsWhole]_vars
<1>1. Init /\ primary => FedInv
  BY FedStart
<1>2. FedInv /\ [Next]_vars => FedInv' /\ EndsWhole
  BY FedStays, FedEnds
<1> QED
  BY <1>1, <1>2, PTL DEF Spec
=============================================================================
