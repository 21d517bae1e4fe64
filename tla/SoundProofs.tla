----------------------------- MODULE SoundProofs -----------------------------
(***************************************************************************)
(* Proofs about the sound system and the timers, for sounds, buffers,      *)
(* queues, labels and scripts of every size: everything that SoundParts    *)
(* checks.  Each part has an inductive invariant (LoopInv and FedInv of    *)
(* WaveProofs, LabelInv, DeviceInv, MixerInv, LockInv, TimerInv); together *)
(* they are that of SoundParts.                                            *)
(***************************************************************************)
EXTENDS SoundParts, SequenceTheorems, FiniteSetTheorems, NaturalsInduction,
  WellFoundedInduction, TLAPS

-----------------------------------------------------------------------------
(***************************************************************************)
(* Numbers and sums.                                                       *)
(***************************************************************************)
Earlier == {p \in Nat \X Nat : p[1] < p[2]}

\* Every set of numbers has a least one.
LEMMA EarlierWellFounded == IsWellFoundedOn(Earlier, Nat)
<1>1. Earlier = OpToRel(<, Nat)
  BY Zenon DEF Earlier, OpToRel
<1> QED
  BY <1>1, NatLessThanWellFounded

\* Induction over a set of numbers.
LEMMA EveryNumber ==
  ASSUME NEW S, 0 \in S, \A n \in S \cap Nat : n + 1 \in S PROVE Nat \subseteq S
<1> DEFINE T == Nat \ S
<1>1. ASSUME NEW m \in T, \A n \in T : <<n, m>> \notin Earlier PROVE FALSE
  <2>1. m \in Nat /\ m # 0 /\ m - 1 \in Nat /\ m = (m - 1) + 1
    BY <1>1
  <2>2. <<m - 1, m>> \in Earlier
    BY <2>1 DEF Earlier
  <2>3. m - 1 \notin T
    BY <1>1, <2>2
  <2> QED
    BY <2>1, <2>3
<1>2. T \subseteq Nat
  OBVIOUS
<1> HIDE DEF T
<1>3. T = {}
  BY <1>1, <1>2, EarlierWellFounded, WFMin
<1> QED
  BY <1>3 DEF T

\* What Frames adds up.
UpTo(q, f) == f = [i \in 0 .. Len(q) |-> IF i = 0 THEN 0 ELSE f[i - 1] + q[i]]

\* The sums are numbers, each the one before and the next buffer.
LEMMA UpToIs ==
  ASSUME NEW q \in Seq(Nat), NEW f, UpTo(q, f)
  PROVE  /\ f[0] = 0 /\ \A i \in 1 .. Len(q) : f[i] = f[i - 1] + q[i]
         /\ \A i \in 0 .. Len(q) : f[i] \in Nat
<1>1. Len(q) \in Nat /\ \A i \in 1 .. Len(q) : q[i] \in Nat
  OBVIOUS
<1>2. f[0] = 0
  BY <1>1 DEF UpTo
<1>3. \A i \in 1 .. Len(q) : f[i] = f[i - 1] + q[i]
  BY <1>1 DEF UpTo
<1> DEFINE S == {n \in Nat : n <= Len(q) => f[n] \in Nat}
<1>4. 0 \in S
  BY <1>2
<1>5. ASSUME NEW n \in S \cap Nat PROVE n + 1 \in S
  <2>1. CASE n + 1 <= Len(q)
    <3>1. n + 1 \in 1 .. Len(q) /\ (n + 1) - 1 = n /\ n <= Len(q)
      BY <1>1, <2>1
    <3>2. f[n + 1] = f[n] + q[n + 1]
      BY <1>3, <3>1
    <3> QED
      BY <1>1, <3>1, <3>2
  <2> QED
    BY <2>1
<1> HIDE DEF S
<1>6. Nat \subseteq S
  BY <1>4, <1>5, EveryNumber
<1> QED
  BY <1>1, <1>2, <1>3, <1>6 DEF S

\* With one more buffer there is one more sum, the others stay.
LEMMA UpToLonger ==
  ASSUME NEW q \in Seq(Nat), NEW n \in Nat, NEW f, UpTo(q, f)
  PROVE  \E g : UpTo(Append(q, n), g)
<1>1. /\ Len(q) \in Nat /\ Len(Append(q, n)) = Len(q) + 1 /\ Append(q, n)[Len(q) + 1] = n
      /\ \A i \in 1 .. Len(q) : Append(q, n)[i] = q[i]
  OBVIOUS
<1> DEFINE k == Len(q)
           r == Append(q, n)
           g == [i \in 0 .. k + 1 |-> IF i <= k THEN f[i] ELSE f[k] + n]
<1>2. \A i \in 0 .. k + 1 : g[i] = IF i <= k THEN f[i] ELSE f[k] + n
  OBVIOUS
<1>3. f[0] = 0 /\ \A i \in 1 .. k : f[i] = f[i - 1] + q[i]
  BY UpToIs
<1>4. \A i \in 0 .. k + 1 : g[i] = IF i = 0 THEN 0 ELSE g[i - 1] + r[i]
  <2> TAKE i \in 0 .. k + 1
  <2>1. CASE i = 0
    BY <1>1, <1>2, <1>3, <2>1
  <2>2. CASE i \in 1 .. k
    <3>1. g[i] = f[i] /\ g[i - 1] = f[i - 1] /\ r[i] = q[i]
      BY <1>1, <1>2, <2>2
    <3> QED
      BY <1>3, <2>2, <3>1
  <2>3. CASE i = k + 1
    <3>1. g[i] = f[k] + n /\ g[i - 1] = f[k] /\ r[i] = n
      BY <1>1, <1>2, <2>3
    <3> QED
      BY <1>1, <2>3, <3>1
  <2> QED
    BY <1>1, <2>1, <2>2, <2>3
<1>5. g = [i \in 0 .. k + 1 |-> g[i]]
  OBVIOUS
<1> HIDE DEF g
<1>6. g = [i \in 0 .. k + 1 |-> IF i = 0 THEN 0 ELSE g[i - 1] + r[i]]
  BY <1>4, <1>5
<1> QED
  BY <1>1, <1>6 DEF UpTo

\* Every queue has its sums.
LEMMA UpToExists == ASSUME NEW q \in Seq(Nat) PROVE \E f : UpTo(q, f)
<1> DEFINE S == {n \in Nat : \A r \in Seq(Nat) : Len(r) = n => \E f : UpTo(r, f)}
<1>1. 0 \in S
  <2>1. ASSUME NEW r \in Seq(Nat), Len(r) = 0 PROVE \E f : UpTo(r, f)
    <3> DEFINE f == [i \in 0 .. 0 |-> 0]
    <3>1. \A i \in 0 .. 0 : f[i] = IF i = 0 THEN 0 ELSE f[i - 1] + r[i]
      OBVIOUS
    <3>2. f = [i \in 0 .. 0 |-> f[i]]
      OBVIOUS
    <3> HIDE DEF f
    <3>3. f = [i \in 0 .. 0 |-> IF i = 0 THEN 0 ELSE f[i - 1] + r[i]]
      BY <3>1, <3>2
    <3> QED
      BY <2>1, <3>3 DEF UpTo
  <2> QED
    BY <2>1
<1>2. ASSUME NEW n \in S \cap Nat PROVE n + 1 \in S
  <2>1. ASSUME NEW r \in Seq(Nat), Len(r) = n + 1 PROVE \E f : UpTo(r, f)
    <3> DEFINE p == SubSeq(r, 1, n)
    <3>1. p \in Seq(Nat) /\ Len(p) = n /\ r[n + 1] \in Nat
      BY <2>1
    <3>2. r = Append(p, r[n + 1])
      BY <2>1, <3>1
    <3> HIDE DEF p
    <3>3. PICK f : UpTo(p, f)
      BY <3>1
    <3> QED
      BY <3>1, <3>2, <3>3, UpToLonger
  <2> QED
    BY <2>1
<1> HIDE DEF S
<1>3. Nat \subseteq S
  BY <1>1, <1>2, EveryNumber
<1>4. Len(q) \in S
  BY <1>3
<1> QED
  BY <1>4 DEF S

\* Frames is the last sum.
LEMMA FramesIs == ASSUME NEW q \in Seq(Nat) PROVE \E f : UpTo(q, f) /\ Mixer!Frames(q) = f[Len(q)]
<1> DEFINE f == CHOOSE g : g = [i \in 0 .. Len(q) |-> IF i = 0 THEN 0 ELSE g[i - 1] + q[i]]
<1>1. f = [i \in 0 .. Len(q) |-> IF i = 0 THEN 0 ELSE f[i - 1] + q[i]]
  BY UpToExists DEF UpTo
<1>2. Mixer!Frames(q) = f[Len(q)]
  BY DEF Mixer!Frames
<1> HIDE DEF f
<1> QED
  BY <1>1, <1>2 DEF UpTo

\* The sums of two queues, one of which is a stretch of the other.
LEMMA UpToStretch ==
  ASSUME NEW q \in Seq(Nat), NEW r \in Seq(Nat), NEW c \in Nat, c + Len(r) <= Len(q),
         \A i \in 1 .. Len(r) : r[i] = q[i + c], NEW f, NEW g, UpTo(q, f), UpTo(r, g)
  PROVE  \A i \in 0 .. Len(r) : f[i + c] = g[i] + f[c]
<1> DEFINE S == {n \in Nat : n <= Len(r) => f[n + c] = g[n] + f[c]}
<1>1. /\ Len(q) \in Nat /\ Len(r) \in Nat
      /\ g[0] = 0 /\ \A i \in 1 .. Len(r) : g[i] = g[i - 1] + r[i]
      /\ \A i \in 0 .. Len(r) : g[i] \in Nat
      /\ \A i \in 1 .. Len(q) : f[i] = f[i - 1] + q[i]
      /\ \A i \in 0 .. Len(q) : f[i] \in Nat
      /\ \A i \in 1 .. Len(q) : q[i] \in Nat
  BY UpToIs
<1>2. 0 \in S
  BY <1>1
<1>3. ASSUME NEW n \in S \cap Nat PROVE n + 1 \in S
  <2>1. CASE n + 1 <= Len(r)
    <3>1. n + 1 \in 1 .. Len(r) /\ n \in 0 .. Len(r) /\ (n + 1) - 1 = n
      BY <1>1, <2>1
    <3>2. n + 1 + c \in 1 .. Len(q) /\ n + c \in 0 .. Len(q) /\ c \in 0 .. Len(q)
          /\ (n + 1 + c) - 1 = n + c
      BY <1>1, <2>1
    <3>3. f[n + 1 + c] = f[n + c] + q[n + 1 + c] /\ q[n + 1 + c] \in Nat /\ f[n + c] \in Nat
      BY <1>1, <3>2
    <3>4. g[n + 1] = g[n] + q[n + 1 + c]
      BY <1>1, <3>1
    <3>5. f[n + c] = g[n] + f[c]
      BY <3>1
    <3>6. g[n] \in Nat /\ f[c] \in Nat
      BY <1>1, <3>1, <3>2
    <3>7. f[n + 1 + c] = g[n + 1] + f[c]
      <4> DEFINE x == f[n + 1 + c]
                 y == f[n + c]
                 z == q[n + 1 + c]
      <4>1. x = y + z /\ g[n + 1] = g[n] + z /\ y = g[n] + f[c] /\ z \in Nat
        BY <3>3, <3>4, <3>5
      <4> HIDE DEF x, y, z
      <4>2. x = g[n + 1] + f[c]
        BY <3>6, <4>1
      <4> QED
        BY <4>2 DEF x
    <3> QED
      BY <3>7
  <2> QED
    BY <2>1
<1> HIDE DEF S
<1>4. Nat \subseteq S
  BY <1>2, <1>3, EveryNumber
<1> QED
  BY <1>1, <1>4 DEF S

\* The frames of an empty queue, of one with a buffer more, and of one with a
\* buffer less.
LEMMA FramesEmpty == Mixer!Frames(<<>>) = 0
<1>1. <<>> \in Seq(Nat) /\ Len(<<>>) = 0
  BY EmptySeq
<1>2. PICK f : UpTo(<<>>, f) /\ Mixer!Frames(<<>>) = f[Len(<<>>)]
  BY <1>1, FramesIs
<1> QED
  BY <1>1, <1>2, UpToIs

\* A buffer more in the queue.
LEMMA FramesAppend ==
  ASSUME NEW q \in Seq(Nat), NEW n \in Nat
  PROVE  Mixer!Frames(Append(q, n)) = Mixer!Frames(q) + n /\ Mixer!Frames(q) \in Nat
<1> DEFINE r == Append(q, n)
<1>1. /\ r \in Seq(Nat) /\ Len(q) \in Nat /\ Len(r) = Len(q) + 1 /\ r[Len(q) + 1] = n
      /\ \A i \in 1 .. Len(q) : q[i] = r[i]
  OBVIOUS
<1> HIDE DEF r
<1>2. PICK f : UpTo(r, f) /\ Mixer!Frames(r) = f[Len(r)]
  BY <1>1, FramesIs
<1>3. PICK g : UpTo(q, g) /\ Mixer!Frames(q) = g[Len(q)]
  BY FramesIs
<1>4. \A i \in 1 .. Len(q) : q[i] = r[i + 0]
  BY <1>1
<1>5. \A i \in 0 .. Len(q) : f[i + 0] = g[i] + f[0]
  BY <1>1, <1>2, <1>3, <1>4, UpToStretch
<1>6. f[0] = 0 /\ f[Len(r)] = f[Len(r) - 1] + r[Len(r)] /\ g[Len(q)] \in Nat
  BY <1>1, <1>2, <1>3, UpToIs
<1>7. f[Len(q)] = g[Len(q)]
  BY <1>1, <1>5, <1>6
<1>8. Mixer!Frames(r) = Mixer!Frames(q) + n /\ Mixer!Frames(q) \in Nat
  BY <1>1, <1>2, <1>3, <1>6, <1>7
<1> QED
  BY <1>8 DEF r

\* The first buffer of the queue less.
LEMMA FramesTail ==
  ASSUME NEW q \in Seq(Nat), q # <<>>
  PROVE  /\ Mixer!Frames(q) = Mixer!Frames(Tail(q)) + Head(q)
         /\ Mixer!Frames(Tail(q)) \in Nat /\ Head(q) \in Nat
<1> DEFINE r == Tail(q)
<1>1. /\ r \in Seq(Nat) /\ Len(q) \in Nat /\ Len(q) >= 1 /\ Len(r) = Len(q) - 1 /\ Head(q) = q[1]
      /\ Head(q) \in Nat /\ \A i \in 1 .. Len(r) : r[i] = q[i + 1]
  OBVIOUS
<1> HIDE DEF r
<1>2. PICK f : UpTo(q, f) /\ Mixer!Frames(q) = f[Len(q)]
  BY FramesIs
<1>3. PICK g : UpTo(r, g) /\ Mixer!Frames(r) = g[Len(r)]
  BY <1>1, FramesIs
<1>4. \A i \in 0 .. Len(r) : f[i + 1] = g[i] + f[1]
  <2>1. 1 \in Nat /\ 1 + Len(r) <= Len(q)
    BY <1>1
  <2>2. \A i \in 1 .. Len(r) : r[i] = q[i + 1]
    BY <1>1
  <2>3. UpTo(q, f) /\ UpTo(r, g) /\ r \in Seq(Nat)
    BY <1>1, <1>2, <1>3
  <2> QED
    BY <2>1, <2>2, <2>3, UpToStretch
<1>5. f[0] = 0 /\ g[Len(r)] \in Nat
  BY <1>1, <1>2, <1>3, UpToIs
<1>6. f[1] = f[0] + q[1]
  <2>1. 1 \in 1 .. Len(q) /\ 1 - 1 = 0
    BY <1>1
  <2>2. \A i \in 1 .. Len(q) : f[i] = f[i - 1] + q[i]
    BY <1>2, UpToIs
  <2>3. \A i \in 1 .. Len(q) : i = 1 => f[i] = f[0] + q[i]
    BY <2>1, <2>2
  <2> QED
    BY <2>1, <2>3
<1>7. f[Len(q)] = g[Len(r)] + f[1]
  BY <1>1, <1>4
<1>8. Mixer!Frames(q) = Mixer!Frames(r) + Head(q) /\ Mixer!Frames(r) \in Nat
  BY <1>1, <1>2, <1>3, <1>5, <1>6, <1>7
<1> QED
  BY <1>1, <1>8 DEF r

-----------------------------------------------------------------------------
(***************************************************************************)
(* The mixer.                                                              *)
(***************************************************************************)
\* What a queue, its front and the count say of each other.
Counts(q, f, c, wide) ==
  /\ Mixer!Frames(q) - f <= c /\ (~wide => c = Mixer!Frames(q) - f)
  /\ f < IF q = <<>> THEN 1 ELSE Head(q)

MixerInv ==
  /\ Mixer!TypeOK
  /\ \A s \in Voice : Counts(buffers[s], front[s], streamCached[s], s \in Wide)
  /\ left \cup current \subseteq streams
  /\ \A s \in streams : memory[s] \in {"live", "stopped"}
  /\ mixer = "idle" => left = {} /\ current = {}

LEMMA ChunksNat == \A q \in Seq(Chunks) : q \in Seq(Nat)
<1> TAKE q \in Seq(Chunks)
<1>1. Len(q) \in Nat /\ q = [i \in 1 .. Len(q) |-> q[i]] /\ \A i \in 1 .. Len(q) : q[i] \in Nat
  BY MixerAssumption
<1> QED
  BY <1>1

\* The mixer: the invariant holds at the start, in every step, and gives
\* what is checked.
LEMMA MixerStart == ASSUME Mixer!Init PROVE MixerInv
<1>1. Mixer!Frames(<<>>) = 0 /\ <<>> \in Seq(Chunks)
  BY FramesEmpty, EmptySeq
<1>2. Mixer!TypeOK
  BY <1>1, MixerAssumption DEF Mixer!Init, Mixer!TypeOK
<1>3. \A s \in Voice : Counts(buffers[s], front[s], streamCached[s], s \in Wide)
  BY <1>1 DEF Mixer!Init, Counts
<1> QED
  BY <1>2, <1>3 DEF Mixer!Init, MixerInv

\* A queue with a buffer more, and once round the loop of FillBuffer.
LEMMA CountsAppend ==
  ASSUME NEW q \in Seq(Nat), NEW f \in Nat, NEW c \in Nat, NEW s,
         Counts(q, f, c, s \in Wide), NEW n \in Nat \ {0}, NEW d, d = IF s \in Wide THEN 2 * n ELSE n
  PROVE  Counts(Append(q, n), f, c + d, s \in Wide) /\ c + d \in Nat
<1> DEFINE a == Mixer!Frames(q)
           b == Mixer!Frames(Append(q, n))
<1>1. b = a + n /\ a \in Nat
  BY FramesAppend
<1>2. f < IF q = <<>> THEN 1 ELSE Head(q)
  BY DEF Counts
<1>3. f < IF Append(q, n) = <<>> THEN 1 ELSE Head(Append(q, n))
  <2>1. Append(q, n) # <<>>
    OBVIOUS
  <2>2. CASE q = <<>>
    <3>1. Head(Append(q, n)) = n
      BY <2>2
    <3> QED
      BY <1>2, <2>1, <2>2, <3>1
  <2>3. CASE q # <<>>
    <3>1. Head(Append(q, n)) = Head(q)
      BY <2>3
    <3> QED
      BY <1>2, <2>1, <2>3, <3>1
  <2> QED
    BY <2>2, <2>3
<1>4. a - f <= c /\ (s \notin Wide => c = a - f)
  BY DEF Counts
<1> HIDE DEF a, b
<1>5. b - f <= c + d /\ (s \notin Wide => c + d = b - f) /\ c + d \in Nat
  BY <1>1, <1>4
<1> QED
  BY <1>3, <1>5 DEF Counts, a, b

\* What a round of the loop takes from a buffer is counted.
LEMMA CountsMix ==
  ASSUME NEW q \in Seq(Nat), q # <<>>, NEW f \in Nat, NEW c \in Nat, NEW s,
         \A i \in 1 .. Len(q) : q[i] > 0,
         Counts(q, f, c, s \in Wide), NEW w \in Nat, NEW n,
         n = IF Head(q) - f < w THEN Head(q) - f ELSE w
  PROVE  /\ n \in Nat /\ n <= w /\ c - n \in Nat
         /\ f + n >= Head(q) => Counts(Tail(q), 0, c - n, s \in Wide)
         /\ ~(f + n >= Head(q)) => Counts(q, f + n, c - n, s \in Wide)
<1> DEFINE a == Mixer!Frames(q)
           b == Mixer!Frames(Tail(q))
           h == Head(q)
<1>1. a = b + h /\ b \in Nat /\ h \in Nat
  BY FramesTail
<1>2. f < h /\ a - f <= c /\ (s \notin Wide => c = a - f)
  BY DEF Counts
<1>3. 0 < IF Tail(q) = <<>> THEN 1 ELSE Head(Tail(q))
  <2>1. CASE Tail(q) # <<>>
    <3>1. Head(Tail(q)) = q[2] /\ 2 \in 1 .. Len(q)
      BY <2>1
    <3> QED
      BY <2>1, <3>1
  <2> QED
    BY <2>1
<1> HIDE DEF a, b, h
<1>4. n = IF h - f < w THEN h - f ELSE w
  BY DEF h
<1>5. n \in Nat /\ n <= w /\ c - n \in Nat /\ n <= h - f
  BY <1>1, <1>2, <1>4
<1>6. f + n >= h => b - 0 <= c - n /\ (s \notin Wide => c - n = b - 0)
  BY <1>1, <1>2, <1>5
<1>7. ~(f + n >= h) => a - (f + n) <= c - n /\ (s \notin Wide => c - n = a - (f + n)) /\ f + n < h
  <2>1. a \in Nat
    BY <1>1
  <2>2. a - (f + n) <= c - n /\ (c = a - f => c - n = a - (f + n))
    BY <1>2, <1>5, <2>1
  <2>3. ~(f + n >= h) => f + n < h
    BY <1>1, <1>5
  <2> QED
    BY <1>2, <2>2, <2>3
<1>8. f + n >= h => Counts(Tail(q), 0, c - n, s \in Wide)
  BY <1>3, <1>6 DEF Counts, b
<1>9. ~(f + n >= h) => Counts(q, f + n, c - n, s \in Wide)
  BY <1>7 DEF Counts, a, h
<1> QED
  BY <1>5, <1>8, <1>9 DEF h

LEMMA MixerStays == ASSUME MixerInv, Mixer!Next PROVE MixerInv'
<1> USE DEF Mixer!vars, Mixer!countVars, Mixer!callVars, Mixer!lifeVars
<1> DEFINE Counted(s) == Counts(buffers[s], front[s], streamCached[s], s \in Wide)
<1>0. /\ Mixer!TypeOK /\ \A s \in Voice : Counted(s)
      /\ left \cup current \subseteq streams
      /\ \A s \in streams : memory[s] \in {"live", "stopped"}
      /\ mixer = "idle" => left = {} /\ current = {}
  BY DEF MixerInv
<1> HIDE DEF Counted
<1> DEFINE Rest == /\ left' \cup current' \subseteq streams'
                   /\ \A s \in streams' : memory'[s] \in {"live", "stopped"}
                   /\ mixer' = "idle" => left' = {} /\ current' = {}
<1>a. ASSUME Mixer!TypeOK', Rest, \A s \in Voice : Counted(s)' PROVE MixerInv'
  BY <1>a DEF MixerInv, Counted
<1>b. ASSUME UNCHANGED <<buffers, front, streamCached>> PROVE \A s \in Voice : Counted(s)'
  BY <1>0, <1>b DEF Counted
<1>1. ASSUME NEW s \in Voice, Mixer!CreateStream(s) PROVE MixerInv'
  <2>1. Mixer!TypeOK'
    BY <1>0, <1>1 DEF Mixer!CreateStream, Mixer!TypeOK
  <2>2. Rest
    BY <1>0, <1>1 DEF Mixer!CreateStream, Mixer!TypeOK
  <2> QED
    BY <1>a, <1>b, <1>1, <2>1, <2>2 DEF Mixer!CreateStream
<1>2. ASSUME NEW s \in Voice, Mixer!Play(s) \/ Mixer!Pause(s) \/ Mixer!ReleaseStop(s) PROVE MixerInv'
  <2>1. Mixer!TypeOK'
    BY <1>0, <1>2 DEF Mixer!Play, Mixer!Pause, Mixer!ReleaseStop, Mixer!TypeOK
  <2>2. Rest
    BY <1>0, <1>2 DEF Mixer!Play, Mixer!Pause, Mixer!ReleaseStop, Mixer!TypeOK
  <2> QED
    BY <1>a, <1>b, <1>2, <2>1, <2>2 DEF Mixer!Play, Mixer!Pause, Mixer!ReleaseStop
<1>3. ASSUME NEW s \in Voice, Mixer!ReleaseStream(s) \/ Mixer!Free(s) PROVE MixerInv'
  <2>1. Mixer!TypeOK'
    BY <1>0, <1>3 DEF Mixer!ReleaseStream, Mixer!Free, Mixer!TypeOK
  <2>2. Rest
    BY <1>0, <1>3 DEF Mixer!ReleaseStream, Mixer!StreamsFree, Mixer!Free, Mixer!TypeOK
  <2> QED
    BY <1>a, <1>b, <1>3, <2>1, <2>2 DEF Mixer!ReleaseStream, Mixer!Free
<1>4. ASSUME NEW s \in Voice, Mixer!Reset(s) PROVE MixerInv'
  <2>1. <<>> \in Seq(Chunks) /\ Mixer!Frames(<<>>) = 0
    BY EmptySeq, FramesEmpty
  <2>2. Mixer!TypeOK'
    BY <1>0, <1>4, <2>1 DEF Mixer!Reset, Mixer!FrontReset, Mixer!TypeOK
  <2>3. Rest
    BY <1>0, <1>4 DEF Mixer!Reset
  <2>4. \A t \in Voice : Counted(t)'
    <3> TAKE t \in Voice
    <3>1. CASE t = s
      <4>1. buffers'[t] = <<>> /\ front'[t] = 0 /\ streamCached'[t] = 0
        BY <1>0, <1>4, <3>1 DEF Mixer!Reset, Mixer!FrontReset, Mixer!TypeOK
      <4> QED
        BY <2>1, <4>1 DEF Counted, Counts
    <3>2. CASE t # s
      BY <1>0, <1>4, <3>2 DEF Mixer!Reset, Mixer!TypeOK, Counted
    <3> QED
      BY <3>1, <3>2
  <2> QED
    BY <1>a, <2>2, <2>3, <2>4
<1>5. ASSUME NEW s \in Voice, NEW n \in Chunks, Mixer!AppendBuffer(s, n) PROVE MixerInv'
  <2> DEFINE d == IF s \in Wide THEN 2 * n ELSE n
  <2>1. /\ buffers[s] \in Seq(Chunks) /\ buffers[s] \in Seq(Nat) /\ front[s] \in Nat
        /\ streamCached[s] \in Nat /\ n \in Nat \ {0}
    BY <1>0, ChunksNat, MixerAssumption DEF Mixer!TypeOK
  <2>2. /\ buffers' = [buffers EXCEPT ![s] = Append(buffers[s], n)]
        /\ streamCached' = [streamCached EXCEPT ![s] = streamCached[s] + d]
        /\ UNCHANGED <<streams, memory, mixed, front, streamSent, mixer, left, current, wanted>>
    BY <1>5 DEF Mixer!AppendBuffer, Mixer!Counted
  <2>3. Counted(s)
    BY <1>0
  <2>4. /\ Counts(Append(buffers[s], n), front[s], streamCached[s] + d, s \in Wide)
        /\ streamCached[s] + d \in Nat
    <3>1. d = (IF s \in Wide THEN 2 * n ELSE n)
      OBVIOUS
    <3>2. Counts(buffers[s], front[s], streamCached[s], s \in Wide)
      BY <2>3 DEF Counted
    <3> HIDE DEF d
    <3> QED
      BY <2>1, <3>1, <3>2, CountsAppend
  <2> HIDE DEF d
  <2>5. Append(buffers[s], n) \in Seq(Chunks)
    BY <2>1
  <2>6. Mixer!TypeOK'
    BY <1>0, <2>2, <2>4, <2>5 DEF Mixer!TypeOK
  <2>7. \A t \in Voice : Counted(t)'
    <3> TAKE t \in Voice
    <3>1. CASE t = s
      <4>1. buffers'[t] = Append(buffers[s], n) /\ streamCached'[t] = streamCached[s] + d
        BY <1>0, <2>2, <3>1 DEF Mixer!TypeOK
      <4> QED
        BY <2>2, <2>4, <3>1, <4>1 DEF Counted
    <3>2. CASE t # s
      <4>1. buffers'[t] = buffers[t] /\ streamCached'[t] = streamCached[t]
        BY <1>0, <2>2, <3>2 DEF Mixer!TypeOK
      <4> QED
        BY <1>0, <2>2, <4>1 DEF Counted
    <3> QED
      BY <3>1, <3>2
  <2>8. Rest
    BY <1>0, <2>2
  <2> QED
    BY <1>a, <2>6, <2>7, <2>8
<1>6. CASE Mixer!CallbackBegins \/ Mixer!FillBegins \/ Mixer!CallbackEnds
  <2>1. Mixer!TypeOK'
    BY <1>0, <1>6, MixerAssumption
       DEF Mixer!CallbackBegins, Mixer!FillBegins, Mixer!CallbackEnds, Mixer!TypeOK
  <2>2. Rest
    BY <1>0, <1>6 DEF Mixer!CallbackBegins, Mixer!FillBegins, Mixer!CallbackEnds
  <2> QED
    BY <1>a, <1>b, <1>6, <2>1, <2>2 DEF Mixer!CallbackBegins, Mixer!FillBegins, Mixer!CallbackEnds
<1>7. ASSUME NEW s \in Voice, Mixer!SeePlaying(s) \/ Mixer!FillEnds(s) PROVE MixerInv'
  <2>1. Mixer!TypeOK'
    BY <1>0, <1>7, MixerAssumption DEF Mixer!SeePlaying, Mixer!FillEnds, Mixer!TypeOK
  <2>2. Rest
    BY <1>0, <1>7 DEF Mixer!SeePlaying, Mixer!FillEnds
  <2> QED
    BY <1>a, <1>b, <1>7, <2>1, <2>2 DEF Mixer!SeePlaying, Mixer!FillEnds
<1>8. ASSUME NEW s \in Voice, Mixer!Mix(s) PROVE MixerInv'
  <2> DEFINE q == buffers[s]
             f == front[s]
             c == streamCached[s]
             rest == Head(q) - f
             n == IF rest < wanted THEN rest ELSE wanted
             used == f + n >= Head(q)
             f2 == IF used THEN 0 ELSE f + n
             q2 == IF used THEN Tail(q) ELSE q
  <2>1. /\ q \in Seq(Chunks) /\ q \in Seq(Nat) /\ f \in Nat /\ c \in Nat /\ wanted \in 0 .. Length
        /\ wanted \in Nat /\ streamSent[s] \in Nat
    BY <1>0, ChunksNat, MixerAssumption DEF Mixer!TypeOK
  <2>2. \A i \in 1 .. Len(q) : q[i] > 0
    BY <2>1, MixerAssumption
  <2>3. /\ q # <<>>
        /\ streamSent' = [streamSent EXCEPT ![s] = streamSent[s] + n]
        /\ streamCached' = [streamCached EXCEPT ![s] = c - n]
        /\ wanted' = wanted - n
        /\ UNCHANGED <<streams, memory, mixed, mixer, left, current>>
    BY <1>8 DEF Mixer!Mix
  <2>4. front' = [front EXCEPT ![s] = f2] /\ buffers' = [buffers EXCEPT ![s] = q2]
    <3>1. CASE used
      BY <1>8, <3>1 DEF Mixer!Mix, Mixer!UsedUp
    <3>2. CASE ~used
      <4>1. buffers' = buffers /\ front' = [front EXCEPT ![s] = f2]
        BY <1>8, <3>2 DEF Mixer!Mix, Mixer!UsedUp
      <4>2. [buffers EXCEPT ![s] = buffers[s]] = buffers
        BY <1>0 DEF Mixer!TypeOK
      <4> QED
        BY <3>2, <4>1, <4>2
    <3> QED
      BY <3>1, <3>2
  <2>5. Counts(q, f, c, s \in Wide)
    BY <1>0 DEF Counted
  <2>6. /\ n \in Nat /\ n <= wanted /\ c - n \in Nat
        /\ used => Counts(Tail(q), 0, c - n, s \in Wide)
        /\ ~used => Counts(q, f + n, c - n, s \in Wide)
    <3>1. n = (IF Head(q) - f < wanted THEN Head(q) - f ELSE wanted)
      OBVIOUS
    <3>2. used <=> f + n >= Head(q)
      OBVIOUS
    <3>3. q # <<>>
      BY <2>3
    <3> HIDE DEF q, f, c, n, used
    <3>4. /\ n \in Nat /\ n <= wanted /\ c - n \in Nat
          /\ f + n >= Head(q) => Counts(Tail(q), 0, c - n, s \in Wide)
          /\ ~(f + n >= Head(q)) => Counts(q, f + n, c - n, s \in Wide)
      <4>1. \A i \in 1 .. Len(q) : q[i] > 0
        BY <2>2
      <4> HIDE <2>2
      <4> QED
        BY <2>1, <2>5, <3>1, <3>3, <4>1, CountsMix
    <3> QED
      BY <3>2, <3>4
  <2>7. Counts(q2, f2, c - n, s \in Wide)
    BY <2>6
  <2>8. q2 \in Seq(Chunks) /\ f2 \in Nat /\ wanted' \in 0 .. Length /\ streamSent[s] + n \in Nat
    <3>1. Tail(q) \in Seq(Chunks)
      BY <2>1, <2>3
    <3>2. f2 \in Nat
      BY <2>1, <2>6
    <3>3. n \in Nat /\ n <= wanted
      BY <2>6
    <3>4. wanted' = wanted - n
      BY <2>3
    <3> HIDE DEF n
    <3>5. wanted' \in 0 .. Length
      BY <2>1, <3>3, <3>4, MixerAssumption
    <3>6. streamSent[s] + n \in Nat
      BY <2>1, <3>3
    <3> QED
      BY <2>1, <3>1, <3>2, <3>5, <3>6
  <2>9. c - n \in Nat
    BY <2>6
  <2> HIDE DEF q, f, c, n, used, f2, q2
  <2>10. Mixer!TypeOK'
    BY <1>0, <2>3, <2>4, <2>8, <2>9 DEF Mixer!TypeOK
  <2>11. \A t \in Voice : Counted(t)'
    <3> TAKE t \in Voice
    <3>1. CASE t = s
      <4>1. buffers'[t] = q2 /\ front'[t] = f2 /\ streamCached'[t] = c - n
        BY <1>0, <2>3, <2>4, <3>1 DEF Mixer!TypeOK
      <4> QED
        BY <2>7, <3>1, <4>1 DEF Counted
    <3>2. CASE t # s
      <4>1. buffers'[t] = buffers[t] /\ front'[t] = front[t] /\ streamCached'[t] = streamCached[t]
        BY <1>0, <2>3, <2>4, <3>2 DEF Mixer!TypeOK
      <4> QED
        BY <1>0, <4>1 DEF Counted
    <3> QED
      BY <3>1, <3>2
  <2>12. Rest
    BY <1>0, <2>3
  <2> QED
    BY <1>a, <2>10, <2>11, <2>12
<1> QED
  BY <1>1, <1>2, <1>3, <1>4, <1>5, <1>6, <1>7, <1>8
     DEF Mixer!Next, Mixer!Callback, Mixer!Owner

LEMMA MixerHolds == ASSUME MixerInv PROVE Mixer!TypeOK /\ Mixer!PositionExact /\ Mixer!OnlyLive
<1>1. \A s \in Voice : Counts(buffers[s], front[s], streamCached[s], s \in Wide)
  BY DEF MixerInv
<1>2. Mixer!PositionExact
  BY <1>1 DEF Counts, Mixer!PositionExact
<1> QED
  BY <1>2 DEF MixerInv, Mixer!OnlyLive

-----------------------------------------------------------------------------
(***************************************************************************)
(* The stream of a sound.                                                  *)
(***************************************************************************)
\* Two volumes in one: no louder than either, and with one of them full the
\* other, rounded down to tens.
Volume == 0 .. Device!Full

Tenth == Device!Full \div 10

\* The scale of the volumes.
LEMMA FullIs == Device!Full \in Nat /\ Tenth \in Nat /\ 10 * Tenth = Device!Full
  BY SMT DEF Device!Full, Tenth

LEMMA VolumeIs ==
  /\ \A v \in Volume : v \in Nat /\ v <= Device!Full
  /\ \A v \in Nat : v <= Device!Full => v \in Volume
  BY FullIs DEF Volume

\* Rounding down to tens.
LEMMA TensBelow == ASSUME NEW a \in Volume PROVE a \div 10 \in 0 .. Tenth /\ 10 * (a \div 10) <= a
                                                 /\ a - 10 < 10 * (a \div 10)
<1>1. a \in Nat /\ a <= 10 * Tenth /\ Tenth \in Nat
  BY VolumeIs, FullIs
<1> QED
  BY SMT, <1>1

\* A product of a number and of part of the scale.
LEMMA ProductBounded ==
  ASSUME NEW N \in Nat, NEW x \in 0 .. N, NEW y \in 0 .. N
  PROVE  x * y \in Nat /\ x * y <= x * N /\ x * y <= y * N
<1>1. x \in Nat /\ y \in Nat /\ x <= N /\ y <= N
  OBVIOUS
<1>2. x * y \in Nat
  BY <1>1
<1>3. N - y \in Nat /\ N - x \in Nat
  BY <1>1
<1>4. x * (N - y) \in Nat /\ y * (N - x) \in Nat
  BY <1>1, <1>3
<1>5. x * (N - y) = x * N - x * y /\ y * (N - x) = y * N - x * y
  BY <1>1
<1> QED
  BY <1>2, <1>4, <1>5

\* A thousandth of what was multiplied by a tenth of the scale.
LEMMA ThousandsBelow ==
  ASSUME NEW n \in Nat, NEW x \in Nat
  PROVE  /\ n \div 1000 \in Nat /\ (n <= x * Tenth => n \div 1000 <= 10 * x)
         /\ (x * Tenth) \div 1000 = 10 * x /\ (Tenth * x) \div 1000 = 10 * x
<1>1. n <= x * 10000 => n \div 1000 <= 10 * x
  BY SMT
<1>2. (x * 10000) \div 1000 = 10 * x /\ (10000 * x) \div 1000 = 10 * x
  BY SMT
<1>3. Tenth = 10000
  BY SMT DEF Tenth, Device!Full
<1> QED
  BY SMT, <1>1, <1>2, <1>3

\* Two volumes in one are no louder than either.
LEMMA ScaledBounded ==
  ASSUME NEW a \in Volume, NEW b \in Volume
  PROVE  Device!Scaled(a, b) \in Volume /\ Device!Scaled(a, b) <= a /\ Device!Scaled(a, b) <= b
<1> DEFINE x == a \div 10
           y == b \div 10
<1>1. x \in 0 .. Tenth /\ y \in 0 .. Tenth /\ 10 * x <= a /\ 10 * y <= b /\ Tenth \in Nat
  BY TensBelow, FullIs
<1> HIDE DEF x, y
<1> DEFINE n == x * y
<1>2. x \in Nat /\ y \in Nat /\ n \in Nat /\ n <= x * Tenth /\ n <= y * Tenth
  BY <1>1, ProductBounded
<1> HIDE DEF n
<1> DEFINE m == n \div 1000
<1>3. m \in Nat /\ m <= 10 * x /\ m <= 10 * y
  BY <1>2, ThousandsBelow
<1>4. Device!Scaled(a, b) = m
  BY DEF Device!Scaled, n, x, y
<1> HIDE DEF m
<1>5. m <= a /\ m <= b /\ a <= Device!Full
  BY <1>1, <1>2, <1>3, VolumeIs, FullIs
<1>6. m <= Device!Full
  BY <1>3, <1>5, VolumeIs, FullIs
<1> QED
  BY <1>3, <1>4, <1>5, <1>6, VolumeIs

\* With one volume full the other is rounded down to tens.
LEMMA ScaledFull ==
  ASSUME NEW a \in Volume
  PROVE  /\ Device!Scaled(a, Device!Full) = 10 * (a \div 10)
         /\ Device!Scaled(Device!Full, a) = 10 * (a \div 10)
<1> DEFINE x == a \div 10
<1>1. x \in Nat
  BY TensBelow, FullIs
<1> HIDE DEF x
<1>2. (x * Tenth) \div 1000 = 10 * x /\ (Tenth * x) \div 1000 = 10 * x
  BY <1>1, ThousandsBelow
<1> QED
  BY <1>2 DEF Device!Scaled, Tenth, x

\* A volume in tens is left alone by a full one.
LEMMA ScaledTens ==
  ASSUME NEW x \in 0 .. Tenth PROVE 10 * x \in Volume /\ Device!Scaled(10 * x, Device!Full) = 10 * x
<1>1. x \in Nat /\ 10 * x \in Nat /\ 10 * x <= Device!Full
  BY FullIs
<1>2. (10 * x) \div 10 = x
  BY <1>1
<1>3. 10 * x \in Volume
  BY <1>1, VolumeIs
<1> QED
  BY <1>2, <1>3, ScaledFull

\* What the stream is given follows each of the three volumes.
LEMMA ProductFollows ==
  ASSUME NEW v \in Volume, NEW w \in Volume, NEW g \in Volume
  PROVE  /\ Device!Product(v, w, g) \in Volume
         /\ Device!Product(v, w, g) <= v /\ Device!Product(v, w, g) <= w /\ Device!Product(v, w, g) <= g
         /\ w = Device!Full /\ g = Device!Full => Device!Product(v, w, g) > v - 10
         /\ g = Device!Full /\ v = Device!Full => Device!Product(v, w, g) > w - 10
         /\ v = Device!Full /\ w = Device!Full => Device!Product(v, w, g) > g - 10
<1> DEFINE p == Device!Scaled(v, w)
           q == Device!Scaled(p, g)
           r == Device!Scaled(q, Device!Full)
<1>1. p \in Volume /\ p <= v /\ p <= w
  BY ScaledBounded
<1> HIDE DEF p
<1>2. q \in Volume /\ q <= p /\ q <= g
  BY <1>1, ScaledBounded
<1> HIDE DEF q
<1>3. Device!Full \in Volume
  BY FullIs DEF Volume
<1>4. r \in Volume /\ r <= q
  BY <1>2, <1>3, ScaledBounded
<1>5. r = Device!Product(v, w, g)
  BY SMT DEF Device!Product, p, q
<1> HIDE DEF r
<1>6. ASSUME w = Device!Full, g = Device!Full PROVE r > v - 10
  <2> DEFINE x == v \div 10
  <2>1. x \in 0 .. Tenth /\ v - 10 < 10 * x
    BY TensBelow
  <2>2. p = 10 * x
    BY <1>6, ScaledFull DEF p
  <2> HIDE DEF x
  <2>3. q = 10 * x
    BY <1>6, <2>1, <2>2, ScaledTens DEF q
  <2>4. r = 10 * x
    BY <2>1, <2>3, ScaledTens DEF r
  <2> QED
    BY <2>1, <2>4, VolumeIs
<1>7. ASSUME v = Device!Full, g = Device!Full PROVE r > w - 10
  <2> DEFINE x == w \div 10
  <2>1. x \in 0 .. Tenth /\ w - 10 < 10 * x
    BY TensBelow
  <2>2. p = 10 * x
    BY <1>7, ScaledFull DEF p
  <2> HIDE DEF x
  <2>3. q = 10 * x
    BY <1>7, <2>1, <2>2, ScaledTens DEF q
  <2>4. r = 10 * x
    BY <2>1, <2>3, ScaledTens DEF r
  <2> QED
    BY <2>1, <2>4, VolumeIs
<1>8. ASSUME v = Device!Full, w = Device!Full PROVE r > g - 10
  <2> DEFINE x == g \div 10
  <2>1. x \in 0 .. Tenth /\ g - 10 < 10 * x
    BY TensBelow
  <2>2. p = Device!Full
    <3>1. Tenth \in 0 .. Tenth /\ 10 * Tenth = Device!Full
      BY FullIs
    <3> QED
      BY <1>8, <3>1, ScaledTens DEF p
  <2>3. q = 10 * x
    BY <2>2, ScaledFull DEF q
  <2> HIDE DEF x
  <2>4. r = 10 * x
    BY <2>1, <2>3, ScaledTens DEF r
  <2> QED
    BY <2>1, <2>4, VolumeIs
<1>9. r <= v /\ r <= w /\ r <= g
  BY <1>1, <1>2, <1>4, VolumeIs
<1> QED
  BY <1>4, <1>5, <1>6, <1>7, <1>8, <1>9

\* A stream is there with buffers of the format it remembers, and has the
\* volume of the script; who plays has opened that format.
Pan == -Device!Full .. Device!Full
DeviceTypes ==
  /\ {input, created, device, deviceL1, l2, vis} \subseteq Device!Format
  /\ volume \in Volume /\ volume2 \in Volume /\ globalVolume \in Volume /\ deviceVolume \in Volume
  /\ pan \in Pan /\ devicePan \in Pan
DeviceFlags == useVis \in BOOLEAN /\ opened \in BOOLEAN /\ started \in BOOLEAN /\ failed \in BOOLEAN
DeviceMade == device # "none" => /\ device = created /\ deviceL1 = created /\ l2 = created
                                 /\ useVis => vis = created
DevicePlays == started /\ ~failed => device # "none" /\ created = input
DeviceLoud == device # "none" => deviceVolume = Device!Product(volume, volume2, globalVolume)
DeviceInv == DeviceTypes /\ DeviceFlags /\ DeviceMade /\ DevicePlays /\ DeviceLoud

\* The device: the invariant holds at the start, in every step, and gives
\* what is checked.
LEMMA DeviceStart == ASSUME Device!Init PROVE DeviceInv
<1>1. Device!None = "none"
  BY DEF Device!None
<1>2. volume \in Volume /\ volume2 \in Volume /\ globalVolume \in Volume /\ deviceVolume \in Volume
  BY VolumeIs, FullIs DEF Device!Init
<1>3. pan \in Pan /\ devicePan \in Pan
  BY FullIs DEF Device!Init, Pan
<1>4. {input, created, device, deviceL1, l2, vis} \subseteq Device!Format /\ DeviceFlags
      /\ device = "none" /\ started = FALSE
  BY <1>1 DEF Device!Init, DeviceFlags, Device!Format
<1> QED
  BY <1>2, <1>3, <1>4 DEF DeviceInv, DeviceTypes, DeviceMade, DevicePlays, DeviceLoud

\* The volume a new or changed stream gets.
LEMMA DeviceSet ==
  ASSUME NEW d, NEW v \in Volume, NEW w \in Volume, NEW g \in Volume, deviceVolume \in Volume,
         Device!SetVolumeToSoundBuffer(d, v, w, g)
  PROVE  deviceVolume' \in Volume /\ (d # "none" => deviceVolume' = Device!Product(v, w, g))
  BY ProductFollows DEF Device!SetVolumeToSoundBuffer, Device!None

\* What a property of the script holds is within its range.
LEMMA DeviceHeld ==
  ASSUME NEW x \in Int PROVE Device!Held(0, x) \in Volume /\ Device!Held(-Device!Full, x) \in Pan
  BY FullIs DEF Device!Held, Volume, Pan

\* What changes the formats leaves the volumes of the script alone, and the
\* other way round.
LEMMA DeviceFormats ==
  ASSUME DeviceInv,
         \/ Device!Play \/ Device!Stop \/ Device!DestroySoundBuffer
         \/ \E f \in Formats : Device!Open(f)
         \/ \E b \in BOOLEAN : Device!SetUseVisBuffer(b)
  PROVE  /\ {input, created, device, deviceL1, l2, vis}' \subseteq Device!Format /\ DeviceFlags'
         /\ DeviceMade' /\ DevicePlays'
<1> USE DEF Device!None
<1>1. /\ {input, created, device, deviceL1, l2, vis} \subseteq Device!Format /\ DeviceFlags
      /\ DeviceMade /\ DevicePlays /\ "none" \in Device!Format /\ Formats \subseteq Device!Format
  BY DEF DeviceInv, DeviceTypes, Device!Format
<1>2. CASE Device!Play /\ Device!CreateThrows
  BY <1>1, <1>2 DEF DeviceFlags, DeviceMade, DevicePlays, Device!Play, Device!CreateThrows
<1>3. CASE Device!Play /\ Device!CreateSoundBuffer
  <2>1. /\ input' = input /\ useVis' = useVis /\ opened' = opened /\ created' = input
        /\ started' = TRUE /\ failed' = (device' = "none")
        /\ \/ UNCHANGED <<device, deviceL1, l2, vis>> /\ created = input
           \/ /\ device' \in {"none", input} /\ deviceL1' = input /\ l2' = input
              /\ vis' = IF useVis THEN input ELSE vis
    BY <1>3 DEF Device!CreateSoundBuffer, Device!SameFormat, Device!RemadeVis
  <2> QED
    BY <1>1, <2>1 DEF DeviceFlags, DeviceMade, DevicePlays
<1>4. CASE Device!Stop
  BY <1>1, <1>4 DEF DeviceFlags, DeviceMade, DevicePlays, Device!Stop, Device!formatVars
<1>5. CASE Device!DestroySoundBuffer
  BY <1>1, <1>5 DEF DeviceFlags, DeviceMade, DevicePlays, Device!DestroySoundBuffer
<1>6. ASSUME NEW f \in Formats, Device!Open(f)
      PROVE  /\ {input, created, device, deviceL1, l2, vis}' \subseteq Device!Format /\ DeviceFlags'
             /\ DeviceMade' /\ DevicePlays'
  BY <1>1, <1>6 DEF DeviceFlags, DeviceMade, DevicePlays, Device!Open
<1>7. ASSUME NEW b \in BOOLEAN, Device!SetUseVisBuffer(b)
      PROVE  /\ {input, created, device, deviceL1, l2, vis}' \subseteq Device!Format /\ DeviceFlags'
             /\ DeviceMade' /\ DevicePlays'
  BY <1>1, <1>7 DEF DeviceFlags, DeviceMade, DevicePlays, Device!SetUseVisBuffer, Device!playVars
<1> QED
  BY <1>2, <1>3, <1>4, <1>5, <1>6, <1>7 DEF Device!Play

\* The volumes of the script and of the stream.
DeviceVolumes ==
  /\ volume \in Volume /\ volume2 \in Volume /\ globalVolume \in Volume /\ deviceVolume \in Volume
  /\ pan \in Pan /\ devicePan \in Pan /\ DeviceLoud

\* The steps that make, replace or lose a stream keep its volume.
LEMMA DeviceSounds ==
  ASSUME DeviceInv,
         \/ Device!Play \/ Device!Stop \/ Device!DestroySoundBuffer
         \/ \E f \in Formats : Device!Open(f)
         \/ \E b \in BOOLEAN : Device!SetUseVisBuffer(b)
  PROVE  DeviceVolumes'
<1>1. DeviceVolumes
  BY DEF DeviceInv, DeviceTypes, DeviceVolumes
<1>2. CASE Device!Play /\ Device!CreateThrows
  BY <1>1, <1>2 DEF DeviceVolumes, DeviceLoud, Device!Play, Device!CreateThrows, Device!None,
    Device!scriptVars, Device!mixVars
<1>3. CASE Device!Play /\ Device!CreateSoundBuffer
  <2>1. /\ Device!SetVolumeToSoundBuffer(device', volume, volume2, globalVolume)
        /\ UNCHANGED <<volume, volume2, globalVolume, pan>> /\ devicePan' \in {devicePan, 0}
    BY <1>3 DEF Device!Play, Device!CreateSoundBuffer, Device!scriptVars
  <2>2. 0 \in Pan
    BY FullIs DEF Pan
  <2>3. deviceVolume' \in Volume
        /\ (device' # "none" => deviceVolume' = Device!Product(volume, volume2, globalVolume))
    BY <1>1, <2>1, DeviceSet DEF DeviceVolumes
  <2> QED
    BY <1>1, <2>1, <2>2, <2>3 DEF DeviceVolumes, DeviceLoud
<1>4. ASSUME UNCHANGED <<volume, volume2, globalVolume, pan, deviceVolume, devicePan>>,
             device' \in {device, "none"}
      PROVE  DeviceVolumes'
  BY <1>1, <1>4 DEF DeviceVolumes, DeviceLoud
<1> QED
  BY <1>2, <1>3, <1>4 DEF Device!Play, Device!Stop, Device!DestroySoundBuffer, Device!Open,
    Device!SetUseVisBuffer, Device!formatVars, Device!scriptVars, Device!mixVars, Device!None

\* The volume of the script is told to the stream.
LEMMA DeviceTold ==
  ASSUME DeviceInv, NEW v \in Volume, Device!SetVolume(v) \/ Device!SetVolume2(v) \/ Device!SetGlobalVolume(v)
  PROVE  DeviceInv'
<1>1. DeviceVolumes /\ deviceVolume \in Volume
  BY DEF DeviceInv, DeviceTypes, DeviceVolumes
<1>2. UNCHANGED <<input, created, device, deviceL1, l2, vis, useVis, opened, started, failed, pan, devicePan>>
  BY DEF Device!SetVolume, Device!SetVolume2, Device!SetGlobalVolume, Device!formatVars,
     Device!playVars
<1>3. /\ {volume', volume2', globalVolume'} \subseteq Volume
      /\ Device!SetVolumeToSoundBuffer(device, volume', volume2', globalVolume')
  BY <1>1 DEF Device!SetVolume, Device!SetVolume2, Device!SetGlobalVolume, DeviceVolumes
<1>4. deviceVolume' \in Volume
      /\ (device # "none" => deviceVolume' = Device!Product(volume', volume2', globalVolume'))
  BY <1>1, <1>3, DeviceSet
<1> QED
  BY <1>1, <1>2, <1>3, <1>4 DEF DeviceInv, DeviceTypes, DeviceFlags, DeviceMade, DevicePlays,
     DeviceLoud,
    DeviceVolumes

LEMMA DeviceStays == ASSUME DeviceInv, [Device!Next]_(Device!vars) PROVE DeviceInv'
<1>1. CASE UNCHANGED Device!vars
  BY <1>1 DEF DeviceInv, DeviceTypes, DeviceFlags, DeviceMade, DevicePlays, DeviceLoud, Device!vars,
    Device!formatVars, Device!playVars, Device!scriptVars, Device!mixVars
<1>2. CASE \/ Device!Play \/ Device!Stop \/ Device!DestroySoundBuffer
           \/ \E f \in Formats : Device!Open(f)
           \/ \E b \in BOOLEAN : Device!SetUseVisBuffer(b)
  BY <1>2, DeviceFormats, DeviceSounds DEF DeviceInv, DeviceTypes, DeviceVolumes
<1>3. ASSUME NEW v \in {Device!Held(0, x) : x \in Volumes},
             Device!SetVolume(v) \/ Device!SetVolume2(v) \/ Device!SetGlobalVolume(v)
      PROVE  DeviceInv'
  <2>1. v \in Volume
    BY DeviceAssumption, DeviceHeld
  <2> QED
    BY <1>3, <2>1, DeviceTold
<1>4. ASSUME NEW p \in {Device!Held(-Device!Full, x) : x \in Pans}, Device!SetPan(p) PROVE DeviceInv'
  <2>1. p \in Pan
    BY DeviceAssumption, DeviceHeld
  <2> QED
    BY <1>4, <2>1 DEF DeviceInv, DeviceTypes, DeviceFlags, DeviceMade, DevicePlays, DeviceLoud,
       Device!SetPan,
      Device!formatVars, Device!playVars, Device!mixVars
<1> QED
  BY <1>1, <1>2, <1>3, <1>4 DEF Device!Next

LEMMA DeviceHolds == ASSUME DeviceInv PROVE Device!TypeOK /\ Device!BuffersMatch /\ Device!VolumeFollows
<1>1. DeviceTypes /\ DeviceFlags /\ DeviceMade /\ DevicePlays /\ DeviceLoud
  BY DEF DeviceInv
<1>2. Device!TypeOK
  <2>1. /\ input \in Device!Format /\ created \in Device!Format /\ device \in Device!Format
        /\ deviceL1 \in Device!Format /\ l2 \in Device!Format /\ vis \in Device!Format /\ DeviceFlags
    BY <1>1 DEF DeviceTypes
  <2>2. /\ {volume, volume2, globalVolume} \subseteq 0 .. Device!Full /\ pan \in -Device!Full .. Device!Full
        /\ deviceVolume \in 0 .. Device!Full /\ devicePan \in -Device!Full .. Device!Full
    BY <1>1 DEF DeviceTypes, Volume, Pan
  <2> QED
    BY <2>1, <2>2 DEF Device!TypeOK, DeviceFlags
<1>3. Device!BuffersMatch
  BY <1>1 DEF DeviceMade, DevicePlays, DeviceFlags, Device!BuffersMatch
<1>4. Device!VolumeFollows
  <2>1. CASE device = "none"
    BY <2>1 DEF Device!VolumeFollows, Device!None
  <2>2. CASE device # "none"
    <3> DEFINE P == Device!Product(volume, volume2, globalVolume)
    <3>1. volume \in Volume /\ volume2 \in Volume /\ globalVolume \in Volume /\ deviceVolume = P
      BY <1>1, <2>2 DEF DeviceTypes, DeviceLoud
    <3>2. P <= volume /\ P <= volume2 /\ P <= globalVolume
      BY <3>1, ProductFollows
    <3>3. /\ volume2 = Device!Full /\ globalVolume = Device!Full => P > volume - 10
          /\ globalVolume = Device!Full /\ volume = Device!Full => P > volume2 - 10
          /\ volume = Device!Full /\ volume2 = Device!Full => P > globalVolume - 10
      BY <3>1, ProductFollows
    <3> HIDE DEF P
    <3> QED
      BY <3>1, <3>2, <3>3 DEF Device!VolumeFollows, Device!Follows
  <2> QED
    BY <2>1, <2>2
<1> QED
  BY <1>2, <1>3, <1>4

-----------------------------------------------------------------------------
(***************************************************************************)
(* Locks.                                                                  *)
(***************************************************************************)
\* The locks are taken in the order of their rank.  Order is what a program
\* consists of; a holding says how often a thread has taken each lock.
Rank == [vector |-> 1, buffer |-> 2, oneLoop |-> 3, l2 |-> 4, streams |-> 5, queue |-> 6]
Order == {Locks!Take(l) : l \in Locks!Lock} \cup {Locks!Drop(l) : l \in Locks!Lock}
           \cup {Locks!Join(t) : t \in Locks!Thread}
Holding == [Locks!Lock -> Nat]
Unheld == [l \in Locks!Lock |-> 0]
HeldBy(t) == [l \in Locks!Lock |-> IF owner[l] = t THEN depth[l] ELSE 0]

\* What an order makes of the holding a of thread t: a lock is taken again, or
\* above all it has; it drops what it has; main alone waits for the end of a
\* thread, and holds nothing then.
Takes(a, l, b) ==
  /\ b = [a EXCEPT ![l] = @ + 1]
  /\ a[l] > 0 \/ \A k \in Locks!Lock : a[k] > 0 => Rank[k] < Rank[l]
Drops(a, l, b) == a[l] > 0 /\ b = [a EXCEPT ![l] = @ - 1]
Leads1(t, c, a, b) ==
  \/ \E l \in Locks!Lock : c = Locks!Take(l) /\ Takes(a, l, b)
  \/ \E l \in Locks!Lock : c = Locks!Drop(l) /\ Drops(a, l, b)
  \/ \E u \in {"decoder", "player"} : c = Locks!Join(u) /\ t = "main" /\ a = Unheld /\ b = Unheld
Along(t, p, d, a, b) ==
  /\ d \in [1 .. Len(p) + 1 -> Holding] /\ d[1] = a /\ d[Len(p) + 1] = b
  /\ \A i \in 1 .. Len(p) : Leads1(t, p[i], d[i], d[i + 1])
Leads(t, p, a, b) == p \in Seq(Order) /\ \E d : Along(t, p, d, a, b)

\* A program and what it does to a holding.
LEMMA LeadsNowhere == ASSUME NEW t, NEW a \in Holding PROVE Leads(t, <<>>, a, a)
<1>1. Along(t, <<>>, [i \in 1 .. 1 |-> a], a, a)
  BY DEF Along
<1>2. <<>> \in Seq(Order)
  BY EmptySeq
<1> QED
  BY <1>1, <1>2 DEF Leads

LEMMA LeadsOnce ==
  ASSUME NEW t, NEW c \in Order, NEW a \in Holding, NEW b \in Holding, Leads1(t, c, a, b)
  PROVE  Leads(t, <<c>>, a, b)
<1> DEFINE d == [i \in 1 .. 2 |-> IF i = 1 THEN a ELSE b]
<1>1. <<c>> \in Seq(Order) /\ Len(<<c>>) = 1 /\ <<c>>[1] = c
  OBVIOUS
<1>2. d \in [1 .. 2 -> Holding] /\ d[1] = a /\ d[2] = b
  OBVIOUS
<1> HIDE DEF d
<1>3. \A i \in 1 .. 1 : i = 1
  OBVIOUS
<1>4. Along(t, <<c>>, d, a, b)
  BY <1>1, <1>2, <1>3 DEF Along
<1> QED
  BY <1>1, <1>4 DEF Leads

\* Programs in a row.
LEMMA LeadsOn ==
  ASSUME NEW t, NEW p, NEW q, NEW a, NEW b, NEW c, Leads(t, p, a, b), Leads(t, q, b, c)
  PROVE  Leads(t, p \o q, a, c)
<1>1. PICK e : Along(t, p, e, a, b)
  BY DEF Leads
<1>2. PICK f : Along(t, q, f, b, c)
  BY DEF Leads
<1>3. p \in Seq(Order) /\ q \in Seq(Order) /\ p \o q \in Seq(Order)
  BY DEF Leads
<1>4. Len(p) \in Nat /\ Len(q) \in Nat /\ Len(p \o q) = Len(p) + Len(q)
  BY <1>3
<1>5. \A i \in 1 .. Len(p) + Len(q) : (p \o q)[i] = IF i <= Len(p) THEN p[i] ELSE q[i - Len(p)]
  BY <1>3
<1> DEFINE d == [i \in 1 .. Len(p) + Len(q) + 1 |-> IF i <= Len(p) THEN e[i] ELSE f[i - Len(p)]]
<1>6. d \in [1 .. Len(p) + Len(q) + 1 -> Holding] /\ d[Len(p) + Len(q) + 1] = c
  BY <1>1, <1>2, <1>4 DEF Along
<1>7. d[1] = a
  BY <1>1, <1>2, <1>4 DEF Along
<1>8. ASSUME NEW i \in 1 .. Len(p) + Len(q) PROVE Leads1(t, (p \o q)[i], d[i], d[i + 1])
  <2>1. CASE i < Len(p)
    <3>1. d[i] = e[i] /\ d[i + 1] = e[i + 1] /\ (p \o q)[i] = p[i] /\ i \in 1 .. Len(p)
      BY <1>4, <1>5, <2>1
    <3> QED
      BY <1>1, <3>1 DEF Along
  <2>2. CASE i = Len(p)
    <3>1. d[i] = e[i] /\ d[i + 1] = f[1] /\ (p \o q)[i] = p[i] /\ i \in 1 .. Len(p)
      BY <1>4, <1>5, <2>2
    <3>2. f[1] = e[i + 1]
      BY <1>1, <1>2, <2>2 DEF Along
    <3> QED
      BY <1>1, <3>1, <3>2 DEF Along
  <2>3. CASE i > Len(p)
    <3>1. d[i] = f[i - Len(p)] /\ d[i + 1] = f[(i - Len(p)) + 1] /\ (p \o q)[i] = q[i - Len(p)]
          /\ i - Len(p) \in 1 .. Len(q)
      BY <1>4, <1>5, <2>3
    <3> QED
      BY <1>2, <3>1 DEF Along
  <2> QED
    BY <1>4, <2>1, <2>2, <2>3
<1> HIDE DEF d
<1>9. Along(t, p \o q, d, a, c)
  BY <1>4, <1>6, <1>7, <1>8 DEF Along
<1> QED
  BY <1>3, <1>9 DEF Leads

\* The rest of a program that has done its first order.
LEMMA LeadsRest ==
  ASSUME NEW t, NEW p, NEW a, NEW b, Leads(t, p, a, b), p # <<>>
  PROVE  \E h \in Holding : Leads1(t, Head(p), a, h) /\ Leads(t, Tail(p), h, b)
<1>1. PICK e : Along(t, p, e, a, b)
  BY DEF Leads
<1>2. /\ p \in Seq(Order) /\ Tail(p) \in Seq(Order) /\ Len(p) \in Nat /\ Len(p) > 0
      /\ Len(Tail(p)) = Len(p) - 1 /\ Head(p) = p[1]
      /\ \A i \in 1 .. Len(p) - 1 : Tail(p)[i] = p[i + 1]
  BY DEF Leads
<1> DEFINE d == [i \in 1 .. Len(p) |-> e[i + 1]]
<1>3. Along(t, Tail(p), d, e[2], b)
  <2>1. d \in [1 .. Len(p) -> Holding] /\ d[1] = e[2] /\ d[Len(p)] = b
    BY <1>1, <1>2 DEF Along
  <2>2. ASSUME NEW i \in 1 .. Len(p) - 1 PROVE Leads1(t, Tail(p)[i], d[i], d[i + 1])
    <3>1. d[i] = e[i + 1] /\ d[i + 1] = e[(i + 1) + 1] /\ Tail(p)[i] = p[i + 1] /\ i + 1 \in 1 .. Len(p)
      BY <1>2
    <3> QED
      BY <1>1, <3>1 DEF Along
  <2> HIDE DEF d
  <2> QED
    BY <1>2, <2>1, <2>2 DEF Along
<1>4. e[2] \in Holding /\ Leads1(t, Head(p), a, e[2])
  <2>1. 1 \in 1 .. Len(p) /\ 2 \in 1 .. Len(p) + 1 /\ 1 + 1 = 2
    BY <1>2
  <2> QED
    BY <1>1, <1>2, <2>1 DEF Along
<1> QED
  BY <1>2, <1>3, <1>4 DEF Leads

\* A program that leaves a holding of the locks S as it is.
Holds(S, a) == a \in Holding /\ \A k \in Locks!Lock : a[k] > 0 <=> k \in S
Balanced(t, p, S) == p \in Seq(Order) /\ \A a : Holds(S, a) => Leads(t, p, a, a)

\* Balanced programs and what is made of them.
LEMMA BalancedNone == ASSUME NEW t, NEW S PROVE Balanced(t, <<>>, S)
  BY LeadsNowhere, EmptySeq DEF Balanced, Holds

LEMMA BalancedOn ==
  ASSUME NEW t, NEW p, NEW q, NEW S, Balanced(t, p, S), Balanced(t, q, S)
  PROVE  Balanced(t, p \o q, S)
<1>1. p \o q \in Seq(Order)
  BY DEF Balanced
<1> QED
  BY <1>1, LeadsOn DEF Balanced

\* A block inside a lock, taken in the order of the ranks.
LEMMA BalancedInside ==
  ASSUME NEW t, NEW p, NEW S, NEW T, NEW l \in Locks!Lock, T = S \cup {l},
         l \in S \/ \A k \in S : Rank[k] < Rank[l], Balanced(t, p, T)
  PROVE  Balanced(t, Locks!Inside(l, p), S)
<1>1. /\ p \in Seq(Order) /\ Locks!Take(l) \in Order /\ Locks!Drop(l) \in Order
  BY DEF Balanced, Order
<1>2. Locks!Inside(l, p) \in Seq(Order)
  BY <1>1 DEF Locks!Inside
<1>3. ASSUME NEW a, Holds(S, a) PROVE Leads(t, Locks!Inside(l, p), a, a)
  <2> DEFINE b == [a EXCEPT ![l] = @ + 1]
  <2>1. a \in Holding /\ b \in Holding /\ b[l] = a[l] + 1 /\ b[l] > 0
        /\ \A k \in Locks!Lock : k # l => b[k] = a[k]
    BY <1>3 DEF Holds, Holding
  <2>2. Holds(T, b)
    BY <1>3, <2>1 DEF Holds
  <2>4. Takes(a, l, b)
    BY <1>3 DEF Takes, Holds
  <2> HIDE DEF b
  <2>3. a = [b EXCEPT ![l] = @ - 1]
    <3> DEFINE c == [b EXCEPT ![l] = @ - 1]
    <3>1. c = [k \in Locks!Lock |-> IF k = l THEN b[l] - 1 ELSE b[k]]
      BY <2>1 DEF Holding
    <3>2. b[l] - 1 = a[l]
      BY <2>1 DEF Holding
    <3>3. \A k \in Locks!Lock : a[k] = IF k = l THEN b[l] - 1 ELSE b[k]
      BY <2>1, <3>2
    <3>4. a = [k \in Locks!Lock |-> a[k]]
      BY <2>1 DEF Holding
    <3> HIDE DEF c
    <3>5. a = c
      BY <3>1, <3>3, <3>4
    <3> QED
      BY <3>5 DEF c
  <2>5. Drops(b, l, a)
    BY <2>1, <2>3 DEF Drops
  <2>6. Leads(t, <<Locks!Take(l)>>, a, b)
    BY <1>1, <2>1, <2>4, LeadsOnce DEF Leads1
  <2>7. Leads(t, <<Locks!Drop(l)>>, b, a)
    BY <1>1, <2>1, <2>5, LeadsOnce DEF Leads1
  <2>8. Leads(t, p, b, b)
    BY <2>2 DEF Balanced
  <2>9. Leads(t, <<Locks!Take(l)>> \o p, a, b)
    BY <2>6, <2>8, LeadsOn
  <2>10. Leads(t, (<<Locks!Take(l)>> \o p) \o <<Locks!Drop(l)>>, a, a)
    BY <2>7, <2>9, LeadsOn
  <2> QED
    BY <2>10 DEF Locks!Inside
<1> QED
  BY <1>2, <1>3 DEF Balanced

LEMMA BalancedJoin ==
  ASSUME NEW u \in {"decoder", "player"} PROVE Balanced("main", <<Locks!Join(u)>>, {})
<1>1. Locks!Join(u) \in Order
  BY DEF Order, Locks!Thread
<1>2. ASSUME NEW a, Holds({}, a) PROVE Leads("main", <<Locks!Join(u)>>, a, a)
  <2>1. a \in Holding /\ a = Unheld
    BY <1>2 DEF Holds, Holding, Unheld
  <2> QED
    BY <1>1, <2>1, LeadsOnce DEF Leads1
<1> QED
  BY <1>1, <1>2 DEF Balanced

\* The ranks of the locks.
LEMMA RankOrder ==
  /\ Locks!Lock = {"vector", "buffer", "oneLoop", "l2", "streams", "queue"}
  /\ Rank["vector"] = 1 /\ Rank["buffer"] = 2 /\ Rank["oneLoop"] = 3 /\ Rank["l2"] = 4
  /\ Rank["streams"] = 5 /\ Rank["queue"] = 6
  BY DEF Locks!Lock, Rank

\* A block around nothing, above all that is held.
LEMMA BalancedBlock ==
  ASSUME NEW t, NEW S, NEW l \in Locks!Lock, \A k \in S : Rank[k] < Rank[l]
  PROVE  Balanced(t, Locks!Inside(l, <<>>), S)
  BY BalancedNone, BalancedInside

\* The pieces the programs are made of.
Playing == {"buffer", "l2"}
\* The pieces the programs of the threads consist of.
LEMMA BalancedPieces ==
  ASSUME NEW t, NEW S, S \in {{}, {"vector"}, Playing, {"vector"} \cup Playing}
  PROVE  /\ Balanced(t, Locks!AppendBuffer, S)
         /\ Balanced(t, Locks!Inside("streams", <<>>), S)
         /\ Balanced(t, Locks!ReleaseStream, S)
<1>1. Balanced(t, Locks!Inside("queue", <<>>), S) /\ Balanced(t, Locks!Inside("streams", <<>>), S)
  BY RankOrder, BalancedBlock DEF Playing
<1> QED
  BY <1>1, BalancedOn DEF Locks!AppendBuffer, Locks!ReleaseStream

LEMMA BalancedBoth ==
  ASSUME NEW t, NEW p, NEW S, S \in {{}, {"vector"}, Playing}, Balanced(t, p, S \cup Playing)
  PROVE  Balanced(t, Locks!BothBuffers(p), S)
<1>1. Balanced(t, Locks!Inside("l2", p), S \cup {"buffer"})
  <2>1. S \cup Playing = (S \cup {"buffer"}) \cup {"l2"}
    BY DEF Playing
  <2>2. "l2" \in S \cup {"buffer"} \/ \A k \in S \cup {"buffer"} : Rank[k] < Rank["l2"]
    BY RankOrder DEF Playing
  <2> QED
    BY <2>1, <2>2, RankOrder, BalancedInside
<1>2. "buffer" \in S \/ \A k \in S : Rank[k] < Rank["buffer"]
  BY RankOrder DEF Playing
<1> QED
  BY <1>1, <1>2, RankOrder, BalancedInside DEF Locks!BothBuffers

LEMMA BalancedStop ==
  ASSUME NEW t, NEW S, S \in {{}, {"vector"}}
  PROVE  /\ Balanced(t, Locks!StopPlay, S) /\ Balanced(t, Locks!Interrupt, S)
         /\ Balanced(t, Locks!Stop, S)
<1>1. S \cup Playing \in {{}, {"vector"}, Playing, {"vector"} \cup Playing}
  OBVIOUS
<1>2. Balanced(t, Locks!Inside("queue", <<>>), S \cup Playing)
  BY <1>1, BalancedPieces DEF Locks!AppendBuffer
<1>3. Balanced(t, Locks!StopPlay, S)
  BY <1>2, BalancedBoth DEF Locks!StopPlay
<1>4. Balanced(t, Locks!Interrupt, S)
  BY RankOrder, BalancedBlock DEF Locks!Interrupt
<1> QED
  BY <1>3, <1>4, BalancedOn DEF Locks!Stop

\* Every program the threads run is balanced.
LEMMA ProgramsBalanced ==
  ASSUME NEW t \in Locks!Thread, NEW p \in Locks!Programs[t] PROVE Balanced(t, p, {})
<1>1. ASSUME NEW l \in BOOLEAN, l = FALSE PROVE Balanced("main", Locks!StartPlay(l), Playing)
  <2>1. Playing \cup Playing = Playing
    OBVIOUS
  <2>2. Balanced("main", Locks!ReleaseStream \o Locks!Inside("streams", <<>>) \o Locks!AppendBuffer
           \o (IF l THEN Locks!Inside("vector", <<>>) ELSE <<>>), Playing)
    BY <1>1, BalancedPieces, BalancedOn, BalancedNone
  <2> QED
    BY <2>1, <2>2, BalancedBoth DEF Locks!StartPlay
<1>2. Balanced("main", Locks!StopPlay \o Locks!BothBuffers(Locks!StartPlay(FALSE)), {})
  <2>1. {} \cup Playing = Playing
    OBVIOUS
  <2>2. Balanced("main", Locks!BothBuffers(Locks!StartPlay(FALSE)), {})
    BY <1>1, <2>1, BalancedBoth
  <2> QED
    BY <2>2, BalancedStop, BalancedOn
<1>3. Balanced("main", Locks!Stop, {})
  BY BalancedStop
<1>4. Balanced(t, Locks!Inside("vector", <<>>), {})
  BY RankOrder, BalancedBlock
<1>5. Balanced("main", Locks!Invalidate, {})
  <2>1. Balanced("main", Locks!Stop \o Locks!Interrupt \o Locks!ReleaseStream, {})
    BY BalancedStop, BalancedPieces, BalancedOn
  <2>2. Balanced("main", Locks!Inside("vector", <<>>), {})
    BY RankOrder, BalancedBlock
  <2>3. Balanced("main", <<Locks!Join("decoder")>>, {}) /\ Balanced("main", <<Locks!Join("player")>>, {})
    BY BalancedJoin
  <2> QED
    BY <2>1, <2>2, <2>3, BalancedOn DEF Locks!Invalidate
<1>6. Balanced("main", Locks!BothBuffers(<<>>), {})
  BY BalancedNone, BalancedBoth
<1>7. Balanced("main", Locks!Inside("buffer", <<>>), {})
  BY RankOrder, BalancedBlock
<1>8. Balanced("main", Locks!Inside("vector", Locks!Stop \o Locks!ReleaseStream), {})
  <2>1. Balanced("main", Locks!Stop \o Locks!ReleaseStream, {"vector"})
    BY BalancedStop, BalancedPieces, BalancedOn
  <2>2. {"vector"} = {} \cup {"vector"} /\ \A k \in {} : Rank[k] < Rank["vector"]
    OBVIOUS
  <2> QED
    BY <2>1, <2>2, RankOrder, BalancedInside
<1>9. ASSUME NEW u, NEW q, Balanced(u, q, {"vector", "buffer"})
      PROVE  Balanced(u, Locks!Inside("vector", Locks!Inside("buffer", q)), {})
  <2>1. Balanced(u, Locks!Inside("buffer", q), {"vector"})
    <3>1. {"vector", "buffer"} = {"vector"} \cup {"buffer"} /\ \A k \in {"vector"} : Rank[k] < Rank["buffer"]
      BY RankOrder
    <3> QED
      BY <1>9, <3>1, RankOrder, BalancedInside
  <2>2. {"vector"} = {} \cup {"vector"} /\ \A k \in {} : Rank[k] < Rank["vector"]
    OBVIOUS
  <2> QED
    BY <2>1, <2>2, RankOrder, BalancedInside
<1>10. Balanced("main", Locks!Inside("vector", Locks!Inside("buffer", <<>>)), {})
  BY <1>9, BalancedNone
<1>11. /\ Balanced("player", Locks!AppendBuffer, {"vector", "buffer"})
       /\ Balanced("player", Locks!Inside("l2", <<>>), {"vector", "buffer"})
       /\ Balanced("player", Locks!Inside("l2", Locks!AppendBuffer), {"vector", "buffer"})
  <2>1. Balanced("player", Locks!AppendBuffer, {"vector"} \cup Playing)
    BY BalancedPieces
  <2>2. {"vector"} \cup Playing = {"vector", "buffer"} \cup {"l2"}
    BY DEF Playing
  <2>3. \A k \in {"vector", "buffer"} : Rank[k] < Rank["l2"] /\ Rank[k] < Rank["queue"]
    BY RankOrder
  <2>4. Balanced("player", Locks!Inside("l2", Locks!AppendBuffer), {"vector", "buffer"})
    BY <2>1, <2>2, <2>3, RankOrder, BalancedInside
  <2> QED
    BY <2>3, <2>4, RankOrder, BalancedBlock DEF Locks!AppendBuffer
<1>12. CASE t = "main"
  <2>1. p \in {Locks!StopPlay \o Locks!BothBuffers(Locks!StartPlay(l)) : l \in {FALSE, FALSE}}
          \cup {Locks!Stop, Locks!Invalidate, Locks!BothBuffers(<<>>), Locks!Inside("buffer", <<>>),
                Locks!Inside("vector", Locks!Stop \o Locks!ReleaseStream),
                Locks!Inside("vector", Locks!Inside("buffer", <<>>))}
    BY <1>12 DEF Locks!Programs
  <2> QED
    BY <1>2, <1>3, <1>5, <1>6, <1>7, <1>8, <1>10, <1>12, <2>1
<1>13. CASE t = "player"
  <2>1. p \in {Locks!Inside("vector", Locks!Inside("buffer", q)) :
                 q \in {<<>>, Locks!AppendBuffer, Locks!Inside("l2", <<>>) \o Locks!Inside("l2", Locks!AppendBuffer)}}
    BY <1>13 DEF Locks!Programs
  <2>2. Balanced("player", Locks!Inside("l2", <<>>) \o Locks!Inside("l2", Locks!AppendBuffer), {"vector", "buffer"})
    BY <1>11, BalancedOn
  <2> QED
    BY <1>9, <1>11, <1>13, <2>1, <2>2, BalancedNone
<1>14. CASE t = "decoder"
  <2>1. p = Locks!Inside("oneLoop", Locks!Inside("l2", <<>>))
    BY <1>14 DEF Locks!Programs
  <2>2. {"oneLoop"} = {} \cup {"oneLoop"} /\ \A k \in {} : Rank[k] < Rank["oneLoop"]
    OBVIOUS
  <2>3. Balanced("decoder", Locks!Inside("l2", <<>>), {"oneLoop"})
    BY RankOrder, BalancedBlock
  <2> QED
    BY <1>14, <2>1, <2>2, <2>3, RankOrder, BalancedInside
<1>15. CASE t = "audio"
  <2>1. p = Locks!Inside("streams", Locks!Inside("queue", <<>>))
    BY <1>15 DEF Locks!Programs
  <2>2. {"streams"} = {} \cup {"streams"} /\ \A k \in {} : Rank[k] < Rank["streams"]
    OBVIOUS
  <2>3. Balanced("audio", Locks!Inside("queue", <<>>), {"streams"})
    BY RankOrder, BalancedBlock
  <2> QED
    BY <1>15, <2>1, <2>2, <2>3, RankOrder, BalancedInside
<1> QED
  BY <1>12, <1>13, <1>14, <1>15 DEF Locks!Thread

\* Each thread is on its way through a program: what is left of it leads from
\* what the thread holds to nothing.
LockTypes ==
  /\ todo \in [Locks!Thread -> Seq(Order)] /\ owner \in [Locks!Lock -> Locks!Thread \cup {"nobody"}]
  /\ depth \in [Locks!Lock -> Nat] /\ gone \subseteq Locks!Thread
LockInv ==
  /\ LockTypes
  /\ \A l \in Locks!Lock : owner[l] = "nobody" <=> depth[l] = 0
  /\ \A t \in Locks!Thread : Leads(t, todo[t], HeldBy(t), Unheld)

\* The locks: the invariant holds at the start, in every step, and means
\* that nobody waits in a circle.
LEMMA LockStart == ASSUME Locks!Init PROVE LockInv
<1>1. LockTypes
  BY EmptySeq DEF Locks!Init, LockTypes
<1>2. \A t \in Locks!Thread : HeldBy(t) = Unheld /\ todo[t] = <<>>
  BY DEF Locks!Init, HeldBy, Unheld
<1>3. Unheld \in Holding
  BY DEF Unheld, Holding
<1> QED
  BY <1>1, <1>2, <1>3, LeadsNowhere DEF Locks!Init, LockInv

\* What a thread holds, and its next order.
LEMMA HeldTyped == ASSUME LockInv, NEW t PROVE HeldBy(t) \in Holding
  BY DEF LockInv, LockTypes, HeldBy, Holding

\* The orders are told apart by their first words.
LEMMA Orders ==
  /\ \A l, k : Locks!Take(l) = Locks!Take(k) => l = k
  /\ \A l, k : Locks!Drop(l) = Locks!Drop(k) => l = k
  /\ \A l, k : Locks!Take(l) # Locks!Drop(k) /\ Locks!Take(l) # Locks!Join(k)
               /\ Locks!Drop(l) # Locks!Join(k)
  /\ \A l : Locks!Take(l)[1] = "take" /\ Locks!Drop(l)[1] = "drop" /\ Locks!Join(l)[1] = "join"
  /\ \A l : Locks!Take(l)[2] = l /\ Locks!Drop(l)[2] = l /\ Locks!Join(l)[2] = l
  BY DEF Locks!Take, Locks!Drop, Locks!Join

\* What the first order of a thread says of what it holds.
LEMMA FirstOrder ==
  ASSUME LockInv, NEW t \in Locks!Thread, todo[t] # <<>>
  PROVE  /\ todo[t] \in Seq(Order) /\ Tail(todo[t]) \in Seq(Order)
         /\ \/ /\ Locks!Now(t, "take") /\ Head(todo[t])[2] \in Locks!Lock
               /\ \E h \in Holding : Takes(HeldBy(t), Head(todo[t])[2], h) /\ Leads(t, Tail(todo[t]), h, Unheld)
            \/ /\ Locks!Now(t, "drop") /\ Head(todo[t])[2] \in Locks!Lock
               /\ \E h \in Holding : Drops(HeldBy(t), Head(todo[t])[2], h) /\ Leads(t, Tail(todo[t]), h, Unheld)
            \/ /\ Locks!Now(t, "join") /\ Head(todo[t])[2] \in {"decoder", "player"}
               /\ t = "main" /\ HeldBy(t) = Unheld /\ Leads(t, Tail(todo[t]), Unheld, Unheld)
<1>1. Leads(t, todo[t], HeldBy(t), Unheld)
  BY DEF LockInv
<1>2. PICK h \in Holding : Leads1(t, Head(todo[t]), HeldBy(t), h) /\ Leads(t, Tail(todo[t]), h, Unheld)
  BY <1>1, LeadsRest
<1>3. todo[t] \in Seq(Order) /\ Tail(todo[t]) \in Seq(Order)
  BY DEF LockInv, LockTypes
<1>4. ASSUME NEW l \in Locks!Lock, Head(todo[t]) = Locks!Take(l), Takes(HeldBy(t), l, h)
      PROVE  Locks!Now(t, "take") /\ Head(todo[t])[2] = l
  BY <1>4, Orders DEF Locks!Now
<1>5. ASSUME NEW l \in Locks!Lock, Head(todo[t]) = Locks!Drop(l), Drops(HeldBy(t), l, h)
      PROVE  Locks!Now(t, "drop") /\ Head(todo[t])[2] = l
  BY <1>5, Orders DEF Locks!Now
<1>6. ASSUME NEW u \in {"decoder", "player"}, Head(todo[t]) = Locks!Join(u)
      PROVE  Locks!Now(t, "join") /\ Head(todo[t])[2] = u
  BY <1>6, Orders DEF Locks!Now
<1> QED
  BY <1>2, <1>3, <1>4, <1>5, <1>6 DEF Leads1

LEMMA NowOne ==
  ASSUME NEW t PROVE /\ ~(Locks!Now(t, "take") /\ Locks!Now(t, "drop"))
                     /\ ~(Locks!Now(t, "take") /\ Locks!Now(t, "join"))
                     /\ ~(Locks!Now(t, "drop") /\ Locks!Now(t, "join"))
  BY DEF Locks!Now

\* A thread that is idle begins a program.
LEMMA LockBegins ==
  ASSUME LockInv, NEW t \in Locks!Thread, Locks!Begin(t) PROVE LockInv'
<1>1. PICK p \in Locks!Programs[t] : todo' = [todo EXCEPT ![t] = p]
  BY DEF Locks!Begin
<1>2. todo[t] = <<>> /\ owner' = owner /\ depth' = depth /\ gone' = gone
  BY DEF Locks!Begin
<1>3. Balanced(t, p, {})
  BY ProgramsBalanced
<1>4. \A u : HeldBy(u)' = HeldBy(u)
  BY <1>2 DEF HeldBy
<1>5. HeldBy(t) = Unheld
  <2>1. Leads(t, <<>>, HeldBy(t), Unheld)
    BY <1>2 DEF LockInv
  <2>2. Len(<<>>) + 1 = 1
    OBVIOUS
  <2> QED
    BY <2>1, <2>2 DEF Leads, Along
<1>6. Holds({}, Unheld)
  BY DEF Holds, Unheld, Holding
<1>7. Leads(t, p, Unheld, Unheld) /\ p \in Seq(Order)
  BY <1>3, <1>6 DEF Balanced
<1>8. LockTypes'
  BY <1>1, <1>2, <1>7 DEF LockInv, LockTypes
<1>9. \A u \in Locks!Thread : todo'[u] = IF u = t THEN p ELSE todo[u]
  BY <1>1 DEF LockInv, LockTypes
<1>10. \A u \in Locks!Thread : Leads(u, todo'[u], HeldBy(u)', Unheld)
  BY <1>4, <1>5, <1>7, <1>9 DEF LockInv
<1> QED
  BY <1>2, <1>8, <1>10 DEF LockInv

\* A thread takes a lock that is free or its own.
LEMMA LockTaken ==
  ASSUME LockInv, NEW t \in Locks!Thread, Locks!TakeLock(t) PROVE LockInv'
<1> DEFINE l == Head(todo[t])[2]
<1>1. /\ Locks!Now(t, "take") /\ owner[l] \in {t, "nobody"} /\ owner' = [owner EXCEPT ![l] = t]
      /\ depth' = [depth EXCEPT ![l] = @ + 1] /\ todo' = [todo EXCEPT ![t] = Tail(@)] /\ gone' = gone
  BY DEF Locks!TakeLock
<1>2. todo[t] # <<>>
  BY <1>1 DEF Locks!Now
<1>3. PICK h \in Holding : Takes(HeldBy(t), l, h) /\ Leads(t, Tail(todo[t]), h, Unheld)
  BY <1>1, <1>2, FirstOrder, NowOne
<1>4. l \in Locks!Lock /\ Tail(todo[t]) \in Seq(Order)
  BY <1>1, <1>2, FirstOrder, NowOne
<1> HIDE DEF l
<1>5. "nobody" \notin Locks!Thread
  BY DEF Locks!Thread
<1>6. /\ \A k \in Locks!Lock : owner'[k] = IF k = l THEN t ELSE owner[k]
      /\ \A k \in Locks!Lock : depth'[k] = IF k = l THEN depth[k] + 1 ELSE depth[k]
      /\ \A u \in Locks!Thread : todo'[u] = IF u = t THEN Tail(todo[t]) ELSE todo[u]
      /\ \A k \in Locks!Lock : depth[k] \in Nat
  BY <1>1, <1>4 DEF LockInv, LockTypes
<1>7. HeldBy(t)' = h
  <2>1. HeldBy(t) \in Holding /\ h = [k \in Locks!Lock |-> IF k = l THEN HeldBy(t)[k] + 1 ELSE HeldBy(t)[k]]
    BY <1>3, <1>4, HeldTyped DEF Takes, Holding
  <2>2. HeldBy(t)[l] = depth[l]
    BY <1>1, <1>4 DEF HeldBy, LockInv
  <2>3. \A k \in Locks!Lock : k # l => (IF owner'[k] = t THEN depth'[k] ELSE 0) = HeldBy(t)[k]
    BY <1>6 DEF HeldBy
  <2>4. \A k \in Locks!Lock : (IF owner'[k] = t THEN depth'[k] ELSE 0)
                              = IF k = l THEN HeldBy(t)[k] + 1 ELSE HeldBy(t)[k]
    BY <1>4, <1>6, <2>2, <2>3
  <2> QED
    BY <2>1, <2>4 DEF HeldBy
<1>8. \A u \in Locks!Thread \ {t} : HeldBy(u)' = HeldBy(u)
  <2>1. \A u \in Locks!Thread \ {t} : \A k \in Locks!Lock :
          (IF owner'[k] = u THEN depth'[k] ELSE 0) = (IF owner[k] = u THEN depth[k] ELSE 0)
    BY <1>1, <1>4, <1>5, <1>6
  <2> QED
    BY <2>1 DEF HeldBy
<1>9. LockTypes'
  BY <1>1, <1>4 DEF LockInv, LockTypes
<1>10. \A k \in Locks!Lock : owner'[k] = "nobody" <=> depth'[k] = 0
  BY <1>5, <1>6 DEF LockInv
<1>11. \A u \in Locks!Thread : Leads(u, todo'[u], HeldBy(u)', Unheld)
  BY <1>3, <1>6, <1>7, <1>8 DEF LockInv
<1> QED
  BY <1>9, <1>10, <1>11 DEF LockInv

\* A thread gives a lock back.
LEMMA LockDropped ==
  ASSUME LockInv, NEW t \in Locks!Thread, Locks!DropLock(t) PROVE LockInv'
<1> DEFINE l == Head(todo[t])[2]
<1>1. /\ Locks!Now(t, "drop") /\ owner' = [owner EXCEPT ![l] = IF depth[l] = 1 THEN "nobody" ELSE t]
      /\ depth' = [depth EXCEPT ![l] = @ - 1] /\ todo' = [todo EXCEPT ![t] = Tail(@)] /\ gone' = gone
  BY DEF Locks!DropLock
<1>2. todo[t] # <<>>
  BY <1>1 DEF Locks!Now
<1>3. PICK h \in Holding : Drops(HeldBy(t), l, h) /\ Leads(t, Tail(todo[t]), h, Unheld)
  BY <1>1, <1>2, FirstOrder, NowOne
<1>4. l \in Locks!Lock /\ Tail(todo[t]) \in Seq(Order)
  BY <1>1, <1>2, FirstOrder, NowOne
<1> HIDE DEF l
<1>5. "nobody" \notin Locks!Thread
  BY DEF Locks!Thread
<1>6. owner[l] = t /\ depth[l] > 0 /\ HeldBy(t)[l] = depth[l]
  BY <1>3, <1>4 DEF Drops, HeldBy
<1>7. /\ \A k \in Locks!Lock : owner'[k] = IF k = l THEN (IF depth[l] = 1 THEN "nobody" ELSE t) ELSE owner[k]
      /\ \A k \in Locks!Lock : depth'[k] = IF k = l THEN depth[k] - 1 ELSE depth[k]
      /\ \A u \in Locks!Thread : todo'[u] = IF u = t THEN Tail(todo[t]) ELSE todo[u]
      /\ \A k \in Locks!Lock : depth[k] \in Nat
  BY <1>1, <1>4 DEF LockInv, LockTypes
<1>8. HeldBy(t)' = h
  <2>1. HeldBy(t) \in Holding /\ h = [k \in Locks!Lock |-> IF k = l THEN HeldBy(t)[k] - 1 ELSE HeldBy(t)[k]]
    BY <1>3, <1>4, HeldTyped DEF Drops, Holding
  <2>2. \A k \in Locks!Lock : k # l => (IF owner'[k] = t THEN depth'[k] ELSE 0) = HeldBy(t)[k]
    BY <1>7 DEF HeldBy
  <2>3. (IF owner'[l] = t THEN depth'[l] ELSE 0) = depth[l] - 1
    BY <1>4, <1>5, <1>6, <1>7
  <2>4. \A k \in Locks!Lock : (IF owner'[k] = t THEN depth'[k] ELSE 0)
                              = IF k = l THEN HeldBy(t)[k] - 1 ELSE HeldBy(t)[k]
    BY <1>6, <2>2, <2>3
  <2> QED
    BY <2>1, <2>4 DEF HeldBy
<1>9. \A u \in Locks!Thread \ {t} : HeldBy(u)' = HeldBy(u)
  <2>1. \A u \in Locks!Thread \ {t} : \A k \in Locks!Lock :
          (IF owner'[k] = u THEN depth'[k] ELSE 0) = (IF owner[k] = u THEN depth[k] ELSE 0)
    BY <1>4, <1>5, <1>6, <1>7
  <2> QED
    BY <2>1 DEF HeldBy
<1>10. LockTypes'
  <2>1. depth[l] - 1 \in Nat
    BY <1>4, <1>6, <1>7
  <2> QED
    BY <1>1, <1>4, <2>1 DEF LockInv, LockTypes
<1>11. \A k \in Locks!Lock : owner'[k] = "nobody" <=> depth'[k] = 0
  BY <1>5, <1>6, <1>7 DEF LockInv
<1>12. \A u \in Locks!Thread : Leads(u, todo'[u], HeldBy(u)', Unheld)
  BY <1>3, <1>7, <1>8, <1>9 DEF LockInv
<1> QED
  BY <1>10, <1>11, <1>12 DEF LockInv

\* The main thread, holding nothing, waits for another to end.
LEMMA LockJoined ==
  ASSUME LockInv, NEW t \in Locks!Thread, Locks!JoinThread(t) PROVE LockInv'
<1>1. /\ Locks!Now(t, "join") /\ owner' = owner /\ depth' = depth
      /\ todo' = [todo EXCEPT ![t] = Tail(@)] /\ gone' = gone \cup {Head(todo[t])[2]}
  BY DEF Locks!JoinThread
<1>2. todo[t] # <<>>
  BY <1>1 DEF Locks!Now
<1>3. /\ HeldBy(t) = Unheld /\ Leads(t, Tail(todo[t]), Unheld, Unheld)
      /\ Tail(todo[t]) \in Seq(Order) /\ Head(todo[t])[2] \in Locks!Thread
  BY <1>1, <1>2, FirstOrder, NowOne DEF Locks!Thread
<1>4. \A u : HeldBy(u)' = HeldBy(u)
  BY <1>1 DEF HeldBy
<1>5. \A u \in Locks!Thread : todo'[u] = IF u = t THEN Tail(todo[t]) ELSE todo[u]
  BY <1>1 DEF LockInv, LockTypes
<1>6. LockTypes'
  BY <1>1, <1>3 DEF LockInv, LockTypes
<1>7. \A u \in Locks!Thread : Leads(u, todo'[u], HeldBy(u)', Unheld)
  BY <1>3, <1>4, <1>5 DEF LockInv
<1> QED
  BY <1>1, <1>6, <1>7 DEF LockInv

LEMMA LockStays == ASSUME LockInv, [Locks!Next]_(Locks!vars) PROVE LockInv'
<1>1. CASE UNCHANGED Locks!vars
  <2>1. UNCHANGED <<todo, owner, depth, gone>>
    BY <1>1 DEF Locks!vars
  <2>2. \A u : HeldBy(u)' = HeldBy(u)
    BY <2>1 DEF HeldBy
  <2> QED
    BY <2>1, <2>2 DEF LockInv, LockTypes
<1>2. CASE Locks!Revive
  <2>1. UNCHANGED <<todo, owner, depth>> /\ gone' = {}
    BY <1>2 DEF Locks!Revive
  <2>2. \A u : HeldBy(u)' = HeldBy(u)
    BY <2>1 DEF HeldBy
  <2> QED
    BY <2>1, <2>2 DEF LockInv, LockTypes
<1> QED
  BY <1>1, <1>2, LockBegins, LockTaken, LockDropped, LockJoined DEF Locks!Next

\* A set of ranks has a highest.
LEMMA Highest ==
  ASSUME NEW S, S \subseteq 1 .. 6, S # {} PROVE \E m \in S : \A n \in S : n <= m
<1>1. \A n \in S : n \in {1, 2, 3, 4, 5, 6}
  OBVIOUS
<1>2. CASE 6 \in S
  BY <1>1, <1>2
<1>3. CASE 6 \notin S /\ 5 \in S
  BY <1>1, <1>3
<1>4. CASE 6 \notin S /\ 5 \notin S /\ 4 \in S
  BY <1>1, <1>4
<1>5. CASE \A n \in S : n <= 3
  <2>1. CASE 3 \in S
    BY <1>5, <2>1
  <2>2. CASE 3 \notin S /\ 2 \in S
    BY <1>1, <1>5, <2>2
  <2>3. CASE 3 \notin S /\ 2 \notin S
    <3>1. \A n \in S : n = 1
      BY <1>1, <1>5, <2>3
    <3>2. PICK n \in S : TRUE
      OBVIOUS
    <3> QED
      BY <3>1, <3>2
  <2> QED
    BY <2>1, <2>2, <2>3
<1> QED
  BY <1>1, <1>2, <1>3, <1>4, <1>5

LEMMA LockHolds == ASSUME LockInv PROVE Locks!TypeOK /\ Locks!NoCircularWait
<1>1. Locks!TypeOK
  BY DEF LockInv, LockTypes, Locks!TypeOK, Order
<1>2. ASSUME NEW T \in SUBSET Locks!Thread, T # {},
             \A t \in T : Locks!WaitsFor(t) \in T /\ Locks!WaitsFor(t) # t
      PROVE  FALSE
  <2> DEFINE Wants(t) == Head(todo[t])[2]
             Taker(t) == /\ Locks!Now(t, "take") /\ Wants(t) \in Locks!Lock /\ owner[Wants(t)] \in T \ {t}
                         /\ \E h \in Holding : Takes(HeldBy(t), Wants(t), h)
             Joiner(t) == t = "main" /\ HeldBy(t) = Unheld /\ Locks!WaitsFor(t) \in {"decoder", "player"}
  <2>1. ASSUME NEW t \in T PROVE Taker(t) \/ Joiner(t)
    <3>1. todo[t] # <<>>
      BY <1>2 DEF Locks!WaitsFor, Locks!Now
    <3>2. CASE Locks!Now(t, "take")
      <4>1. Wants(t) \in Locks!Lock /\ \E h \in Holding : Takes(HeldBy(t), Wants(t), h)
        BY <3>1, <3>2, FirstOrder, NowOne
      <4>2. owner[Wants(t)] \in T \ {t}
        BY <1>2, <3>2, NowOne DEF Locks!WaitsFor
      <4> QED
        BY <3>2, <4>1, <4>2
    <3>3. CASE Locks!Now(t, "join")
      <4>1. Wants(t) \in {"decoder", "player"} /\ t = "main" /\ HeldBy(t) = Unheld
        BY <3>1, <3>3, FirstOrder, NowOne
      <4>2. Locks!WaitsFor(t) = Wants(t)
        BY <1>2, <3>3, NowOne DEF Locks!WaitsFor
      <4> QED
        BY <4>1, <4>2
    <3> QED
      BY <1>2, <3>2, <3>3 DEF Locks!WaitsFor
  <2> DEFINE U == {t \in T : Taker(t)}
  <2>2. U # {}
    <3>1. PICK t \in T : TRUE
      BY <1>2
    <3>2. CASE Joiner(t)
      <4>1. Locks!WaitsFor(t) \in T /\ Locks!WaitsFor(t) # "main"
        BY <1>2, <3>2
      <4> QED
        BY <2>1, <4>1
    <3> QED
      BY <2>1, <3>2
  <2>3. ASSUME NEW t \in U PROVE owner[Wants(t)] \in U /\ HeldBy(owner[Wants(t)])[Wants(t)] > 0
    <3>1. owner[Wants(t)] \in T /\ Wants(t) \in Locks!Lock
      OBVIOUS
    <3>2. HeldBy(owner[Wants(t)])[Wants(t)] > 0
      <4>1. owner[Wants(t)] # "nobody"
        BY <1>2, <3>1 DEF Locks!Thread
      <4> HIDE DEF Wants
      <4> QED
        BY <3>1, <4>1 DEF HeldBy, LockInv, LockTypes
    <3>3. HeldBy(owner[Wants(t)]) # Unheld
      BY <3>1, <3>2 DEF Unheld
    <3> QED
      BY <2>1, <3>1, <3>2, <3>3
  <2> DEFINE R == {Rank[Wants(t)] : t \in U}
  <2>4. R \subseteq 1 .. 6 /\ R # {}
    <3>1. \A l \in Locks!Lock : Rank[l] \in 1 .. 6
      BY RankOrder
    <3>2. \A t \in U : Wants(t) \in Locks!Lock
      OBVIOUS
    <3> HIDE DEF Wants, U
    <3> QED
      BY <2>2, <3>1, <3>2
  <2>5. PICK t \in U : \A u \in U : Rank[Wants(u)] <= Rank[Wants(t)]
    <3> HIDE DEF R
    <3>1. PICK m \in R : \A n \in R : n <= m
      BY <2>4, Highest
    <3> QED
      BY <3>1 DEF R
  <2> DEFINE u == owner[Wants(t)]
  <2>6. u \in U /\ HeldBy(u)[Wants(t)] > 0 /\ Wants(t) \in Locks!Lock /\ Wants(u) \in Locks!Lock
    BY <2>3
  <2>7. owner[Wants(u)] # u
    BY <2>6
  <2>8. \A k \in Locks!Lock : HeldBy(u)[k] > 0 => Rank[k] < Rank[Wants(u)]
    <3>1. PICK h \in Holding : Takes(HeldBy(u), Wants(u), h)
      BY <2>6
    <3> HIDE DEF Wants, u
    <3>2. ~(HeldBy(u)[Wants(u)] > 0)
      BY <2>6, <2>7 DEF HeldBy
    <3> QED
      BY <3>1, <3>2 DEF Takes
  <2>9. Rank[Wants(t)] < Rank[Wants(u)] /\ Rank[Wants(u)] <= Rank[Wants(t)]
    BY <2>5, <2>6, <2>8
  <2>10. Rank[Wants(t)] \in Int /\ Rank[Wants(u)] \in Int
    BY <2>6, RankOrder
  <2> QED
    BY <2>9, <2>10
<1> QED
  BY <1>1, <1>2 DEF Locks!NoCircularWait

-----------------------------------------------------------------------------
(***************************************************************************)
(* Sets of numbers in their order.                                         *)
(***************************************************************************)
\* A number and its quotient.
LEMMA LabelDivMod ==
  ASSUME NEW n \in Nat \ {0}, NEW a \in Nat PROVE a % n \in 0 .. n - 1 /\ a \div n \in Nat
<1>1. a % n \in 0 .. n - 1 /\ a = n * (a \div n) + (a % n) /\ a \div n \in Int
  BY SMT
<1>2. ASSUME a \div n < 0 PROVE FALSE
  <2> DEFINE q == a \div n  r == a % n
  <2>1. q <= -1 /\ q \in Int /\ a = n * q + r /\ r \in 0 .. n - 1
    BY <1>1, <1>2
  <2> HIDE DEF q, r
  <2>2. n * q <= n * (-1)
    BY <2>1
  <2> QED
    BY <2>1, <2>2
<1> QED
  BY <1>1, <1>2

Increasing(q) == \A i, j \in DOMAIN q : i < j => q[i] < q[j]

Enumerates(q, S) == (\A x \in S : \E i \in DOMAIN q : q[i] = x) /\ Increasing(q)

\* A finite set of numbers can be put in order.
LEMMA OrderExists ==
  ASSUME NEW S \in SUBSET Nat, IsFiniteSet(S)
  PROVE  \E q \in [1 .. Cardinality(S) -> S] : Enumerates(q, S)
<1> DEFINE T == {n \in Nat : \A R \in SUBSET Nat : IsFiniteSet(R) /\ Cardinality(R) = n
                   => \E q \in [1 .. n -> R] : Enumerates(q, R)}
<1>1. 0 \in T
  <2>1. ASSUME NEW R \in SUBSET Nat, IsFiniteSet(R), Cardinality(R) = 0
        PROVE  \E q \in [1 .. 0 -> R] : Enumerates(q, R)
    <3>1. R = {}
      BY <2>1, FS_EmptySet
    <3> DEFINE q == [i \in 1 .. 0 |-> i]
    <3>2. q \in [1 .. 0 -> R] /\ Enumerates(q, R)
      BY <3>1 DEF Enumerates, Increasing
    <3> QED
      BY <3>2
  <2> QED
    BY <2>1
<1>2. ASSUME NEW n \in T \cap Nat PROVE n + 1 \in T
  <2>1. ASSUME NEW R \in SUBSET Nat, IsFiniteSet(R), Cardinality(R) = n + 1
        PROVE  \E q \in [1 .. n + 1 -> R] : Enumerates(q, R)
    <3>1. R # {}
      BY <2>1, FS_EmptySet
    <3>2. PICK m \in R : \A x \in R : <<x, m>> \notin Earlier
      BY <3>1, EarlierWellFounded, WFMin
    <3>3. m \in Nat /\ \A x \in R : x # m => m < x
      <4>1. \A x \in R : x \in Nat /\ m \in Nat
        OBVIOUS
      <4>2. \A x \in R : x < m => <<x, m>> \in Earlier
        BY <4>1 DEF Earlier
      <4>3. \A x \in R : ~(x < m)
        BY <3>2, <4>2
      <4> QED
        BY <4>1, <4>3
    <3> DEFINE U == R \ {m}
    <3>4. U \in SUBSET Nat /\ IsFiniteSet(U) /\ Cardinality(U) = n
      BY <2>1, FS_RemoveElement
    <3>5. PICK p \in [1 .. n -> U] : Enumerates(p, U)
      BY <3>4
    <3> DEFINE q == [i \in 1 .. n + 1 |-> IF i = 1 THEN m ELSE p[i - 1]]
    <3>6. \A i \in 1 .. n + 1 : i = 1 \/ (i - 1 \in 1 .. n /\ i > 1)
      OBVIOUS
    <3>7. 1 \in 1 .. n + 1 /\ q[1] = m
      OBVIOUS
    <3>8. \A i \in 1 .. n : i + 1 \in 1 .. n + 1 /\ q[i + 1] = p[i]
      OBVIOUS
    <3>9. \A i \in 1 .. n + 1 : i # 1 => i - 1 \in 1 .. n /\ q[i] = p[i - 1]
      BY <3>6
    <3>a. q \in [1 .. n + 1 -> R]
      BY <3>5, <3>6
    <3>b. DOMAIN q = 1 .. n + 1 /\ DOMAIN p = 1 .. n
      BY <3>5
    <3> HIDE DEF q
    <3>c. \A x \in R : \E i \in DOMAIN q : q[i] = x
      <4> TAKE x \in R
      <4>1. CASE x = m
        BY <3>7, <3>b, <4>1
      <4>2. CASE x # m
        <5>1. PICK i \in 1 .. n : p[i] = x
          BY <3>5, <3>b, <4>2 DEF Enumerates
        <5> QED
          BY <3>8, <3>b, <5>1
      <4> QED
        BY <4>1, <4>2
    <3>d. \A i \in 1 .. n : p[i] \in R /\ m < p[i] /\ p[i] \in Nat
      BY <3>3, <3>5
    <3>e. Increasing(q)
      <4> SUFFICES ASSUME NEW i \in 1 .. n + 1, NEW j \in 1 .. n + 1, i < j PROVE q[i] < q[j]
        BY <3>b DEF Increasing
      <4>1. j # 1 /\ j - 1 \in 1 .. n /\ q[j] = p[j - 1]
        BY <3>9
      <4>2. CASE i = 1
        BY <3>7, <3>d, <4>1, <4>2
      <4>3. CASE i # 1
        <5>1. i - 1 \in 1 .. n /\ q[i] = p[i - 1] /\ i - 1 < j - 1
          BY <3>9, <4>3
        <5>2. \A k, l \in 1 .. n : k < l => p[k] < p[l]
          BY <3>5, <3>b DEF Enumerates, Increasing
        <5> QED
          BY <4>1, <5>1, <5>2
      <4> QED
        BY <4>2, <4>3
    <3> QED
      BY <3>a, <3>c, <3>e DEF Enumerates
  <2> QED
    BY <2>1
<1> HIDE DEF T
<1>3. Nat \subseteq T
  BY <1>1, <1>2, EveryNumber
<1>4. Cardinality(S) \in T
  BY <1>3, FS_CardinalityType
<1> QED
  BY <1>4 DEF T

LEMMA EventsCardinality == ASSUME NEW S PROVE Events!Cardinality(S) = Cardinality(S)
BY DEF Events!Cardinality, Cardinality

\* InOrder is such an order.
LEMMA InOrderIs ==
  ASSUME NEW S \in SUBSET Nat, IsFiniteSet(S)
  PROVE  /\ Events!InOrder(S) \in Seq(S) /\ Increasing(Events!InOrder(S))
         /\ \A x \in S : \E i \in DOMAIN Events!InOrder(S) : Events!InOrder(S)[i] = x
<1> DEFINE n == Cardinality(S)
           P(q) == Events!Range(q) = S /\ \A i, j \in DOMAIN q : i < j => q[i] < q[j]
<1>0. n \in Nat
  BY FS_CardinalityType
<1>1. \E q \in [1 .. n -> S] : P(q)
  <2>1. PICK q \in [1 .. n -> S] : Enumerates(q, S)
    BY OrderExists
  <2>2. Events!Range(q) = S
    BY <2>1 DEF Enumerates, Events!Range
  <2> QED
    BY <2>1, <2>2 DEF Enumerates, Increasing
<1>2. Events!InOrder(S) = CHOOSE q \in [1 .. n -> S] : P(q)
  BY EventsCardinality DEF Events!InOrder
<1> HIDE DEF P
<1>3. Events!InOrder(S) \in [1 .. n -> S] /\ P(Events!InOrder(S))
  BY <1>1, <1>2
<1> DEFINE q == Events!InOrder(S)
<1> HIDE DEF q
<1>4. q \in [1 .. n -> S] /\ P(q)
  BY <1>3 DEF q
<1>5. q \in Seq(S)
  BY <1>0, <1>4
<1>6. Increasing(q) /\ \A x \in S : \E i \in DOMAIN q : q[i] = x
  BY <1>4 DEF P, Increasing, Events!Range
<1> QED
  BY <1>5, <1>6 DEF q

-----------------------------------------------------------------------------
(***************************************************************************)
(* The labels.                                                             *)
(***************************************************************************)
\* The labels are finitely many numbers.
LEMMA LabelsNat ==
  /\ Labels \subseteq Nat /\ IsFiniteSet(Labels)
  /\ \A S \in SUBSET Labels : S \in SUBSET Nat /\ IsFiniteSet(S)
<1>1. UnitSamples * Units \in Nat
  BY LabelAssumption
<1>2. IsFiniteSet(0 .. UnitSamples * Units - 1)
  BY <1>1, FS_Interval
<1>3. IsFiniteSet(Labels)
  BY <1>2, LabelAssumption, FS_Subset
<1>4. \A S \in SUBSET Labels : IsFiniteSet(S)
  BY <1>3, FS_Subset
<1>5. Labels \subseteq Nat
  BY <1>1, LabelAssumption
<1> QED
  BY <1>3, <1>4, <1>5

\* The queue of labels in order.
LEMMA InOrderOfLabels ==
  ASSUME NEW S \in SUBSET Labels
  PROVE  /\ Events!InOrder(S) \in Seq(S) /\ Events!InOrder(S) \in Seq(Labels)
         /\ Increasing(Events!InOrder(S))
         /\ \A x : x \in S <=> \E i \in DOMAIN Events!InOrder(S) : Events!InOrder(S)[i] = x
<1> DEFINE q == Events!InOrder(S)
<1>1. q \in Seq(S) /\ Increasing(q) /\ \A x \in S : \E i \in DOMAIN q : q[i] = x
  BY LabelsNat, InOrderIs
<1> HIDE DEF q
<1>2. \A i \in DOMAIN q : q[i] \in S
  BY <1>1
<1>3. q \in Seq(Labels)
  <2>1. Len(q) \in Nat /\ q = [i \in 1 .. Len(q) |-> q[i]] /\ \A i \in 1 .. Len(q) : q[i] \in Labels
    BY <1>1
  <2> QED
    BY <2>1
<1>4. \A x : x \in S <=> \E i \in DOMAIN q : q[i] = x
  BY <1>1, <1>2
<1> QED
  BY <1>1, <1>3, <1>4 DEF q

\* What is fired after labels that are all before it.
LEMMA FiredMore ==
  ASSUME NEW a \in Seq(Labels), NEW S \in SUBSET Labels, Increasing(a),
         \A i \in DOMAIN a, x \in S : a[i] < x
  PROVE  LET c == a \o Events!InOrder(S)
         IN  /\ c \in Seq(Labels) /\ Increasing(c)
             /\ \A x : (\E k \in DOMAIN c : c[k] = x)
                       <=> ((\E k \in DOMAIN a : a[k] = x) \/ x \in S)
<1> DEFINE b == Events!InOrder(S)
           c == a \o Events!InOrder(S)
<1>1. /\ b \in Seq(S) /\ b \in Seq(Labels) /\ Increasing(b)
      /\ \A x : x \in S <=> \E i \in DOMAIN b : b[i] = x
  BY InOrderOfLabels
<1>2. c = a \o b
  OBVIOUS
<1> HIDE DEF b, c
<1>3. /\ Len(a) \in Nat /\ Len(b) \in Nat /\ Len(c) = Len(a) + Len(b) /\ c \in Seq(Labels)
      /\ DOMAIN a = 1 .. Len(a) /\ DOMAIN b = 1 .. Len(b) /\ DOMAIN c = 1 .. Len(c)
      /\ \A i \in 1 .. Len(c) : c[i] = IF i <= Len(a) THEN a[i] ELSE b[i - Len(a)]
  BY <1>1, <1>2
<1>4. \A i \in 1 .. Len(c) : \/ i \in 1 .. Len(a) /\ c[i] = a[i]
                             \/ i - Len(a) \in 1 .. Len(b) /\ c[i] = b[i - Len(a)]
  BY <1>3
<1>5. \A i \in 1 .. Len(a) : i \in 1 .. Len(c) /\ c[i] = a[i]
  BY <1>3
<1>6. \A i \in 1 .. Len(b) : i + Len(a) \in 1 .. Len(c) /\ c[i + Len(a)] = b[i]
  BY <1>3
<1>7. \A i \in 1 .. Len(b) : b[i] \in S
  BY <1>1
<1>8. Increasing(c)
  <2> SUFFICES ASSUME NEW i \in 1 .. Len(c), NEW j \in 1 .. Len(c), i < j PROVE c[i] < c[j]
    BY <1>3 DEF Increasing
  <2>1. CASE i \in 1 .. Len(a) /\ j \in 1 .. Len(a)
    BY <1>3, <1>5, <2>1 DEF Increasing
  <2>2. CASE i \in 1 .. Len(a) /\ ~(j \in 1 .. Len(a))
    <3>1. c[i] = a[i] /\ j - Len(a) \in 1 .. Len(b) /\ c[j] = b[j - Len(a)]
      BY <1>4, <1>5, <2>2
    <3> QED
      BY <1>3, <1>7, <2>2, <3>1
  <2>3. CASE ~(i \in 1 .. Len(a))
    <3>1. /\ i - Len(a) \in 1 .. Len(b) /\ c[i] = b[i - Len(a)]
          /\ j - Len(a) \in 1 .. Len(b) /\ c[j] = b[j - Len(a)]
      BY <1>3, <1>4, <2>3
    <3>2. i - Len(a) < j - Len(a)
      BY <1>3
    <3> QED
      BY <1>1, <1>3, <3>1, <3>2 DEF Increasing
  <2> QED
    BY <2>1, <2>2, <2>3
<1>9. ASSUME NEW x
      PROVE  (\E k \in DOMAIN c : c[k] = x) <=> ((\E k \in DOMAIN a : a[k] = x) \/ x \in S)
  <2>1. ASSUME NEW k \in DOMAIN c, c[k] = x PROVE (\E l \in DOMAIN a : a[l] = x) \/ x \in S
    BY <1>3, <1>4, <1>7, <2>1
  <2>2. ASSUME NEW k \in DOMAIN a, a[k] = x PROVE \E l \in DOMAIN c : c[l] = x
    BY <1>3, <1>5, <2>2
  <2>3. ASSUME x \in S PROVE \E l \in DOMAIN c : c[l] = x
    <3>1. PICK k \in 1 .. Len(b) : b[k] = x
      BY <1>1, <1>3, <2>3
    <3> QED
      BY <1>3, <1>6, <3>1
  <2> QED
    BY <2>1, <2>2, <2>3
<1> QED
  BY <1>3, <1>8, <1>9 DEF c

\* Where the labels are: of a sound that plays, those before the decoder are
\* fired or queued, those fired before those queued.
Placed(q, f, p) ==
  /\ \A x \in Labels : x < p <=> x \in q \/ \E i \in DOMAIN f : f[i] = x
  /\ \A i \in DOMAIN f, x \in q : f[i] < x

Flags ==
  /\ sounding \in BOOLEAN /\ dsSounding \in BOOLEAN /\ held \in BOOLEAN
  /\ awaited \in BOOLEAN /\ called \in BOOLEAN

Numbers ==
  /\ clock \in 0 .. MaxLabelTick /\ sent \in Nat /\ cached \in Nat /\ decodePos \in Nat
  /\ l1 \in [Events!Block -> Nat \cup {-1}] /\ l1Write \in Events!Block
  /\ labelQueue \subseteq Labels
  /\ lastPos \in Nat \cup {-1} /\ lastTick \in 0 .. MaxLabelTick
  /\ announced \in {0, 1} /\ filledAt \in -1 .. MaxLabelTick
  /\ fired \in Seq(Labels) /\ plays \in 0 .. MaxPlays

LEMMA TypesSplit == Events!TypeOK <=> Flags /\ Numbers
BY Zenon DEF Events!TypeOK, Flags, Numbers

Waited ==
  /\ announced = IF called THEN 1 ELSE 0
  /\ ~held /\ (sounding => dsSounding)
  /\ sounding /\ labelQueue # {} => awaited \/ called

LabelInv ==
  /\ Flags /\ Numbers /\ Waited
  /\ Increasing(fired)
  /\ sounding => Placed(labelQueue, fired, decodePos)

\* The labels: the invariant holds at the start, in every step, and gives
\* what is checked.
LEMMA LabelStart == ASSUME Events!Init PROVE LabelInv
<1>1. <<>> \in Seq(Labels) /\ 0 \in Events!Block
  BY EmptySeq, LabelAssumption DEF Events!Block
<1>2. Numbers
  BY <1>1, LabelAssumption DEF Events!Init, Numbers
<1>5. Flags
  BY Zenon DEF Events!Init, Flags
<1>3. Waited
  BY DEF Events!Init, Waited
<1>4. Increasing(fired) /\ ~sounding
  BY DEF Events!Init, Increasing
<1> QED
  BY <1>2, <1>3, <1>4, <1>5, Zenon DEF LabelInv

\* The position the playing thread takes from the blocks.
LEMMA CheckedPlace ==
  ASSUME Numbers
  PROVE  /\ Events!CheckedBlock \in Events!Block
         /\ l1[Events!CheckedBlock] # -1 => Events!CheckedPos \in Nat
<1>1. sent \in Nat /\ cached \in Nat /\ l1Write \in Events!Block
      /\ l1 \in [Events!Block -> Nat \cup {-1}]
  BY DEF Numbers
<1> DEFINE p == Events!PlaySamples
<1>2. p \in Nat
  BY <1>1 DEF Events!PlaySamples
<1> HIDE DEF p
<1>3. p \div UnitSamples \in Nat /\ p % UnitSamples \in Nat
  BY <1>2, LabelAssumption, LabelDivMod
<1>4. (p \div UnitSamples) % L1Units \in Events!Block
  BY <1>3, LabelAssumption, LabelDivMod DEF Events!Block
<1>5. Events!CheckedBlock = IF cached = 0 THEN l1Write ELSE (p \div UnitSamples) % L1Units
  BY DEF Events!CheckedBlock, p
<1>6. Events!CheckedBlock \in Events!Block
  BY <1>1, <1>4, <1>5, Zenon
<1> DEFINE b == Events!CheckedBlock
<1>7. Events!CheckedPos = l1[b] + (IF cached = 0 THEN 0 ELSE p % UnitSamples)
  BY DEF Events!CheckedPos, p
<1> HIDE DEF b
<1>8. l1[b] # -1 => l1[b] \in Nat
  BY <1>1, <1>6 DEF b
<1>9. l1[b] # -1 => Events!CheckedPos \in Nat
  BY <1>3, <1>7, <1>8
<1> QED
  BY <1>6, <1>9 DEF b

\* What the playing thread remembers of its last check.
LEMMA CheckedLater ==
  ASSUME Numbers, Events!ResetLastChecked \/ UNCHANGED <<lastPos, lastTick>>
  PROVE  lastPos' \in Nat \cup {-1} /\ lastTick' \in 0 .. MaxLabelTick
<1>1. CASE Events!ResetLastChecked
  <2>1. CASE l1[Events!CheckedBlock] # -1
    <3>1. lastPos' = Events!CheckedPos /\ lastTick' = clock
      BY <1>1, <2>1 DEF Events!ResetLastChecked
    <3>2. clock \in 0 .. MaxLabelTick
      BY DEF Numbers
    <3> QED
      BY <2>1, <3>1, <3>2, CheckedPlace
  <2>2. CASE ~(l1[Events!CheckedBlock] # -1)
    <3>1. UNCHANGED <<lastPos, lastTick>>
      BY <1>1, <2>2 DEF Events!ResetLastChecked, Events!checkVars
    <3> QED
      BY <3>1 DEF Numbers
  <2> QED
    BY <2>1, <2>2
<1>2. CASE UNCHANGED <<lastPos, lastTick>>
  BY <1>2 DEF Numbers
<1> QED
  BY <1>1, <1>2

\* The five ways a filled buffer, a clock and an event go on: everything but
\* the flags and the place of the labels.
LEMMA NumbersStay == ASSUME Numbers, Waited, Events!Next PROVE Numbers'
<1> USE DEF Events!vars, Events!nowVars, Events!streamVars, Events!checkVars, Events!wakeVars,
            Events!firedVars
<1>0. /\ 0 \in Events!Block /\ 1 \in Events!Block /\ UnitSamples \in Nat
      /\ <<>> \in Seq(Labels) /\ \A n : Events!LabelsOf(n) \subseteq Labels
  BY LabelAssumption, EmptySeq DEF Events!Block, Events!LabelsOf
<1>1. CASE Events!StartPlay
  BY <1>0, <1>1, LabelAssumption DEF Events!StartPlay, Numbers
<1>2. CASE Events!StopPlay
  BY <1>2 DEF Events!StopPlay, Numbers
<1>3. CASE Events!SetPaused
  BY <1>3 DEF Events!SetPaused, Numbers
<1>4. CASE Events!Fill
  <2>1. filledAt' \in -1 .. MaxLabelTick
    BY <1>4 DEF Events!Fill, Numbers
  <2>2. CASE Events!FillPauses
    BY <2>1, <2>2 DEF Events!FillPauses, Numbers
  <2>3. CASE Events!FillEnds
    <3>1. lastPos' \in Nat \cup {-1} /\ lastTick' \in 0 .. MaxLabelTick
      BY <2>3, CheckedLater DEF Events!FillEnds
    <3>2. fired' \in Seq(Labels)
      <4>1. labelQueue \in SUBSET Labels /\ fired \in Seq(Labels)
        BY DEF Numbers
      <4>2. Events!InOrder(labelQueue) \in Seq(Labels)
        BY <4>1, InOrderOfLabels
      <4>3. fired' = fired \o Events!InOrder(labelQueue)
        BY <2>3 DEF Events!FillEnds, Events!Flushed
      <4> QED
        BY <4>1, <4>2, <4>3
    <3> QED
      BY <2>1, <2>3, <3>1, <3>2 DEF Events!FillEnds, Numbers
  <2>4. CASE Events!FillFull
    <3>1. lastPos' \in Nat \cup {-1} /\ lastTick' \in 0 .. MaxLabelTick
      BY <2>4, CheckedLater DEF Events!FillFull
    <3> QED
      BY <2>1, <2>4, <3>1 DEF Events!FillFull, Numbers
  <2>5. CASE Events!FillUnit
    <3>1. lastPos' \in Nat \cup {-1} /\ lastTick' \in 0 .. MaxLabelTick
      BY <2>5, CheckedLater DEF Events!FillUnit
    <3>2. l1Write' \in Events!Block
      <4>1. l1Write + 1 \in Nat
        BY DEF Numbers, Events!Block
      <4>2. (l1Write + 1) % L1Units \in Events!Block
        BY <4>1, LabelAssumption, LabelDivMod DEF Events!Block
      <4> QED
        BY <2>5, <4>2 DEF Events!FillUnit
    <3>3. labelQueue' \subseteq Labels
      BY <1>0, <2>5 DEF Events!FillUnit, Events!Queued, Numbers
    <3>4. cached' \in Nat
      <4>1. cached \in Nat /\ cached + UnitSamples \in Nat
        BY <1>0 DEF Numbers
      <4> QED
        BY <2>5, <4>1 DEF Events!FillUnit
    <3>5. decodePos' \in Nat /\ l1' \in [Events!Block -> Nat \cup {-1}]
      BY <1>0, <2>5 DEF Events!FillUnit, Numbers
    <3> QED
      BY <2>1, <2>5, <3>1, <3>2, <3>3, <3>4, <3>5 DEF Events!FillUnit, Numbers
  <2> QED
    BY <1>4, <2>2, <2>3, <2>4, <2>5 DEF Events!Fill
<1>5. CASE Events!Tick
  <2>1. sent \in Nat /\ cached \in Nat /\ clock \in 0 .. MaxLabelTick
    BY DEF Numbers
  <2>2. sent' \in Nat /\ cached' \in Nat
    BY <1>5, <2>1 DEF Events!Tick
  <2>3. clock' \in 0 .. MaxLabelTick
    BY <1>5, <2>1, LabelAssumption DEF Events!Tick
  <2> QED
    BY <1>5, <2>2, <2>3 DEF Events!Tick, Numbers
<1>6. CASE Events!PostLabelEvent
  <2>1. announced' = 1
    BY <1>6 DEF Events!PostLabelEvent, Waited
  <2> QED
    BY <1>6, <2>1 DEF Events!PostLabelEvent, Numbers
<1>7. CASE Events!FireLabels
  <2> DEFINE due == {x \in labelQueue : x <= Events!ReachedPos}
  <2>1. /\ fired' = fired \o Events!InOrder(due) /\ labelQueue' = labelQueue \ due
        /\ Events!ResetLastChecked \/ UNCHANGED <<lastPos, lastTick>>
        /\ announced' = announced - 1 /\ announced > 0
        /\ UNCHANGED <<clock, filledAt, plays, sent, cached, decodePos, l1, l1Write>>
    BY <1>7 DEF Events!FireLabels
  <2>2. lastPos' \in Nat \cup {-1} /\ lastTick' \in 0 .. MaxLabelTick
    BY <2>1, CheckedLater
  <2>3. due \in SUBSET Labels /\ fired \in Seq(Labels) /\ labelQueue \ due \subseteq Labels
    BY DEF Numbers
  <2> HIDE DEF due
  <2>4. Events!InOrder(due) \in Seq(Labels)
    BY <2>3, InOrderOfLabels
  <2>5. fired' \in Seq(Labels)
    BY <2>1, <2>3, <2>4
  <2> QED
    BY <2>1, <2>2, <2>3, <2>5 DEF Numbers
<1>8. CASE Events!FireNothing
  BY <1>8 DEF Events!FireNothing, Numbers
<1> QED
  BY <1>1, <1>2, <1>3, <1>4, <1>5, <1>6, <1>7, <1>8 DEF Events!Next

LEMMA FlagsStay == ASSUME Flags, Waited, Events!Next PROVE Flags' /\ Waited'
<1> USE DEF Events!vars, Events!nowVars, Events!streamVars, Events!checkVars, Events!wakeVars,
            Events!firedVars
<1>1. CASE Events!StartPlay
  BY <1>1, Zenon DEF Events!StartPlay, Flags, Waited
<1>2. CASE Events!StopPlay
  BY <1>2, Zenon DEF Events!StopPlay, Flags, Waited
<1>3. CASE Events!SetPaused
  BY <1>3, Zenon DEF Events!SetPaused
<1>4. CASE Events!Fill
  <2>2. CASE Events!FillPauses
    BY <2>2, Zenon DEF Events!FillPauses, Waited
  <2>3. CASE Events!FillEnds
    BY <2>3, Zenon DEF Events!FillEnds, Flags, Waited
  <2>4. CASE Events!FillFull
    BY <2>4, Zenon DEF Events!FillFull, Flags, Waited
  <2>5. CASE Events!FillUnit
    <3> DEFINE new == Events!LabelsOf(decodePos)
    <3>1. labelQueue' = labelQueue \cup new /\ awaited' = (awaited \/ new # {})
      BY <2>5 DEF Events!FillUnit, Events!Queued, Events!Rescheduled
    <3> HIDE DEF new
    <3>2. awaited' \in BOOLEAN
      BY <3>1, Zenon DEF Flags
    <3>3. labelQueue' # {} => labelQueue # {} \/ new # {}
      BY <3>1, Zenon
    <3>4. dsSounding' = TRUE /\ UNCHANGED <<sounding, held, called, announced>>
      BY <2>5 DEF Events!FillUnit
    <3>5. Flags'
      BY <3>2, <3>4, Zenon DEF Flags
    <3>6. sounding /\ labelQueue' # {} => awaited' \/ called
      BY <3>1, <3>3, Zenon DEF Waited
    <3> QED
      BY <3>4, <3>5, <3>6, Zenon DEF Waited
  <2> QED
    BY <1>4, <2>2, <2>3, <2>4, <2>5 DEF Events!Fill
<1>5. CASE Events!Tick
  BY <1>5, Zenon DEF Events!Tick, Flags, Waited
<1>6. CASE Events!PostLabelEvent
  <2>1. announced' = 1
    BY <1>6 DEF Events!PostLabelEvent, Waited
  <2> QED
    BY <1>6, <2>1, Zenon DEF Events!PostLabelEvent, Flags, Waited
<1>7. CASE Events!FireLabels
  <2> DEFINE due == {x \in labelQueue : x <= Events!ReachedPos}
  <2>1. /\ labelQueue' = labelQueue \ due /\ awaited' = (labelQueue # due)
        /\ announced' = announced - 1 /\ announced > 0 /\ called' = FALSE
        /\ UNCHANGED <<held, sounding, dsSounding>>
    BY <1>7 DEF Events!FireLabels
  <2> HIDE DEF due
  <2>2. announced' = 0
    BY <2>1 DEF Waited
  <2>3. labelQueue' # {} => labelQueue # due
    BY <2>1, Zenon
  <2> QED
    BY <2>1, <2>2, <2>3, Zenon DEF Flags, Waited
<1>8. CASE Events!FireNothing
  <2>1. announced' = announced - 1 /\ announced > 0
    BY <1>8 DEF Events!FireNothing
  <2>2. announced' = 0
    BY <2>1 DEF Waited
  <2> QED
    BY <1>8, <2>2, Zenon DEF Events!FireNothing, Flags, Waited
<1> QED
  BY <1>1, <1>2, <1>3, <1>4, <1>5, <1>6, <1>7, <1>8 DEF Events!Next

\* The place of the labels.
Places == Increasing(fired) /\ (sounding => Placed(labelQueue, fired, decodePos))

\* Labels that are fired leave the queue for the end of what was fired.
LEMMA FiringKeeps ==
  ASSUME Numbers, Places, sounding, NEW due \in SUBSET labelQueue,
         \A x \in due, y \in labelQueue \ due : x < y,
         fired' = fired \o Events!InOrder(due)
  PROVE  Increasing(fired') /\ Placed(labelQueue \ due, fired', decodePos)
<1>1. due \in SUBSET Labels /\ fired \in Seq(Labels) /\ labelQueue \subseteq Labels
  BY DEF Numbers
<1>2. Increasing(fired) /\ Placed(labelQueue, fired, decodePos)
  BY DEF Places
<1>3. \A i \in DOMAIN fired, x \in due : fired[i] < x
  BY <1>2 DEF Placed
<1> DEFINE c == fired'
<1>4. c = fired \o Events!InOrder(due)
  OBVIOUS
<1> HIDE DEF c
<1>5. /\ c \in Seq(Labels) /\ Increasing(c)
      /\ \A x : (\E k \in DOMAIN c : c[k] = x) <=> ((\E k \in DOMAIN fired : fired[k] = x) \/ x \in due)
  <2>1. due \in SUBSET Labels
    BY <1>1
  <2>2. fired \in Seq(Labels)
    BY <1>1
  <2>3. Increasing(fired)
    BY <1>2
  <2> DEFINE d == fired \o Events!InOrder(due)
  <2>4. /\ d \in Seq(Labels) /\ Increasing(d)
        /\ \A x : (\E k \in DOMAIN d : d[k] = x) <=> ((\E k \in DOMAIN fired : fired[k] = x) \/ x \in due)
    BY <2>1, <2>2, <2>3, <1>3, FiredMore
  <2> QED
    BY <2>4, <1>4
<1>6. ASSUME NEW x \in Labels
      PROVE  x < decodePos <=> x \in labelQueue \ due \/ \E i \in DOMAIN c : c[i] = x
  BY <1>2, <1>5, Zenon DEF Placed
<1>7. ASSUME NEW i \in DOMAIN c, NEW y \in labelQueue \ due PROVE c[i] < y
  <2>1. (\E k \in DOMAIN fired : fired[k] = c[i]) \/ c[i] \in due
    BY <1>5, Zenon
  <2>2. CASE c[i] \in due
    BY <2>2
  <2>3. CASE \E k \in DOMAIN fired : fired[k] = c[i]
    BY <1>2, <2>3 DEF Placed
  <2> QED
    BY <2>1, <2>2, <2>3
<1> QED
  BY <1>5, <1>6, <1>7, Zenon DEF Placed, c

\* The steps and where the labels are.
LEMMA PlacesStay == ASSUME Numbers, Waited, Places, Events!Next PROVE Places'
<1> USE DEF Events!vars, Events!nowVars, Events!streamVars, Events!checkVars, Events!wakeVars,
            Events!firedVars
<1>0. \A x \in Labels : x \in Nat
  BY LabelsNat
<1>1. CASE Events!StartPlay
  <2>1. fired' = <<>> /\ labelQueue' = Events!LabelsOf(0) /\ decodePos' = UnitSamples
    BY <1>1 DEF Events!StartPlay
  <2>2. \A x \in Labels : x < UnitSamples <=> x \in Events!LabelsOf(0)
    BY <1>0, LabelAssumption DEF Events!LabelsOf
  <2> QED
    BY <2>1, <2>2 DEF Places, Placed, Increasing
<1>2. CASE Events!StopPlay
  BY <1>2 DEF Events!StopPlay, Places
<1>3. CASE Events!SetPaused \/ Events!Tick \/ Events!PostLabelEvent \/ Events!FireNothing
  BY <1>3 DEF Events!SetPaused, Events!Tick, Events!PostLabelEvent, Events!FireNothing, Places
<1>4. CASE Events!FillPauses \/ Events!FillFull
  BY <1>4 DEF Events!FillPauses, Events!FillFull, Places
<1>5. CASE Events!FillEnds
  <2>1. sounding /\ fired' = fired \o Events!InOrder(labelQueue) /\ ~sounding'
    BY <1>5 DEF Events!FillEnds, Events!Flushed
  <2>2. Increasing(fired')
    BY <2>1, FiringKeeps
  <2> QED
    BY <2>1, <2>2 DEF Places
<1>6. CASE Events!FillUnit
  <2> DEFINE new == Events!LabelsOf(decodePos)
             q == labelQueue \cup new
             p == decodePos + UnitSamples
  <2>1. sounding /\ sounding' = sounding /\ labelQueue' = q /\ decodePos' = p /\ fired' = fired
    BY <1>6 DEF Events!FillUnit, Events!Queued
  <2>2. Placed(labelQueue, fired, decodePos) /\ Increasing(fired)
    BY <2>1 DEF Places
  <2>3. decodePos \in Nat /\ fired \in Seq(Labels)
    BY DEF Numbers
  <2>4. \A x \in Labels : x < p <=> x < decodePos \/ x \in new
    BY <1>0, <2>3, LabelAssumption DEF Events!LabelsOf
  <2>5. \A i \in DOMAIN fired : fired[i] \in Labels /\ fired[i] < decodePos
    BY <2>2, <2>3 DEF Placed
  <2>6. \A x \in new : x \in Labels /\ decodePos <= x
    BY DEF Events!LabelsOf
  <2> HIDE DEF new, p
  <2>7. \A i \in DOMAIN fired, x \in new : fired[i] < x
    BY <1>0, <2>3, <2>5, <2>6
  <2>8. Placed(q, fired, p)
    BY <2>2, <2>4, <2>7, Zenon DEF Placed
  <2> QED
    BY <2>1, <2>2, <2>8 DEF Places
<1>7. CASE Events!FireLabels
  <2> DEFINE due == {x \in labelQueue : x <= Events!ReachedPos}
  <2>1. /\ fired' = fired \o Events!InOrder(due) /\ labelQueue' = labelQueue \ due
        /\ Events!ResetLastChecked \/ UNCHANGED <<lastPos, lastTick>>
        /\ sounding /\ sounding' = sounding
        /\ UNCHANGED <<clock, decodePos>>
    BY <1>7 DEF Events!FireLabels
  <2>2. lastPos' \in Nat \cup {-1} /\ lastTick' \in 0 .. MaxLabelTick
    BY <2>1, CheckedLater
  <2>3. Events!ReachedPos \in Int
    BY <2>2, LabelAssumption DEF Events!ReachedPos, Numbers
  <2>4. labelQueue \subseteq Labels
    BY DEF Numbers
  <2>5. \A x \in due, y \in labelQueue \ due : x < y
    BY <1>0, <2>3, <2>4
  <2>6. due \in SUBSET labelQueue
    OBVIOUS
  <2> HIDE DEF due
  <2>7. Increasing(fired') /\ Placed(labelQueue \ due, fired', decodePos)
    BY <2>1, <2>5, <2>6, FiringKeeps
  <2> QED
    BY <2>1, <2>7 DEF Places
<1> QED
  BY <1>1, <1>2, <1>3, <1>4, <1>5, <1>6, <1>7 DEF Events!Next, Events!Fill

LEMMA LabelStays == ASSUME LabelInv, Events!Next PROVE LabelInv'
<1>1. Numbers /\ Waited /\ Places /\ Flags
  BY Zenon DEF LabelInv, Places
<1>2. Numbers' /\ Waited' /\ Places' /\ Flags'
  BY <1>1, NumbersStay, FlagsStay, PlacesStay
<1> QED
  BY <1>2, Zenon DEF LabelInv, Places

LEMMA LabelHolds ==
  ASSUME LabelInv PROVE Events!TypeOK /\ Events!FiredInOrder /\ Events!LabelsAwaited
<1>1. Events!TypeOK
  BY TypesSplit, Zenon DEF LabelInv
<1>2. Events!FiredInOrder
  BY Zenon DEF LabelInv, Increasing, Events!FiredInOrder
<1>3. called => announced > 0
  BY DEF LabelInv, Waited
<1>4. Events!LabelsAwaited
  BY <1>3, Zenon DEF LabelInv, Waited, Events!LabelsAwaited
<1> QED
  BY <1>1, <1>2, <1>4

\* What was not fired when the sound ends is flushed.
LEMMA EndFiresAll == ASSUME LabelInv, Events!FillEnds PROVE Events!Range(fired') = Labels
<1>0. Numbers /\ Places
  BY Zenon DEF LabelInv, Places
<1>1. /\ sounding /\ decodePos >= UnitSamples * Units
      /\ fired' = fired \o Events!InOrder(labelQueue)
  BY DEF Events!FillEnds, Events!Flushed, Events!AllDecoded
<1>2. Increasing(fired') /\ Placed(labelQueue \ labelQueue, fired', decodePos)
  BY <1>0, <1>1, FiringKeeps
<1>3. \A x \in Labels : x < decodePos
  <2> DEFINE n == UnitSamples * Units
  <2>1. n \in Nat /\ decodePos >= n /\ decodePos \in Nat /\ Labels \subseteq 0 .. n - 1
    BY <1>0, <1>1, LabelAssumption DEF Numbers
  <2> HIDE DEF n
  <2> QED
    BY <2>1
<1>4. fired' \in Seq(Labels)
  <2>1. labelQueue \in SUBSET Labels /\ fired \in Seq(Labels)
    BY <1>0 DEF Numbers
  <2>2. Events!InOrder(labelQueue) \in Seq(Labels)
    BY <2>1, InOrderOfLabels
  <2> QED
    BY <1>1, <2>1, <2>2
<1>5. \A x \in Labels : \E i \in DOMAIN fired' : fired'[i] = x
  BY <1>2, <1>3, Zenon DEF Placed
<1>6. \A i \in DOMAIN fired' : fired'[i] \in Labels
  BY <1>4
<1> QED
  BY <1>5, <1>6, Zenon DEF Events!Range

-----------------------------------------------------------------------------
(***************************************************************************)
(* The timers.                                                             *)
(***************************************************************************)
\* A set of numbers has a least.
LEMMA LeastOf ==
  ASSUME NEW S, S \subseteq Nat, S # {}
  PROVE  Min(S) \in S /\ \A n \in S : Min(S) <= n
<1>1. PICK m \in S : \A n \in S : <<n, m>> \notin Earlier
  BY EarlierWellFounded, WFMin
<1>2. \A n \in S : m <= n
  <2> TAKE n \in S
  <2>1. m \in Nat /\ n \in Nat /\ ~ (n < m)
    BY <1>1 DEF Earlier
  <2> QED
    BY <2>1
<1> QED
  BY <1>2 DEF Min

\* The greater and the lesser of two numbers.
LEMMA Extremes ==
  ASSUME NEW m \in Nat, NEW n \in Nat
  PROVE  /\ Max({m, n}) \in Nat /\ Max({m, n}) >= m /\ Max({m, n}) >= n
         /\ Max({m, n}) \in {m, n}
         /\ Min({m, n}) \in {m, n}
         /\ m = 0 => Min({m, n}) = 0
<1>1. \E x \in {m, n} : \A y \in {m, n} : x >= y
  <2>1. CASE m >= n
    BY <2>1
  <2>2. CASE n >= m
    BY <2>2
  <2> QED
    BY <2>1, <2>2
<1>2. Max({m, n}) \in {m, n} /\ \A y \in {m, n} : Max({m, n}) >= y
  BY <1>1 DEF Max
<1>3. Min({m, n}) \in {m, n} /\ \A y \in {m, n} : Min({m, n}) <= y
  BY LeastOf
<1> QED
  BY <1>2, <1>3

\* A number is its quotient and its remainder.
LEMMA Quotient ==
  ASSUME NEW n \in Nat \ {0}, NEW a \in Nat
  PROVE  a % n \in 0 .. n - 1 /\ a = n * (a \div n) + (a % n) /\ a \div n \in Int
BY SMT

\* The quotient and one more, times the divisor, is more than the number.
LEMMA NextMultiple ==
  ASSUME NEW n \in Nat \ {0}, NEW a \in Nat
  PROVE  a \div n + 1 \in Nat \ {0} /\ (a \div n + 1) * n > a
<1> DEFINE q == a \div n  r == a % n
<1>1. r \in 0 .. n - 1 /\ a = n * q + r /\ q \in Int
  BY Quotient
<1> HIDE DEF q, r
<1>2. q >= 0
  <2> SUFFICES ASSUME q < 0 PROVE FALSE
    BY <1>1
  <2>1. q = -1 \/ q + 1 < 0
    BY <1>1
  <2>2. n * q <= -n
    BY <1>1, <2>1
  <2> QED
    BY <1>1, <2>2
<1>3. (q + 1) * n = n * q + n
  BY <1>1
<1> QED
  BY <1>1, <1>2, <1>3 DEF q

TimerTypes ==
  /\ list \subseteq Timer /\ enabled \subseteq Timer /\ pending \subseteq Timer
  /\ interval \in [Timer -> Nat] /\ next \in [Timer -> Nat] /\ count \in [Timer -> Nat]
  /\ posted \in [Timer -> Nat] /\ now \in Nat /\ sleeps \in Nat
  /\ native \in {0, 1} /\ available \in BOOLEAN

\* The inductive invariant: what is checked is inductive but for the types.
TimerInv == TimerTypes /\ TimersAgree

\* After a pass every running timer is due now or later.
LEMMA PassAdvances ==
  ASSUME TimerTypes, NEW t \in Running
  PROVE  NextTick(t) \in Nat /\ NextTick(t) >= now
<1>1. t \in Timer /\ interval[t] \in Nat \ {0} /\ next[t] \in Nat /\ now \in Nat
  BY DEF Running, TimerTypes
<1>2. CASE t \notin Due
  BY <1>1, <1>2 DEF Due, NextTick
<1>3. CASE t \in Due
  <2>1. now - next[t] \in Nat
    BY <1>1, <1>3 DEF Due
  <2>2. Passed(t) \in Nat \ {0} /\ Passed(t) * interval[t] > now - next[t]
    BY <1>1, <2>1, NextMultiple DEF Passed
  <2>3. Passed(t) * interval[t] \in Nat
    BY <1>1, <2>2
  <2>4. CASE Passed(t) > Burst
    BY <1>1, <1>3, <2>4 DEF NextTick
  <2>5. CASE ~ (Passed(t) > Burst)
    <3>1. NextTick(t) = next[t] + Passed(t) * interval[t]
      BY <1>3, <2>5 DEF NextTick
    <3> QED
      BY <1>1, <2>2, <2>3, <3>1
  <2> QED
    BY <2>4, <2>5
<1> QED
  BY <1>2, <1>3

\* A timer that is due is triggered.
LEMMA TriggeredOnce ==
  ASSUME TimerTypes, NEW t \in Due
  PROVE  Triggered(t) \in Nat \ {0}
<1>1. t \in Timer /\ interval[t] \in Nat \ {0} /\ now - next[t] \in Nat
  BY DEF Due, Running, TimerTypes
<1> QED
  BY <1>1, NextMultiple DEF Triggered, Passed

\* The timers: the invariant holds at the start and in every step.
LEMMA TimerStart == Init => TimerInv
<1> SUFFICES ASSUME Init PROVE TimerInv
  OBVIOUS
<1>1. Max(Intervals) \in Nat
  BY TimerAssumption DEF Max
<1>2. list \subseteq Timer /\ enabled \subseteq Timer /\ pending \subseteq Timer
  BY DEF Init
<1>4. /\ interval \in [Timer -> Nat] /\ next \in [Timer -> Nat] /\ count \in [Timer -> Nat]
      /\ posted \in [Timer -> Nat]
  BY <1>1 DEF Init
<1>5. now \in Nat /\ sleeps \in Nat /\ native \in {0, 1}
  BY TimerAssumption DEF Init, Forever
<1>6. available \in BOOLEAN
  BY DEF Init
<1>3. TimersAgree
  BY DEF Init, TimersAgree, NoLostTrigger, WakesInTime, DisabledIsSilent
<1> QED
  BY <1>2, <1>3, <1>4, <1>5, <1>6 DEF TimerInv, TimerTypes

LEMMA PassStays == ASSUME TimerInv, Pass PROVE TimerInv'
<1>1. TimerTypes /\ TimersAgree
  BY DEF TimerInv
<1>2. UNCHANGED <<now, list, enabled, interval, posted>>
  BY DEF Pass
<1>3. \A t \in Timer : NextTick(t) \in Nat
  BY <1>1, PassAdvances DEF NextTick, Due, TimerTypes
<1>4. next' \in [Timer -> Nat] /\ \A t \in Running : next'[t] >= now
  BY <1>1, <1>3, PassAdvances DEF Pass, Running, TimerTypes
<1>5. count' \in [Timer -> Nat] /\ \A t \in Due : count'[t] > 0
  <2>1. \A t \in Due : t \in Timer /\ count[t] \in Nat /\ Triggered(t) \in Nat \ {0}
    BY <1>1, TriggeredOnce DEF Due, Running, TimerTypes
  <2>2. \A t \in Due : count'[t] = count[t] + Triggered(t)
    BY <2>1 DEF Pass
  <2>3. \A t \in Timer : count'[t] \in Nat
    BY <1>1, <2>1 DEF Pass, TimerTypes
  <2> QED
    BY <2>1, <2>2, <2>3 DEF Pass
<1>6. sleeps' \in Nat /\ \A t \in Running : sleeps' <= next'[t] + Least
  <2>1. CASE Running = {}
    BY <1>1, <2>1, TimerAssumption DEF TimerTypes, Pass, Forever
  <2>2. CASE Running # {}
    <3> DEFINE waits == {next'[t] - now : t \in Running}
    <3>1. waits \subseteq Nat /\ waits # {}
      <4>1. \A t \in Running : next'[t] \in Nat /\ next'[t] >= now
        BY <1>1, <1>4 DEF TimerTypes, Running
      <4>2. \A t \in Running : next'[t] - now \in Nat
        BY <1>1, <4>1 DEF TimerTypes
      <4> QED
        BY <2>2, <4>2
    <3>2. Min(waits) \in Nat /\ \A t \in Running : Min(waits) <= next'[t] - now
      BY <3>1, LeastOf
    <3>3. sleeps' = now + Max({Least, Min(waits)})
      BY <2>2 DEF Pass
    <3> HIDE DEF waits
    <3> DEFINE m == Max({Least, Min(waits)})
    <3>4. m \in Nat /\ m \in {Least, Min(waits)}
      BY <3>2, Extremes, TimerAssumption
    <3>5. \A t \in Running : next'[t] \in Nat /\ next'[t] >= now
      BY <1>1, <1>4 DEF Running, TimerTypes
    <3> HIDE DEF m
    <3>6. sleeps' = now + m
      BY <3>3 DEF m
    <3> QED
      BY <1>1, <3>2, <3>4, <3>5, <3>6, TimerAssumption DEF TimerTypes
  <2> QED
    BY <2>1, <2>2
<1>7. native' \in {0, 1} /\ available' \in BOOLEAN /\ (native' = 1 <=> available')
      /\ (Due # {} => native' = 1) /\ (native = 1 => native' = 1)
  <2>1. native \in {0, 1} /\ available \in BOOLEAN /\ (native = 1 <=> available)
    BY <1>1 DEF TimerTypes, TimersAgree, NoLostTrigger
  <2>2. CASE Due = {}
    <3>1. native' = native /\ available' = available
      BY <2>1, <2>2 DEF Pass
    <3> QED
      BY <2>1, <2>2, <3>1
  <2>3. CASE Due # {} /\ available
    <3>1. native' = native /\ available' = TRUE
      BY <2>3 DEF Pass
    <3> QED
      BY <2>1, <2>3, <3>1
  <2>4. CASE Due # {} /\ ~available
    <3>1. native' = native + 1 /\ available' = TRUE
      BY <2>4 DEF Pass
    <3>2. native = 0
      BY <2>1, <2>4
    <3>3. native' = 1
      BY <3>1, <3>2
    <3> QED
      BY <3>1, <3>3
  <2> QED
    BY <2>1, <2>2, <2>3, <2>4
<1>8. TimerTypes'
  BY <1>1, <1>2, <1>4, <1>5, <1>6, <1>7 DEF TimerTypes, Pass, Registered, Due, Running
<1>9. NoLostTrigger'
  <2>1. \A t \in Timer \ Due : count'[t] = count[t]
    BY DEF Pass
  <2>2. \A t \in list : count'[t] > 0 => t \in pending'
    BY <1>1, <2>1 DEF Pass, Registered, TimerTypes, TimersAgree, NoLostTrigger
  <2>3. (\E t \in list : count'[t] > 0) => native' = 1
    BY <1>1, <1>7, <2>1 DEF TimerTypes, TimersAgree, NoLostTrigger
  <2> QED
    BY <1>2, <1>7, <2>2, <2>3 DEF NoLostTrigger
<1>10. WakesInTime'
  BY <1>2, <1>6 DEF WakesInTime, Running
<1>11. DisabledIsSilent'
  BY <1>1, <1>2 DEF DisabledIsSilent, TimersAgree, Pass, Due, Running
<1> QED
  BY <1>8, <1>9, <1>10, <1>11 DEF TimerInv, TimersAgree

LEMMA ProcStays == ASSUME TimerInv, Proc PROVE TimerInv'
<1>1. TimerTypes /\ TimersAgree
  BY DEF TimerInv
<1>2. \A t \in Timer : posted[t] + count[t] \in Nat
  BY <1>1 DEF TimerTypes
<1>3. \A t \in Timer : /\ Min({posted[t] + count[t], Capacity}) \in Nat
                       /\ posted[t] + count[t] = 0 => Min({posted[t] + count[t], Capacity}) = 0
  BY <1>2, Extremes, TimerAssumption
<1>4. TimerTypes'
  <2>1. native' = 0 /\ available' = FALSE
    BY <1>1 DEF TimerTypes, Proc, FlagReset
  <2>2. /\ posted' \in [Timer -> Nat] /\ count' \in [Timer -> Nat] /\ pending' = {}
        /\ UNCHANGED <<now, list, enabled, interval, next, sleeps>>
    BY <1>1, <1>3 DEF TimerTypes, Proc
  <2> QED
    BY <1>1, <2>1, <2>2 DEF TimerTypes
<1>5. NoLostTrigger'
  BY <1>1, <1>4 DEF TimerTypes, TimersAgree, NoLostTrigger, Proc, FlagReset
<1>6. WakesInTime'
  BY <1>1 DEF TimersAgree, WakesInTime, Running, Proc
<1>7. DisabledIsSilent'
  BY <1>1, <1>3 DEF TimerTypes, TimersAgree, DisabledIsSilent, Proc
<1> QED
  BY <1>4, <1>5, <1>6, <1>7 DEF TimerInv, TimersAgree

LEMMA TimerCallStays ==
  ASSUME TimerInv, NEW t \in Timer,
         Add(t) \/ Remove(t) \/ Enable(t) \/ Disable(t) \/ OnTimer(t)
         \/ \E n \in Intervals : SetInterval(t, n)
  PROVE  TimerInv'
<1>1. TimerTypes /\ TimersAgree
  BY DEF TimerInv
<1>2. CASE Add(t)
  BY <1>1, <1>2 DEF TimerInv, TimerTypes, TimersAgree, NoLostTrigger, WakesInTime,
     DisabledIsSilent, Running, Add, threadVars
<1>3. CASE Remove(t)
  BY <1>1, <1>3 DEF TimerInv, TimerTypes, TimersAgree, NoLostTrigger, WakesInTime,
     DisabledIsSilent, Running, Remove, threadVars
<1>4. CASE Enable(t)
  BY <1>1, <1>4 DEF TimerInv, TimerTypes, TimersAgree, NoLostTrigger, WakesInTime,
     DisabledIsSilent, Running, Enable, Wakes
<1>5. CASE Disable(t)
  BY <1>1, <1>5 DEF TimerInv, TimerTypes, TimersAgree, NoLostTrigger, WakesInTime,
     DisabledIsSilent, Running, Disable, threadVars, Zeroed
<1>6. CASE OnTimer(t)
  BY <1>1, <1>6 DEF TimerInv, TimerTypes, TimersAgree, NoLostTrigger, WakesInTime,
     DisabledIsSilent, Running, OnTimer, timerVars, threadVars
<1>7. ASSUME NEW n \in Intervals, SetInterval(t, n) PROVE TimerInv'
  BY <1>1, <1>7, TimerAssumption DEF TimerInv, TimerTypes, TimersAgree, NoLostTrigger,
     WakesInTime, DisabledIsSilent, Running, SetInterval, Wakes, Zeroed
<1> QED
  BY <1>2, <1>3, <1>4, <1>5, <1>6, <1>7

LEMMA TimerStays == ASSUME TimerInv, [Next]_vars PROVE TimerInv'
<1>1. CASE Clock
  BY <1>1 DEF Clock, TimerInv, TimerTypes, TimersAgree, NoLostTrigger, WakesInTime,
     DisabledIsSilent, Running, timerVars, threadVars
<1>2. CASE UNCHANGED vars
  BY <1>2 DEF vars, TimerInv, TimerTypes, TimersAgree, NoLostTrigger, WakesInTime,
     DisabledIsSilent, Running, timerVars, threadVars
<1> QED
  BY <1>1, <1>2, PassStays, ProcStays, TimerCallStays DEF Next

\* A timer posts up to its capacity.
TimerBounds == posted \in [Timer -> 0 .. Capacity] /\ now \in 0 .. MaxTick /\ awake \in BOOLEAN

LEMMA BoundsStart == Init => TimerBounds
<1> SUFFICES ASSUME Init PROVE TimerBounds
  OBVIOUS
<1>1. posted \in [Timer -> 0 .. Capacity] /\ now \in 0 .. MaxTick
  BY TimerAssumption DEF Init
<1>2. awake \in BOOLEAN
  BY DEF Init
<1> QED
  BY <1>1, <1>2 DEF TimerBounds

LEMMA BoundsStay == ASSUME TimerInv, TimerBounds, [Next]_vars PROVE TimerBounds'
<1>0. awake' \in BOOLEAN
  BY Zenon DEF TimerBounds, Next, Clock, Pass, Proc, OnTimer, Add, Remove, Enable, Disable,
     SetInterval, Wakes, threadVars, vars
<1>1. posted \in [Timer -> 0 .. Capacity] /\ now \in 0 .. MaxTick
  BY DEF TimerBounds
<1>2. now' \in 0 .. MaxTick
  <2>1. CASE Clock
    BY <1>1, <2>1, TimerAssumption DEF Clock
  <2>2. CASE ~Clock
    <3>1. now' = now
      BY <2>2 DEF Next, Pass, Proc, OnTimer, Add, Remove, Enable, Disable, SetInterval, vars
    <3> QED
      BY <1>1, <3>1
  <2> QED
    BY <2>1, <2>2
<1>3. posted' \in [Timer -> 0 .. Capacity]
  <2>1. CASE Proc
    <3>1. \A t \in Timer : posted[t] + count[t] \in Nat
      BY <1>1 DEF TimerInv, TimerTypes
    <3>2. \A t \in Timer : Min({posted[t] + count[t], Capacity}) \in 0 .. Capacity
      <4> TAKE t \in Timer
      <4>1. posted[t] + count[t] \in Nat /\ Capacity \in Nat
        BY <3>1, TimerAssumption
      <4>2. Min({posted[t] + count[t], Capacity}) \in {posted[t] + count[t], Capacity}
            /\ \A n \in {posted[t] + count[t], Capacity} : Min({posted[t] + count[t], Capacity}) <= n
        BY <4>1, LeastOf
      <4> QED
        BY <4>1, <4>2
    <3> QED
      BY <1>1, <2>1, <3>2 DEF Proc
  <2>2. CASE Clock \/ Pass \/ UNCHANGED vars
    BY <1>1, <2>2 DEF Clock, Pass, vars
  <2>3. ASSUME NEW t \in Timer, Add(t) \/ Remove(t) \/ Enable(t) PROVE posted' \in [Timer -> 0 .. Capacity]
    BY <1>1, <2>3, TimerAssumption DEF Add, Remove, Enable
  <2>4. ASSUME NEW t \in Timer, Disable(t) \/ OnTimer(t) PROVE posted' \in [Timer -> 0 .. Capacity]
    BY <1>1, <2>4, TimerAssumption DEF Disable, OnTimer
  <2>5. ASSUME NEW t \in Timer, NEW n \in Intervals, SetInterval(t, n)
        PROVE  posted' \in [Timer -> 0 .. Capacity]
    BY <1>1, <2>5, TimerAssumption DEF SetInterval
  <2> QED
    BY <2>1, <2>2, <2>3, <2>4, <2>5 DEF Next
<1> QED
  BY <1>0, <1>2, <1>3 DEF TimerBounds

LEMMA TimerHolds == ASSUME TimerInv, TimerBounds PROVE TypeOK /\ TimersAgree
<1>1. {available, awake} \subseteq BOOLEAN
  BY Zenon DEF TimerInv, TimerTypes, TimerBounds
<1>2. native \in 0 .. 1
  BY DEF TimerInv, TimerTypes
<1> QED
  BY <1>1, <1>2 DEF TypeOK, TimerInv, TimerTypes, TimerBounds

-----------------------------------------------------------------------------
(***************************************************************************)
(* The threads around the level 2 buffer.                                  *)
(***************************************************************************)
LoopedRing == INSTANCE WaveProofs WITH Looping <- TRUE, Underruns <- TRUE, MaxStale <- 0
WarmRing == INSTANCE WaveProofs WITH Looping <- FALSE, Underruns <- FALSE

\* The invariants of WaveProofs are those of the two sounds: the modules
\* define the same, so a step of one is a step of the other.
LEMMA RingAssumptions == LoopedRing!WaveAssumption /\ WarmRing!WaveAssumption
BY StreamAssumption DEF LoopedRing!WaveAssumption, WarmRing!WaveAssumption

LEMMA LoopedStarts == ASSUME Looped!Init PROVE LoopedRing!LoopInv /\ LoopedRing!Stream!Init
<1>1. LoopedRing!Init
  BY DEF Looped!Init, LoopedRing!Init, Looped!Cell, LoopedRing!Cell, Looped!Silence,
     LoopedRing!Silence
<1> QED
  BY <1>1, RingAssumptions, LoopedRing!LoopStart

LEMMA LoopedStays == ASSUME LoopedRing!LoopInv, [LoopedRing!Next]_(LoopedRing!vars)
PROVE LoopedRing!LoopInv' /\ [LoopedRing!Stream!Next]_(LoopedRing!Stream!vars)
BY RingAssumptions, LoopedRing!LoopSteps

LEMMA WarmStays == ASSUME WarmRing!FedInv, [WarmRing!Next]_(WarmRing!vars)
PROVE WarmRing!FedInv'
BY RingAssumptions, WarmRing!FedStays

LEMMA LoopedSteps == [Looped!Next]_(Looped!vars) => [LoopedRing!Next]_(LoopedRing!vars)
<1>1. Looped!DecodeStep => LoopedRing!DecodeStep
  BY DEF Looped!DecodeStep, LoopedRing!DecodeStep, Looped!DecodeCheck, LoopedRing!DecodeCheck,
     Looped!ringVars, LoopedRing!ringVars, Looped!mixVars, LoopedRing!mixVars, Looped!playVars,
     LoopedRing!playVars, Looped!flagVars, LoopedRing!flagVars, Looped!mainVars,
     LoopedRing!mainVars, Looped!globals, LoopedRing!globals, Looped!DecodeBegin,
     LoopedRing!DecodeBegin, Looped!FullRing, LoopedRing!FullRing, Looped!DecodeEnd,
     LoopedRing!DecodeEnd, Looped!FillL2Unit, LoopedRing!FillL2Unit, Looped!Silence,
     LoopedRing!Silence, Looped!LastUnit, LoopedRing!LastUnit, Looped!Advanced,
     LoopedRing!Advanced, Looped!After, LoopedRing!After
<1>2. Looped!PlayerStep => LoopedRing!PlayerStep
  BY DEF Looped!PlayerStep, LoopedRing!PlayerStep, Looped!PlayerRound, LoopedRing!PlayerRound,
     Looped!ringVars, LoopedRing!ringVars, Looped!playVars, LoopedRing!playVars, Looped!flagVars,
     LoopedRing!flagVars, Looped!mainVars, LoopedRing!mainVars, Looped!FillSkips,
     LoopedRing!FillSkips, Looped!NothingPlays, LoopedRing!NothingPlays, Looped!mixVars,
     LoopedRing!mixVars, Looped!globals, LoopedRing!globals, Looped!FillPauses,
     LoopedRing!FillPauses, Looped!FillActive, LoopedRing!FillActive, Looped!FillEnds,
     LoopedRing!FillEnds, Looped!AtEnd, LoopedRing!AtEnd, Looped!FillGoesOn,
     LoopedRing!FillGoesOn, Looped!QueueFull, LoopedRing!QueueFull, Looped!Prepare,
     LoopedRing!Prepare, Looped!PlayerFillsL2, LoopedRing!PlayerFillsL2, Looped!FullRing,
     LoopedRing!FullRing, Looped!FillL2Unit, LoopedRing!FillL2Unit, Looped!Silence,
     LoopedRing!Silence, Looped!LastUnit, LoopedRing!LastUnit, Looped!Advanced,
     LoopedRing!Advanced, Looped!After, LoopedRing!After, Looped!PlayerReads,
     LoopedRing!PlayerReads, Looped!ReadL2Buffer, LoopedRing!ReadL2Buffer
<1>3. Looped!Hear => LoopedRing!Hear
  BY DEF Looped!Hear, LoopedRing!Hear, Looped!Unread, LoopedRing!Unread, Looped!Silence,
     LoopedRing!Silence, Looped!ringVars, LoopedRing!ringVars, Looped!playVars,
     LoopedRing!playVars, Looped!flagVars, LoopedRing!flagVars, Looped!mainVars,
     LoopedRing!mainVars, Looped!globals, LoopedRing!globals
<1>4. Looped!CallStep => LoopedRing!CallStep
  BY DEF Looped!CallStep, LoopedRing!CallStep, Looped!Play, LoopedRing!Play, Looped!StartPlay,
     LoopedRing!StartPlay, Looped!BufferFree, LoopedRing!BufferFree, Looped!Holding,
     LoopedRing!Holding, Looped!LastUnit, LoopedRing!LastUnit, Looped!Advanced,
     LoopedRing!Advanced, Looped!Cell, LoopedRing!Cell, Looped!Silence, LoopedRing!Silence,
     Looped!After, LoopedRing!After, Looped!Stop, LoopedRing!Stop, Looped!Call, LoopedRing!Call,
     Looped!StopPlay, LoopedRing!StopPlay, Looped!mixVars, LoopedRing!mixVars, Looped!playVars,
     LoopedRing!playVars, Looped!ringVars, LoopedRing!ringVars, Looped!flagVars,
     LoopedRing!flagVars, Looped!globals, LoopedRing!globals, Looped!Open, LoopedRing!Open,
     Looped!FreeDirectSound, LoopedRing!FreeDirectSound, Looped!SetPaused, LoopedRing!SetPaused,
     Looped!Seek, LoopedRing!Seek, Looped!SeekSilent, LoopedRing!SeekSilent
<1>5. Looped!MainStep => LoopedRing!MainStep
  BY DEF Looped!MainStep, LoopedRing!MainStep, Looped!StopThread, LoopedRing!StopThread,
     Looped!Interrupt, LoopedRing!Interrupt, Looped!ringVars, LoopedRing!ringVars,
     Looped!mixVars, LoopedRing!mixVars, Looped!playVars, LoopedRing!playVars, Looped!globals,
     LoopedRing!globals, Looped!StopStatus, LoopedRing!StopStatus, Looped!Rewind,
     LoopedRing!Rewind, Looped!flagVars, LoopedRing!flagVars, Looped!Unload, LoopedRing!Unload,
     Looped!Load, LoopedRing!Load, Looped!SeekStarts, LoopedRing!SeekStarts, Looped!StartPlay,
     LoopedRing!StartPlay, Looped!BufferFree, LoopedRing!BufferFree, Looped!Holding,
     LoopedRing!Holding, Looped!LastUnit, LoopedRing!LastUnit, Looped!Advanced,
     LoopedRing!Advanced, Looped!Cell, LoopedRing!Cell, Looped!Silence, LoopedRing!Silence,
     Looped!After, LoopedRing!After, Looped!TimerBeat, LoopedRing!TimerBeat, Looped!mainVars,
     LoopedRing!mainVars
<1>6. UNCHANGED Looped!vars => UNCHANGED LoopedRing!vars
  BY DEF Looped!vars, LoopedRing!vars, Looped!ringVars, LoopedRing!ringVars, Looped!mixVars,
     LoopedRing!mixVars, Looped!playVars, LoopedRing!playVars, Looped!flagVars,
     LoopedRing!flagVars, Looped!mainVars, LoopedRing!mainVars, Looped!globals, LoopedRing!globals
<1> QED
  BY <1>1, <1>2, <1>3, <1>4, <1>5, <1>6 DEF Looped!Next, LoopedRing!Next

LEMMA WarmSteps == [Warm!Next]_(Warm!vars) => [WarmRing!Next]_(WarmRing!vars)
<1>1. Warm!DecodeStep => WarmRing!DecodeStep
  BY DEF Warm!DecodeStep, WarmRing!DecodeStep, Warm!DecodeCheck, WarmRing!DecodeCheck,
     Warm!ringVars, WarmRing!ringVars, Warm!mixVars, WarmRing!mixVars, Warm!playVars,
     WarmRing!playVars, Warm!flagVars, WarmRing!flagVars, Warm!mainVars, WarmRing!mainVars,
     Warm!globals, WarmRing!globals, Warm!DecodeBegin, WarmRing!DecodeBegin, Warm!FullRing,
     WarmRing!FullRing, Warm!DecodeEnd, WarmRing!DecodeEnd, Warm!FillL2Unit, WarmRing!FillL2Unit,
     Warm!Silence, WarmRing!Silence, Warm!LastUnit, WarmRing!LastUnit, Warm!Advanced,
     WarmRing!Advanced, Warm!After, WarmRing!After
<1>2. Warm!PlayerStep => WarmRing!PlayerStep
  BY DEF Warm!PlayerStep, WarmRing!PlayerStep, Warm!PlayerRound, WarmRing!PlayerRound,
     Warm!ringVars, WarmRing!ringVars, Warm!playVars, WarmRing!playVars, Warm!flagVars,
     WarmRing!flagVars, Warm!mainVars, WarmRing!mainVars, Warm!FillSkips, WarmRing!FillSkips,
     Warm!NothingPlays, WarmRing!NothingPlays, Warm!mixVars, WarmRing!mixVars, Warm!globals,
     WarmRing!globals, Warm!FillPauses, WarmRing!FillPauses, Warm!FillActive,
     WarmRing!FillActive, Warm!FillEnds, WarmRing!FillEnds, Warm!AtEnd, WarmRing!AtEnd,
     Warm!FillGoesOn, WarmRing!FillGoesOn, Warm!QueueFull, WarmRing!QueueFull, Warm!Prepare,
     WarmRing!Prepare, Warm!PlayerFillsL2, WarmRing!PlayerFillsL2, Warm!FullRing,
     WarmRing!FullRing, Warm!FillL2Unit, WarmRing!FillL2Unit, Warm!Silence, WarmRing!Silence,
     Warm!LastUnit, WarmRing!LastUnit, Warm!Advanced, WarmRing!Advanced, Warm!After,
     WarmRing!After, Warm!PlayerReads, WarmRing!PlayerReads, Warm!ReadL2Buffer,
     WarmRing!ReadL2Buffer
<1>3. Warm!Hear => WarmRing!Hear
  BY DEF Warm!Hear, WarmRing!Hear, Warm!Unread, WarmRing!Unread, Warm!Silence, WarmRing!Silence,
     Warm!ringVars, WarmRing!ringVars, Warm!playVars, WarmRing!playVars, Warm!flagVars,
     WarmRing!flagVars, Warm!mainVars, WarmRing!mainVars, Warm!globals, WarmRing!globals
<1>4. Warm!CallStep => WarmRing!CallStep
  BY DEF Warm!CallStep, WarmRing!CallStep, Warm!Play, WarmRing!Play, Warm!StartPlay,
     WarmRing!StartPlay, Warm!BufferFree, WarmRing!BufferFree, Warm!Holding, WarmRing!Holding,
     Warm!LastUnit, WarmRing!LastUnit, Warm!Advanced, WarmRing!Advanced, Warm!Cell,
     WarmRing!Cell, Warm!Silence, WarmRing!Silence, Warm!After, WarmRing!After, Warm!Stop,
     WarmRing!Stop, Warm!Call, WarmRing!Call, Warm!StopPlay, WarmRing!StopPlay, Warm!mixVars,
     WarmRing!mixVars, Warm!playVars, WarmRing!playVars, Warm!ringVars, WarmRing!ringVars,
     Warm!flagVars, WarmRing!flagVars, Warm!globals, WarmRing!globals, Warm!Open, WarmRing!Open,
     Warm!FreeDirectSound, WarmRing!FreeDirectSound, Warm!SetPaused, WarmRing!SetPaused,
     Warm!Seek, WarmRing!Seek, Warm!SeekSilent, WarmRing!SeekSilent
<1>5. Warm!MainStep => WarmRing!MainStep
  BY DEF Warm!MainStep, WarmRing!MainStep, Warm!StopThread, WarmRing!StopThread, Warm!Interrupt,
     WarmRing!Interrupt, Warm!ringVars, WarmRing!ringVars, Warm!mixVars, WarmRing!mixVars,
     Warm!playVars, WarmRing!playVars, Warm!globals, WarmRing!globals, Warm!StopStatus,
     WarmRing!StopStatus, Warm!Rewind, WarmRing!Rewind, Warm!flagVars, WarmRing!flagVars,
     Warm!Unload, WarmRing!Unload, Warm!Load, WarmRing!Load, Warm!SeekStarts,
     WarmRing!SeekStarts, Warm!StartPlay, WarmRing!StartPlay, Warm!BufferFree,
     WarmRing!BufferFree, Warm!Holding, WarmRing!Holding, Warm!LastUnit, WarmRing!LastUnit,
     Warm!Advanced, WarmRing!Advanced, Warm!Cell, WarmRing!Cell, Warm!Silence, WarmRing!Silence,
     Warm!After, WarmRing!After, Warm!TimerBeat, WarmRing!TimerBeat, Warm!mainVars,
     WarmRing!mainVars
<1>6. UNCHANGED Warm!vars => UNCHANGED WarmRing!vars
  BY DEF Warm!vars, WarmRing!vars, Warm!ringVars, WarmRing!ringVars, Warm!mixVars,
     WarmRing!mixVars, Warm!playVars, WarmRing!playVars, Warm!flagVars, WarmRing!flagVars,
     Warm!mainVars, WarmRing!mainVars, Warm!globals, WarmRing!globals
<1> QED
  BY <1>1, <1>2, <1>3, <1>4, <1>5, <1>6 DEF Warm!Next, WarmRing!Next

-----------------------------------------------------------------------------
(***************************************************************************)
(* The parts together.                                                     *)
(***************************************************************************)
\* The inductive invariant: that of each part, and of the threads around the
\* level 2 buffer the one of the sound they play.
PartsInv ==
  /\ part = "looped" => LoopedRing!LoopInv
  /\ part # "looped" => WarmRing!Inv
  /\ part = "warm" => WarmRing!FedInv
  /\ LabelInv /\ DeviceInv /\ MixerInv /\ LockInv /\ TimerInv /\ TimerBounds

\* A step is one of each part or leaves its variables alone.
WaveMoves ==
  /\ part = "looped" => [Looped!Next]_(Looped!vars)
  /\ part = "warm" => [Warm!Next]_(Warm!vars)
  /\ part \notin {"looped", "warm"} => UNCHANGED waveVars
Moves ==
  /\ part' = part /\ WaveMoves
  /\ Events!Next \/ UNCHANGED labelVars
  /\ Device!Next \/ UNCHANGED deviceVars
  /\ Mixer!Next \/ UNCHANGED mixerVars
  /\ Locks!Next \/ UNCHANGED lockVars
  /\ [Next]_vars

\* Variables and steps of all parts.
LEMMA WaveVariables ==
  UNCHANGED waveVars => /\ UNCHANGED Looped!vars /\ UNCHANGED Warm!vars /\ UNCHANGED WarmRing!vars
                        /\ UNCHANGED LoopedRing!vars
BY DEF waveVars, Looped!vars, Warm!vars, WarmRing!vars, LoopedRing!vars, Looped!ringVars,
   Looped!mixVars, Looped!playVars, Looped!flagVars, Looped!mainVars, Looped!globals, Warm!ringVars,
   Warm!mixVars, Warm!playVars, Warm!flagVars, Warm!mainVars, Warm!globals, WarmRing!ringVars,
   WarmRing!mixVars, WarmRing!playVars, WarmRing!flagVars, WarmRing!mainVars, WarmRing!globals,
   LoopedRing!ringVars, LoopedRing!mixVars, LoopedRing!playVars, LoopedRing!flagVars,
   LoopedRing!mainVars, LoopedRing!globals

LEMMA EveryMove == [PartsNext]_partsVars => Moves
<1>1. CASE LoopedStep
  BY <1>1 DEF LoopedStep, Moves, WaveMoves
<1>2. CASE WarmStep
  BY <1>2 DEF WarmStep, Moves, WaveMoves
<1>3. CASE LabelStep
  BY <1>3 DEF LabelStep, Moves, WaveMoves
<1>4. CASE DeviceStep
  BY <1>4 DEF DeviceStep, Moves, WaveMoves
<1>5. CASE MixerStep
  BY <1>5 DEF MixerStep, Moves, WaveMoves
<1>6. CASE LockStep
  BY <1>6 DEF LockStep, Moves, WaveMoves
<1>7. CASE TimerStep
  BY <1>7 DEF TimerStep, Moves, WaveMoves
<1>8. CASE UNCHANGED partsVars
  <2>1. part' = part /\ UNCHANGED waveVars /\ UNCHANGED labelVars /\ UNCHANGED deviceVars
        /\ UNCHANGED mixerVars /\ UNCHANGED lockVars /\ UNCHANGED vars
    BY <1>8 DEF partsVars
  <2> QED
    BY <2>1, WaveVariables DEF Moves, WaveMoves
<1> QED
  BY <1>1, <1>2, <1>3, <1>4, <1>5, <1>6, <1>7, <1>8 DEF PartsNext

\* The invariant of all parts.
LEMMA PartsStart == PartsInit => PartsInv
<1> SUFFICES ASSUME PartsInit PROVE PartsInv
  OBVIOUS
<1>1. Looped!Init /\ (primary <=> part = "warm") /\ Events!Init /\ Device!Init /\ Mixer!Init
      /\ Locks!Init /\ Init
  BY DEF PartsInit
<1>2. LoopedRing!LoopInv
  BY <1>1, LoopedStarts
<1>3. WarmRing!Init
  BY <1>1 DEF Looped!Init, WarmRing!Init, Looped!Cell, WarmRing!Cell, Looped!Silence,
     WarmRing!Silence
<1>4. WarmRing!Inv
  BY <1>3, RingAssumptions, WarmRing!InitInv
<1>5. part = "warm" => WarmRing!FedInv
  <2> SUFFICES ASSUME part = "warm" PROVE WarmRing!FedInv
    OBVIOUS
  <2>1. primary
    BY <1>1
  <2> QED
    BY <1>3, <2>1, RingAssumptions, WarmRing!FedStart
<1>6. LabelInv
  BY <1>1, LabelStart
<1>7. DeviceInv
  BY <1>1, DeviceStart
<1>8. MixerInv
  BY <1>1, MixerStart
<1>9. LockInv
  BY <1>1, LockStart
<1>10. TimerInv /\ TimerBounds
  BY <1>1, TimerStart, BoundsStart
<1> QED
  BY <1>2, <1>4, <1>5, <1>6, <1>7, <1>8, <1>9, <1>10 DEF PartsInv

\* What the invariant is about in each part does not change when its
\* variables do not.
LEMMA LabelsRest == ASSUME LabelInv, UNCHANGED labelVars PROVE LabelInv'
<1>1. UNCHANGED <<clock, sounding, dsSounding, held, sent, cached, decodePos, l1, l1Write,
        labelQueue, lastPos, lastTick, awaited, called, filledAt, announced, fired, plays>>
  BY DEF labelVars
<1>2. Flags'
  BY <1>1, Zenon DEF LabelInv, Flags
<1>3. Numbers'
  BY <1>1, Zenon DEF LabelInv, Numbers
<1>4. Waited'
  BY <1>1, Zenon DEF LabelInv, Waited
<1>5. Increasing(fired') /\ (sounding' => Placed(labelQueue', fired', decodePos'))
  BY <1>1, Zenon DEF LabelInv
<1> QED
  BY <1>2, <1>3, <1>4, <1>5, Zenon DEF LabelInv

\* The same for the mixer.
LEMMA MixerRest == ASSUME MixerInv, UNCHANGED mixerVars PROVE MixerInv'
<1>1. UNCHANGED <<streams, memory, mixed, buffers, front, streamSent, streamCached, mixer,
        left, current, wanted>>
  BY DEF mixerVars
<1>2. Mixer!TypeOK'
  BY <1>1, Zenon DEF MixerInv, Mixer!TypeOK
<1> QED
  BY <1>1, <1>2, Zenon DEF MixerInv

\* The threads around the ring, whichever sound they play.
LEMMA WavesStay ==
  ASSUME part' = part, WaveMoves, part = "looped" => LoopedRing!LoopInv,
         part # "looped" => WarmRing!Inv, part = "warm" => WarmRing!FedInv
  PROVE  /\ part = "looped" => LoopedRing!LoopInv'
         /\ part # "looped" => WarmRing!Inv'
         /\ part = "warm" => WarmRing!FedInv'
<1>1. CASE part = "looped"
  <2>1. [LoopedRing!Next]_(LoopedRing!vars)
    BY <1>1, LoopedSteps DEF WaveMoves
  <2> QED
    BY <1>1, <2>1, LoopedStays
<1>2. CASE part = "warm"
  <2>1. [WarmRing!Next]_(WarmRing!vars)
    BY <1>2, WarmSteps DEF WaveMoves
  <2>2. WarmRing!FedInv'
    BY <1>2, <2>1, WarmStays
  <2> QED
    BY <1>2, <2>2 DEF WarmRing!FedInv
<1>3. CASE part \notin {"looped", "warm"}
  <2>1. UNCHANGED WarmRing!vars
    BY <1>3, WaveVariables DEF WaveMoves
  <2>2. WarmRing!Inv'
    BY <1>3, <2>1, RingAssumptions, WarmRing!NextInv
  <2> QED
    BY <1>3, <2>2
<1> QED
  BY <1>1, <1>2, <1>3

LEMMA PartsStay == PartsInv /\ [PartsNext]_partsVars => PartsInv'
<1> SUFFICES ASSUME PartsInv, [PartsNext]_partsVars PROVE PartsInv'
  OBVIOUS
<1>1. /\ part' = part /\ WaveMoves
      /\ Events!Next \/ UNCHANGED labelVars
      /\ Device!Next \/ UNCHANGED deviceVars
      /\ Mixer!Next \/ UNCHANGED mixerVars
      /\ Locks!Next \/ UNCHANGED lockVars
      /\ [Next]_vars
  BY EveryMove DEF Moves
<1>2. /\ part = "looped" => LoopedRing!LoopInv'
      /\ part # "looped" => WarmRing!Inv'
      /\ part = "warm" => WarmRing!FedInv'
  BY <1>1, WavesStay DEF PartsInv
<1>3. LabelInv'
  BY <1>1, LabelStays, LabelsRest DEF PartsInv
<1>4. DeviceInv'
  <2>1. UNCHANGED deviceVars => UNCHANGED Device!vars
    BY DEF deviceVars, Device!vars, Device!formatVars, Device!playVars, Device!scriptVars,
       Device!mixVars
  <2>2. DeviceInv /\ [Device!Next]_(Device!vars)
    BY <1>1, <2>1 DEF PartsInv
  <2> QED
    BY <2>2, DeviceStays
<1>5. MixerInv'
  BY <1>1, MixerStays, MixerRest DEF PartsInv
<1>6. LockInv'
  <2>1. UNCHANGED lockVars => UNCHANGED Locks!vars
    BY DEF lockVars, Locks!vars
  <2>2. LockInv /\ [Locks!Next]_(Locks!vars)
    BY <1>1, <2>1 DEF PartsInv
  <2> QED
    BY <2>2, LockStays
<1>7. TimerInv' /\ TimerBounds'
  BY <1>1, TimerStays, BoundsStay DEF PartsInv
<1> QED
  BY <1>1, <1>2, <1>3, <1>4, <1>5, <1>6, <1>7 DEF PartsInv

\* The invariant of SoundParts holds in every state.
LEMMA AlwaysParts == PartsSpec => []PartsInv
BY PartsStart, PartsStay, PTL DEF PartsSpec

-----------------------------------------------------------------------------
(***************************************************************************)
(* Theorems.                                                               *)
(***************************************************************************)
\* Every part keeps its types: among others, the counts of samples and of the
\* locks never become negative, and at most one native event of the timers is
\* under way.
THEOREM PartsTyped == PartsSpec => []PartsTypeOK
<1>1. PartsInv => PartsTypeOK
  <2> SUFFICES ASSUME PartsInv PROVE PartsTypeOK
    OBVIOUS
  <2>1. Warm!TypeOK
    <3>1. CASE part = "looped"
      <4>1. LoopedRing!TypeOK
        BY <3>1 DEF PartsInv, LoopedRing!LoopInv, LoopedRing!Inv
      <4>2. remain \in -0 .. L2Units
        BY <4>1 DEF LoopedRing!TypeOK
      <4>3. remain \in -MaxStale .. L2Units
        BY <4>2, StreamAssumption
      <4> QED
        BY <4>1, <4>3 DEF LoopedRing!TypeOK, Warm!TypeOK, LoopedRing!Unit, Warm!Unit,
           LoopedRing!Cell, Warm!Cell, LoopedRing!Holding, Warm!Holding
    <3>2. CASE part # "looped"
      <4>1. WarmRing!TypeOK
        BY <3>2 DEF PartsInv, WarmRing!Inv
      <4> QED
        BY <4>1 DEF WarmRing!TypeOK, Warm!TypeOK, WarmRing!Unit, Warm!Unit, WarmRing!Cell,
           Warm!Cell, WarmRing!Holding, Warm!Holding
    <3> QED
      BY <3>1, <3>2
  <2>2. Events!TypeOK
    BY LabelHolds DEF PartsInv
  <2>3. Device!TypeOK
    BY DeviceHolds DEF PartsInv
  <2>4. Mixer!TypeOK
    BY MixerHolds DEF PartsInv
  <2>5. Locks!TypeOK
    BY LockHolds DEF PartsInv
  <2>6. TypeOK
    BY TimerHolds DEF PartsInv
  <2> QED
    BY <2>1, <2>2, <2>3, <2>4, <2>5, <2>6 DEF PartsTypeOK
<1> QED
  BY <1>1, AlwaysParts, PTL

\* The labels of one play are fired in the order of their positions, each
\* once, and a label in the queue is awaited by the playing thread or by the
\* event on its way, though UtilWndProc and FillBuffer both set what is
\* awaited (FireLabelEventsAndGetNearestLabelEventStep).
THEOREM LabelsStayKept == PartsSpec => []LabelsKept
<1>1. PartsInv => LabelsKept
  BY LabelHolds DEF PartsInv, LabelsKept
<1> QED
  BY <1>1, AlwaysParts, PTL

\* The stream and the buffers of a sound have the format that was opened, and
\* the stream the volume the script has set, whenever the stream was made,
\* replaced or lost (CreateSoundBuffer, SetVolumeToSoundBuffer).
THEOREM DeviceStaysAgreed == PartsSpec => []DeviceAgrees
<1>1. PartsInv => DeviceAgrees
  BY DeviceHolds DEF PartsInv, DeviceAgrees
<1> QED
  BY <1>1, AlwaysParts, PTL

\* The count of samples that positions are computed from is exact, for
\* buffers of any sizes and wherever the callback is (FillBuffer).
THEOREM PositionStaysExact == PartsSpec => []PositionExact
<1>1. PartsInv => PositionExact
  BY MixerHolds DEF PartsInv, PositionExact
<1> QED
  BY <1>1, AlwaysParts, PTL

\* With no label in the first unit no threads wait for each other in a
\* circle, because each takes its locks in one order, and the callback never
\* meets a stream that was deleted.
THEOREM LocksStaySufficient == PartsSpec => []LocksSuffice
<1>1. PartsInv => LocksSuffice
  BY LockHolds, MixerHolds DEF PartsInv, LocksSuffice
<1> QED
  BY <1>1, AlwaysParts, PTL

\* No timer that was triggered is forgotten, the thread never sleeps past a
\* running timer by more than the least interval, and a timer that is off or
\* gone is silent: for any timers and any calls of the script between.
THEOREM TimersStayAgreed == PartsSpec => []TimersAgree
<1>1. PartsInv => TimersAgree
  BY DEF PartsInv, TimerInv
<1> QED
  BY <1>1, AlwaysParts, PTL

\* The queue in the ring is the same one in both.
LEMMA UnreadsAgree == Looped!Unread = LoopedRing!Unread /\ Warm!Unread = WarmRing!Unread
BY DEF Looped!Unread, LoopedRing!Unread, Warm!Unread, WarmRing!Unread

\* A step of the looped sound is one of SoundStream, a step of another part
\* none.
LEMMA StreamMoves == PartsInv /\ [PartsNext]_partsVars => [Stream!Next]_(Stream!vars)
<1> SUFFICES ASSUME PartsInv, [PartsNext]_partsVars PROVE [Stream!Next]_(Stream!vars)
  OBVIOUS
<1>1. part' = part /\ WaveMoves
  BY EveryMove DEF Moves
<1>2. CASE part = "looped"
  <2>1. LoopedRing!LoopInv /\ [LoopedRing!Next]_(LoopedRing!vars)
    BY <1>1, <1>2, LoopedSteps DEF PartsInv, WaveMoves
  <2>2. [LoopedRing!Stream!Next]_(LoopedRing!Stream!vars)
    BY <2>1, LoopedStays
  <2>3. Looped!Unread = LoopedRing!Unread /\ Looped!Unread' = LoopedRing!Unread'
    BY UnreadsAgree DEF Looped!Unread, LoopedRing!Unread
  <2>4. /\ (IF part = "looped" THEN pos ELSE 0) = pos
        /\ (IF part = "looped" THEN pos ELSE 0)' = pos'
        /\ (IF part = "looped" THEN Looped!Unread ELSE <<>>) = LoopedRing!Unread
        /\ (IF part = "looped" THEN Looped!Unread ELSE <<>>)' = LoopedRing!Unread'
        /\ (IF part = "looped" THEN queue ELSE <<>>) = queue
        /\ (IF part = "looped" THEN queue ELSE <<>>)' = queue'
    BY <1>1, <1>2, <2>3
  <2> QED
    BY <2>2, <2>4
       DEF Stream!Next, Stream!Decode, Stream!HandOver, Stream!Hear, Stream!Start, Stream!Halt,
           Stream!Seek, Stream!Following, Stream!vars, LoopedRing!Stream!Next,
           LoopedRing!Stream!Decode, LoopedRing!Stream!HandOver, LoopedRing!Stream!Hear,
           LoopedRing!Stream!Start, LoopedRing!Stream!Halt, LoopedRing!Stream!Seek,
           LoopedRing!Stream!Following, LoopedRing!Stream!vars
<1>3. CASE part # "looped"
  BY <1>1, <1>3 DEF Stream!vars
<1> QED
  BY <1>2, <1>3

\* The buffering of a looped sound implements SoundStream: nothing decoded is
\* lost, repeated or overtaken on its way to the device but by a start, a
\* stop or a seek, for a ring, a queue and a sound of every size.
THEOREM BufferingImplementsStream == PartsSpec => StreamSpec
<1>1. PartsInit => Stream!Init
  <2> SUFFICES ASSUME PartsInit PROVE Stream!Init
    OBVIOUS
  <2>1. LoopedRing!Stream!Init
    BY LoopedStarts DEF PartsInit
  <2>2. pos = 0 /\ LoopedRing!Unread = <<>> /\ queue = <<>>
    BY <2>1 DEF LoopedRing!Stream!Init
  <2> QED
    BY <2>2, UnreadsAgree DEF Stream!Init
<1> QED
  BY <1>1, StreamMoves, AlwaysParts, PTL DEF PartsSpec, StreamSpec, Stream!Spec

\* A sound that ends by itself was handed to the mixer to its last unit, on a
\* device that never runs dry, and has fired all its labels.
THEOREM SoundsEndWhole == PartsSpec => EndsWhole
<1>1. PartsInv /\ [PartsNext]_partsVars => [(part = "warm" => Warm!EndsWhole) /\ Events!EndFires]_partsVars
  <2> SUFFICES ASSUME PartsInv PROVE (part = "warm" => Warm!EndsWhole) /\ Events!EndFires
    OBVIOUS
  <2>1. part = "warm" => Warm!EndsWhole
    <3> SUFFICES ASSUME part = "warm" PROVE Warm!EndsWhole
      OBVIOUS
    <3>1. WarmRing!FedInv
      BY DEF PartsInv
    <3>2. WarmRing!EndsWhole
      BY <3>1, RingAssumptions, WarmRing!FedEnds
    <3>3. Warm!FillEnds => WarmRing!FillEnds
      BY DEF Warm!FillEnds, WarmRing!FillEnds, Warm!FillActive, WarmRing!FillActive, Warm!AtEnd,
         WarmRing!AtEnd, Warm!NothingPlays, WarmRing!NothingPlays, Warm!flagVars,
         WarmRing!flagVars, Warm!mainVars, WarmRing!mainVars, Warm!globals, WarmRing!globals,
         Warm!ringVars, WarmRing!ringVars, Warm!mixVars, WarmRing!mixVars
    <3> QED
      BY <3>2, <3>3, UnreadsAgree
         DEF Warm!EndsWhole, WarmRing!EndsWhole, Warm!Silence, WarmRing!Silence
  <2>2. Events!EndFires
    BY EndFiresAll DEF PartsInv, Events!EndFires
  <2> QED
    BY <2>1, <2>2
<1> QED
  BY <1>1, AlwaysParts, PTL DEF PartsSpec, EndsWhole
=============================================================================
