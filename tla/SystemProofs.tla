---------------------------- MODULE SystemProofs ----------------------------
(***************************************************************************)
(* Proofs about the parts of SystemParts, each for any values of its       *)
(* constants: what the files, arguments, directories, limits and plugins   *)
(* the program meets agree with, what a step leaves alone, and that the    *)
(* threads that draw and load lose nothing.  Each part has its invariant   *)
(* and lemmas of the form ...Start, ...Stays and ...Hold(s); the theorems  *)
(* at the end put them together.                                           *)
(***************************************************************************)
EXTENDS SystemParts, AutoPathProofs, SequenceTheorems, FiniteSetTheorems, NaturalsInduction,
  WellFoundedInduction, TLAPS

-----------------------------------------------------------------------------
(* Numbers.                                                                *)
\* A set of numbers has a least.
LEMMA LeastNumber ==
  ASSUME NEW S, S \subseteq Nat, S # {}
  PROVE  \E m \in S : \A n \in S : m <= n
<1>1. PICK m \in S : \A n \in S : <<n, m>> \notin Earlier
  BY EarlierWellFounded, WFMin
<1>2. \A n \in S : m <= n
  <2> TAKE n \in S
  <2>1. m \in Nat /\ n \in Nat /\ ~ (n < m)
    BY <1>1 DEF Earlier
  <2> QED
    BY <2>1
<1> QED
  BY <1>2
-----------------------------------------------------------------------------
(* Sequences.                                                              *)

\* A sequence with one element taken out.
Cut(s, i) == SubSeq(s, 1, i - 1) \o SubSeq(s, i + 1, Len(s))

LEMMA CutProperties ==
  ASSUME NEW S, NEW s \in Seq(S), NEW i \in DOMAIN s
  PROVE  /\ Cut(s, i) \in Seq(S) /\ Len(Cut(s, i)) = Len(s) - 1
         /\ DOMAIN Cut(s, i) = 1 .. Len(s) - 1
         /\ \A k \in 1 .. Len(s) - 1 : Cut(s, i)[k] = IF k < i THEN s[k] ELSE s[k + 1]
<1> DEFINE a == SubSeq(s, 1, i - 1)
           b == SubSeq(s, i + 1, Len(s))
<1>0. Len(s) \in Nat /\ i \in 1 .. Len(s) /\ i \in Nat
  OBVIOUS
<1>1. a \in Seq(S) /\ Len(a) = i - 1 /\ \A k \in 1 .. i - 1 : a[k] = s[k]
  BY <1>0
<1>2. b \in Seq(S) /\ Len(b) = Len(s) - i /\ \A k \in 1 .. Len(s) - i : b[k] = s[i + k]
  BY <1>0
<1> HIDE DEF a, b
<1>3. a \o b \in Seq(S) /\ Len(a \o b) = Len(s) - 1
  BY <1>0, <1>1, <1>2
<1>4. ASSUME NEW k \in 1 .. Len(s) - 1
      PROVE  (a \o b)[k] = IF k < i THEN s[k] ELSE s[k + 1]
  <2>1. CASE k < i
    BY <1>0, <1>1, <1>2, <2>1
  <2>2. CASE ~ k < i
    <3>1. (a \o b)[k] = b[k - (i - 1)]
      BY <1>0, <1>1, <1>2, <2>2
    <3>2. k - (i - 1) \in 1 .. Len(s) - i /\ i + (k - (i - 1)) = k + 1
      BY <1>0, <2>2
    <3> QED
      BY <1>2, <2>2, <3>1, <3>2
  <2> QED
    BY <2>1, <2>2
<1>5. Cut(s, i) = a \o b
  BY DEF Cut, a, b
<1> QED
  BY <1>0, <1>3, <1>4, <1>5
-----------------------------------------------------------------------------
(* The directory of the scripts.                                           *)

\* What has been taken of the names on the line.
TakenNow == {p \in Project!Taken : p < place}
HereTaken == IF known THEN {Project!Here} ELSE {}
ProjectTypes ==
  /\ there \subseteq Given \cup Project!Range(Beside) /\ known \in BOOLEAN
  /\ line \in ProjectLines /\ place \in 1 .. Project!End + 1
  /\ directory \subseteq 1 .. Project!End /\ selected \in BOOLEAN /\ failed \in BOOLEAN
\* The program takes what is beside it, and looks no further; or nothing is
\* there that it looked at, and it has nothing before it comes to the current
\* directory, and then what the names taken so far lead to.
FoundBeside ==
  /\ Project!Done /\ ~Project!NoSelection /\ selected /\ ~failed
  /\ \E b \in DOMAIN Beside :
       directory = {b} /\ Beside[b] \in there /\ \A c \in 1 .. b - 1 : Beside[c] \notin there
NoneBeside ==
  Project!NoSelection \/ \A b \in DOMAIN Beside : b < place => Beside[b] \notin there
NothingYet == directory = {} /\ ~selected /\ ~failed
LedTo ==
  /\ \A p \in TakenNow : Project!Word(p) \in there \cup Ended
  /\ directory = {p \in TakenNow \cup HereTaken :
                    \A q \in TakenNow : q > p => Project!Word(q) \in Relative}
  /\ selected <=> (known /\ ~Project!NoSelection) \/ TakenNow # {}
StartFails == Project!Done /\ \E p \in Project!Taken : Project!Word(p) \notin there \cup Ended
FoundLater ==
  /\ NoneBeside
  /\ place <= Project!Here => NothingYet
  /\ place > Project!Here => IF failed THEN StartFails ELSE LedTo
ProjectInv == ProjectTypes /\ (FoundBeside \/ FoundLater)

\* The places, of which nothing changes.
LEMMA PlacesProperties ==
  ASSUME line \in ProjectLines
  PROVE  /\ Len(Beside) \in Nat /\ DOMAIN Beside = 1 .. Len(Beside)
         /\ Len(line) \in Nat /\ DOMAIN line = 1 .. Len(line)
         /\ Project!Here = Len(Beside) + 1 /\ Project!End = Len(Beside) + 1 + Len(line)
         /\ Project!Here \in Nat /\ Project!End \in Nat
<1> DEFINE B == Project!Range(Beside)
           L == Given \cup {"-nosel", "--"}
<1>1. Beside \in Seq(B) /\ line \in Seq(L)
  BY ProjectAssumption
<1> HIDE DEF B, L
<1>2. /\ Len(Beside) \in Nat /\ DOMAIN Beside = 1 .. Len(Beside)
      /\ Len(line) \in Nat /\ DOMAIN line = 1 .. Len(line)
  BY <1>1, LenProperties
<1> QED
  BY <1>2 DEF Project!Here, Project!End

\* What "--" leaves of the line.
LEMMA StopProperties ==
  ASSUME line \in ProjectLines PROVE Project!Stop \in 1 .. Len(line) + 1
<1> DEFINE I == {i \in 1 .. Len(line) : line[i] = "--"}
<1>1. Len(line) \in Nat /\ DOMAIN line = 1 .. Len(line)
  BY PlacesProperties
<1>2. CASE Project!Contains(line, "--")
  <2>1. I # {} /\ I \subseteq Nat
    BY <1>1, <1>2 DEF Project!Contains
  <2>2. PICK m \in I : \A y \in I : m <= y
    BY <2>1, LeastNumber
  <2>3. Project!Min(I) \in I
    BY <2>2 DEF Project!Min
  <2>4. Project!SelectInSeq(line, LAMBDA w : w = "--") = Project!Min(I)
    BY <2>1 DEF Project!SelectInSeq
  <2> QED
    BY <1>1, <1>2, <2>3, <2>4 DEF Project!Stop
<1>3. CASE ~Project!Contains(line, "--")
  BY <1>1, <1>3 DEF Project!Stop
<1> QED
  BY <1>2, <1>3

\* The names stand behind the current directory, and before "--".
LEMMA NamesProperties ==
  ASSUME line \in ProjectLines
  PROVE  /\ Project!Names \subseteq Project!Here + 1 .. Project!End
         /\ Project!Taken \subseteq Project!Names
BY PlacesProperties, StopProperties DEF Project!Names, Project!Taken

LEMMA ProjectStart == ASSUME Project!Init PROVE ProjectInv
<1>1. /\ line \in ProjectLines /\ place = 1 /\ directory = {} /\ selected = FALSE
      /\ failed = FALSE /\ known \in BOOLEAN /\ there \subseteq Given \cup Project!Range(Beside)
  BY DEF Project!Init
<1>2. /\ Project!Here \in Nat /\ Project!End \in Nat /\ 1 <= Project!Here
      /\ DOMAIN Beside = 1 .. Len(Beside) /\ Len(Beside) \in Nat
  BY <1>1, PlacesProperties
<1>3. ProjectTypes
  <2>1. place \in 1 .. Project!End + 1 /\ directory \subseteq 1 .. Project!End
    BY <1>1, <1>2
  <2> QED
    BY <1>1, <2>1 DEF ProjectTypes
<1>4. FoundLater
  BY <1>1, <1>2 DEF FoundLater, NothingYet, NoneBeside
<1> QED
  BY <1>3, <1>4 DEF ProjectInv

\* What the steps leave alone, and what follows from it.
LEMMA ProjectFixed ==
  ASSUME UNCHANGED <<there, known, line>>
  PROVE  /\ Project!End' = Project!End /\ Project!Here' = Project!Here
         /\ Project!Stop' = Project!Stop /\ (Project!NoSelection' <=> Project!NoSelection)
         /\ Project!Names' = Project!Names /\ Project!Taken' = Project!Taken
         /\ HereTaken' = HereTaken
         /\ \A p : Project!Word(p)' = Project!Word(p)
<1>1. Project!Stop' = Project!Stop
  BY DEF Project!Stop, Project!Contains, Project!SelectInSeq
<1>2. Project!NoSelection' <=> Project!NoSelection
  BY <1>1 DEF Project!NoSelection, Project!Contains
<1>3. \A p : Project!Word(p)' = Project!Word(p)
  BY DEF Project!Word, Project!Here
<1>4. Project!Names' = Project!Names
  BY <1>1 DEF Project!Names, Project!Word, Project!Here
<1>5. Project!Taken' = Project!Taken
  BY <1>2, <1>4 DEF Project!Taken, Project!Word, Project!Here
<1> QED
  BY <1>1, <1>2, <1>3, <1>4, <1>5 DEF Project!End, Project!Here, HereTaken

LEMMA ProjectBeside == ASSUME ProjectInv, Project!LookBeside PROVE ProjectInv'
<1>1. UNCHANGED <<there, known, line, failed>> /\ place <= Len(Beside)
  BY DEF Project!LookBeside
<1>2. ProjectTypes
  BY DEF ProjectInv
<1>3. /\ Len(Beside) \in Nat /\ DOMAIN Beside = 1 .. Len(Beside) /\ Len(line) \in Nat
      /\ Project!Here = Len(Beside) + 1 /\ Project!End = Len(Beside) + 1 + Len(line)
  BY <1>2, PlacesProperties DEF ProjectTypes
<1>4. /\ Project!End' = Project!End /\ Project!Here' = Project!Here
      /\ (Project!NoSelection' <=> Project!NoSelection)
  BY <1>1, ProjectFixed
<1>5. place \in Nat /\ place >= 1
  BY <1>2, <1>3 DEF ProjectTypes
<1>6. ~Project!Done
  BY <1>1, <1>3, <1>5 DEF Project!Done
<1>7. NoneBeside /\ NothingYet
  BY <1>1, <1>3, <1>5, <1>6 DEF ProjectInv, FoundBeside, FoundLater
<1>8. CASE /\ Beside[place] \in there /\ ~Project!NoSelection
           /\ directory' = {place} /\ selected' = TRUE /\ place' = Project!End + 1
  <2>1. ProjectTypes'
    BY <1>1, <1>2, <1>3, <1>4, <1>5, <1>8 DEF ProjectTypes
  <2>2. \A c \in 1 .. place - 1 : Beside[c] \notin there
    BY <1>1, <1>3, <1>5, <1>7, <1>8 DEF NoneBeside
  <2>3. Project!Done'
    BY <1>3, <1>4, <1>8 DEF Project!Done
  <2>4. FoundBeside'
    BY <1>1, <1>3, <1>4, <1>5, <1>7, <1>8, <2>2, <2>3 DEF FoundBeside, NothingYet
  <2> QED
    BY <2>1, <2>4 DEF ProjectInv
<1>9. CASE /\ Project!NoSelection \/ Beside[place] \notin there
           /\ place' = place + 1 /\ UNCHANGED <<directory, selected>>
  <2>1. ProjectTypes'
    BY <1>1, <1>2, <1>3, <1>4, <1>5, <1>9 DEF ProjectTypes
  <2>2. NoneBeside'
    BY <1>1, <1>3, <1>4, <1>5, <1>7, <1>9 DEF NoneBeside
  <2>3. NothingYet' /\ place' <= Project!Here'
    BY <1>1, <1>3, <1>4, <1>5, <1>7, <1>9 DEF NothingYet
  <2>4. FoundLater'
    BY <1>3, <1>4, <1>5, <1>9, <2>2, <2>3 DEF FoundLater
  <2> QED
    BY <2>1, <2>4 DEF ProjectInv
<1> QED
  BY <1>8, <1>9 DEF Project!LookBeside, Project!Tried

LEMMA ProjectHere == ASSUME ProjectInv, Project!LookHere PROVE ProjectInv'
<1>1. UNCHANGED <<there, known, line, failed>> /\ place = Project!Here /\ place' = place + 1
  BY DEF Project!LookHere
<1>2. ProjectTypes
  BY DEF ProjectInv
<1>3. /\ Len(Beside) \in Nat /\ DOMAIN Beside = 1 .. Len(Beside) /\ Len(line) \in Nat
      /\ Project!Here = Len(Beside) + 1 /\ Project!End = Len(Beside) + 1 + Len(line)
  BY <1>2, PlacesProperties DEF ProjectTypes
<1>4. /\ Project!End' = Project!End /\ Project!Here' = Project!Here
      /\ (Project!NoSelection' <=> Project!NoSelection)
      /\ Project!Taken' = Project!Taken /\ HereTaken' = HereTaken
  BY <1>1, ProjectFixed
<1>5. ~Project!Done
  BY <1>1, <1>3 DEF Project!Done
<1>6. NoneBeside /\ NothingYet
  BY <1>1, <1>3, <1>5 DEF ProjectInv, FoundBeside, FoundLater
<1>7. directory' = HereTaken /\ (selected' <=> known /\ ~Project!NoSelection)
  BY <1>6 DEF Project!LookHere, HereTaken, NothingYet
<1>8. ProjectTypes'
  <2>1. place' \in 1 .. Project!End + 1 /\ directory' \subseteq 1 .. Project!End
    BY <1>1, <1>3, <1>7 DEF HereTaken
  <2>2. selected' \in BOOLEAN
    BY <1>2 DEF ProjectTypes, Project!LookHere
  <2> QED
    BY <1>1, <1>2, <1>4, <2>1, <2>2 DEF ProjectTypes
<1>9. NoneBeside'
  BY <1>1, <1>3, <1>4, <1>6 DEF NoneBeside
<1>10. TakenNow' = {}
  <2>1. \A p \in Project!Taken : p \in Nat /\ p > Project!Here
    BY <1>2, <1>3, NamesProperties DEF ProjectTypes
  <2> QED
    BY <1>1, <1>3, <1>4, <2>1 DEF TakenNow
<1>11. LedTo'
  BY <1>1, <1>4, <1>7, <1>10 DEF LedTo
<1>12. FoundLater'
  BY <1>1, <1>3, <1>4, <1>6, <1>9, <1>11 DEF FoundLater, NothingYet
<1> QED
  BY <1>8, <1>12 DEF ProjectInv

\* The next name is taken exactly when something is selected, or it is there.
LEMMA NextTaken ==
  ASSUME ProjectTypes, LedTo, place \in Project!Names
  PROVE  place \in Project!Taken <=> selected \/ Project!Word(place) \in there
<1>1. Project!Names \subseteq Nat /\ place \in Nat
  BY PlacesProperties, NamesProperties DEF ProjectTypes
<1>2. CASE known /\ ~Project!NoSelection
  BY <1>2 DEF LedTo, Project!Taken
<1>3. CASE ~(known /\ ~Project!NoSelection)
  <2>1. selected <=> \E p \in TakenNow : TRUE
    BY <1>3 DEF LedTo
  <2>2. (\E p \in TakenNow : TRUE) <=> \E q \in Project!Names : q < place /\ Project!Word(q) \in there
    BY <1>1, <1>3 DEF TakenNow, Project!Taken
  <2>3. place \in Project!Taken <=> \E q \in Project!Names : q <= place /\ Project!Word(q) \in there
    BY <1>3 DEF Project!Taken
  <2> QED
    BY <1>1, <2>1, <2>2, <2>3
<1> QED
  BY <1>2, <1>3

LEMMA ProjectWord == ASSUME ProjectInv, Project!LookAtWord PROVE ProjectInv'
<1>1. /\ UNCHANGED <<there, known, line>> /\ place > Project!Here /\ ~Project!Done
  BY DEF Project!LookAtWord
<1>2. ProjectTypes /\ line \in ProjectLines
  BY DEF ProjectInv, ProjectTypes
<1>3. /\ Len(Beside) \in Nat /\ DOMAIN Beside = 1 .. Len(Beside) /\ Len(line) \in Nat
      /\ Project!Here = Len(Beside) + 1 /\ Project!End = Len(Beside) + 1 + Len(line)
      /\ Project!Stop \in 1 .. Len(line) + 1
  BY <1>2, PlacesProperties, StopProperties
<1>4. /\ Project!End' = Project!End /\ Project!Here' = Project!Here
      /\ (Project!NoSelection' <=> Project!NoSelection)
      /\ Project!Names' = Project!Names /\ Project!Taken' = Project!Taken
      /\ HereTaken' = HereTaken /\ \A p : Project!Word(p)' = Project!Word(p)
  BY <1>1, ProjectFixed
<1>5. place \in Nat /\ place <= Project!End
  BY <1>1, <1>2, <1>3 DEF ProjectTypes, Project!Done
<1>6. NoneBeside /\ ~failed /\ LedTo
  BY <1>1, <1>3, <1>5 DEF ProjectInv, FoundBeside, FoundLater, StartFails
<1>7. /\ Project!Names \subseteq Project!Here + 1 .. Project!End
      /\ Project!Taken \subseteq Project!Names
  BY <1>2, NamesProperties
<1>8. place' \in Nat /\ place' > place /\ place' <= Project!End + 1
  BY <1>3, <1>5 DEF Project!LookAtWord
<1>9. NoneBeside'
  BY <1>1, <1>3, <1>4, <1>5, <1>6, <1>8 DEF NoneBeside
<1>10. ASSUME UNCHANGED <<directory, selected, failed>>,
              \A p \in Project!Taken : p < place' <=> p < place
       PROVE  ProjectInv'
  <2>1. TakenNow' = TakenNow
    BY <1>4, <1>10 DEF TakenNow
  <2>2. LedTo'
    BY <1>1, <1>4, <1>6, <1>10, <2>1 DEF LedTo
  <2>3. ProjectTypes'
    BY <1>1, <1>2, <1>3, <1>4, <1>8, <1>10 DEF ProjectTypes
  <2>4. FoundLater'
    BY <1>1, <1>3, <1>4, <1>5, <1>6, <1>8, <1>9, <1>10, <2>2 DEF FoundLater
  <2> QED
    BY <2>3, <2>4 DEF ProjectInv
<1>11. CASE /\ place > Project!Here + Project!LastWord
            /\ UNCHANGED <<directory, selected, failed>>
  <2>1. \A p \in Project!Taken : p < place
    BY <1>3, <1>5, <1>7, <1>11 DEF Project!Names, Project!LastWord
  <2>2. \A p \in Project!Taken : p < place' <=> p < place
    BY <1>3, <1>5, <1>7, <1>8, <2>1
  <2> QED
    BY <1>10, <1>11, <2>2
<1>12. CASE /\ Project!Word(place) \notin Given /\ place' = place + 1
            /\ UNCHANGED <<directory, selected, failed>>
  <2>1. place \notin Project!Taken
    BY <1>7, <1>12 DEF Project!Names
  <2>2. \A p \in Project!Taken : p < place' <=> p < place
    BY <1>3, <1>5, <1>7, <1>12, <2>1
  <2> QED
    BY <1>10, <1>12, <2>2
<1>13. CASE /\ ~(place > Project!Here + Project!LastWord) /\ Project!Word(place) \in Given
            /\ selected' = (selected \/ Project!Word(place) \in there)
            /\ directory' = IF selected' THEN Project!Below(place) ELSE directory
            /\ failed' = (selected' /\ Project!Word(place) \notin there \cup Ended)
            /\ place' = IF failed' THEN Project!End + 1 ELSE place + 1
  <2>1. place \in Project!Names
    BY <1>1, <1>3, <1>5, <1>13 DEF Project!Names, Project!LastWord
  <2>2. place \in Project!Taken <=> selected'
    BY <1>2, <1>6, <1>13, <2>1, NextTaken
  <2>3. selected' \in BOOLEAN /\ failed' \in BOOLEAN /\ directory' \subseteq 1 .. Project!End
    BY <1>1, <1>2, <1>3, <1>5, <1>13 DEF ProjectTypes, Project!Below
  <2>4. ProjectTypes'
    BY <1>1, <1>2, <1>3, <1>4, <1>8, <2>3 DEF ProjectTypes
  <2>5. CASE ~selected'
    <3>1. selected' = selected /\ failed' = failed /\ directory' = directory /\ place' = place + 1
      BY <1>2, <1>6, <1>13, <2>5 DEF ProjectTypes
    <3>2. \A p \in Project!Taken : p < place' <=> p < place
      BY <1>3, <1>5, <1>7, <2>2, <2>5, <3>1
    <3> QED
      BY <1>10, <3>1, <3>2
  <2>6. CASE selected' /\ failed'
    <3>1. place' > Project!End' /\ Project!Word(place) \notin there \cup Ended
      <4>1. place' = Project!End + 1 /\ Project!Word(place) \notin there \cup Ended
        BY <1>13, <2>6
      <4> QED
        BY <1>3, <1>4, <4>1
    <3>2. StartFails'
      BY <1>1, <1>4, <2>2, <2>6, <3>1 DEF StartFails, Project!Done
    <3> QED
      BY <1>1, <1>3, <1>4, <1>5, <1>8, <1>9, <2>4, <2>6, <3>2 DEF FoundLater, ProjectInv
  <2>7. CASE selected' /\ ~failed'
    <3>1. place' = place + 1 /\ directory' = Project!Below(place)
      BY <1>13, <2>7
    <3>2. TakenNow' = TakenNow \cup {place}
      <4>1. \A p \in Project!Taken : p < place + 1 <=> p < place \/ p = place
        BY <1>3, <1>5, <1>7
      <4>2. place \in Project!Taken
        BY <2>2, <2>7
      <4> QED
        BY <1>4, <3>1, <4>1, <4>2 DEF TakenNow
    <3>3. \A p \in TakenNow \cup HereTaken : p < place
      BY <1>1, <1>3, <1>5 DEF TakenNow, HereTaken
    <3>4. \A p \in TakenNow' : Project!Word(p)' \in there' \cup Ended
      BY <1>1, <1>4, <1>6, <1>13, <2>7, <3>2 DEF LedTo
    <3>5. directory' = {p \in TakenNow' \cup HereTaken' :
                          \A q \in TakenNow' : q > p => Project!Word(q)' \in Relative}
      <4> DEFINE D == {p \in TakenNow \cup HereTaken :
                         \A q \in TakenNow : q > p => Project!Word(q) \in Relative}
                 E == {p \in TakenNow \cup {place} \cup HereTaken :
                         \A q \in TakenNow \cup {place} : q > p => Project!Word(q) \in Relative}
      <4>1. directory = D
        BY <1>6 DEF LedTo
      <4>2. \A q \in TakenNow : ~ (q > place)
        BY <1>3, <1>5, <1>7, <3>3 DEF TakenNow
      <4>3. ~ (place > place)
        BY <1>5
      <4>4. place \in E /\ \A p \in E : p # place => p \in D
        BY <4>2, <4>3
      <4>5. ASSUME Project!Word(place) \in Relative PROVE D \subseteq E
        BY <4>5
      <4>6. ASSUME Project!Word(place) \notin Relative PROVE E = {place}
        BY <1>5, <3>3, <4>4, <4>6
      <4>7. E = IF Project!Word(place) \in Relative THEN D \cup {place} ELSE {place}
        BY <4>4, <4>5, <4>6
      <4>8. E = directory'
        BY <3>1, <4>1, <4>7 DEF Project!Below
      <4>9. E = {p \in TakenNow' \cup HereTaken' :
                   \A q \in TakenNow' : q > p => Project!Word(q)' \in Relative}
        BY <1>4, <3>2
      <4> HIDE DEF D, E
      <4> QED
        BY <4>8, <4>9
    <3>6. LedTo'
      BY <2>7, <3>2, <3>4, <3>5 DEF LedTo
    <3> QED
      BY <1>1, <1>3, <1>4, <1>5, <1>8, <1>9, <2>4, <2>7, <3>6 DEF FoundLater, ProjectInv
  <2> QED
    BY <2>5, <2>6, <2>7
<1> QED
  BY <1>11, <1>12, <1>13 DEF Project!LookAtWord

LEMMA ProjectStays == ASSUME ProjectInv, [Project!Next]_(Project!vars) PROVE ProjectInv'
<1>1. CASE UNCHANGED Project!vars
  <2>1. UNCHANGED <<there, known, line, place, directory, selected, failed>>
    BY <1>1 DEF Project!vars
  <2>2. /\ Project!End' = Project!End /\ Project!Here' = Project!Here
        /\ (Project!NoSelection' <=> Project!NoSelection)
        /\ Project!Taken' = Project!Taken
        /\ HereTaken' = HereTaken /\ \A p : Project!Word(p)' = Project!Word(p)
    BY <2>1, ProjectFixed
  <2>3. TakenNow' = TakenNow /\ (Project!Done' <=> Project!Done)
    BY <2>1, <2>2 DEF TakenNow, Project!Done
  <2>4. ProjectTypes' /\ (NoneBeside => NoneBeside') /\ (NothingYet => NothingYet')
    BY <2>1, <2>2 DEF ProjectInv, ProjectTypes, NoneBeside, NothingYet
  <2>5. (LedTo => LedTo') /\ (StartFails => StartFails')
    BY <2>1, <2>2, <2>3 DEF LedTo, StartFails
  <2>6. FoundBeside => FoundBeside'
    BY <2>1, <2>2, <2>3 DEF FoundBeside
  <2>7. FoundLater => FoundLater'
    BY <2>1, <2>2, <2>4, <2>5 DEF FoundLater
  <2> QED
    BY <2>4, <2>6, <2>7 DEF ProjectInv
<1> QED
  BY <1>1, ProjectBeside, ProjectHere, ProjectWord DEF Project!Next

LEMMA ProjectHolds == ASSUME ProjectInv PROVE Project!TypeOK /\ Project!ProjectFound
<1>1. Project!TypeOK
  BY DEF ProjectInv, ProjectTypes, Project!TypeOK
<1>2. CASE FoundBeside
  <2>1. ~Project!NoSelection /\ \E b \in DOMAIN Beside : Beside[b] \in there
    BY <1>2, Zenon DEF FoundBeside
  <2> QED
    BY <1>1, <1>2, <2>1, Zenon DEF FoundBeside, Project!ProjectFound
<1>3. CASE FoundLater /\ Project!Done
  <2>1. /\ Len(Beside) \in Nat /\ DOMAIN Beside = 1 .. Len(Beside) /\ Len(line) \in Nat
        /\ Project!Here = Len(Beside) + 1 /\ Project!End = Len(Beside) + 1 + Len(line)
        /\ place \in Nat
    BY PlacesProperties DEF ProjectInv, ProjectTypes
  <2>2. place > Project!End /\ place > Project!Here
    BY <1>3, <2>1 DEF Project!Done
  <2>3. ~(~Project!NoSelection /\ \E b \in DOMAIN Beside : Beside[b] \in there)
    BY <1>3, <2>1, <2>2 DEF FoundLater, NoneBeside
  <2>4. TakenNow = Project!Taken
    BY <2>1, <2>2, NamesProperties DEF TakenNow, ProjectInv, ProjectTypes
  <2>5. IF failed THEN StartFails ELSE LedTo
    BY <1>3, <2>2 DEF FoundLater
  <2>6. failed <=> \E p \in Project!Taken : Project!Word(p) \notin there \cup Ended
    BY <2>4, <2>5 DEF StartFails, LedTo
  <2>7. ~failed =>
          /\ directory = {p \in Project!Taken \cup (IF known THEN {Project!Here} ELSE {}) :
                            \A q \in Project!Taken : q > p => Project!Word(q) \in Relative}
          /\ selected <=> (known /\ ~Project!NoSelection) \/ Project!Taken # {}
    BY <2>4, <2>5, Zenon DEF LedTo, HereTaken
  <2> QED
    BY <1>1, <2>3, <2>6, <2>7, Zenon DEF Project!ProjectFound
<1>4. CASE ~Project!Done
  BY <1>1, <1>4, Zenon DEF Project!ProjectFound
<1> QED
  BY <1>1, <1>2, <1>3, <1>4 DEF ProjectInv

-----------------------------------------------------------------------------
(* Arguments of the program.                                               *)

Option == [name : OptionNames, value : Values]
Generations == 2 ^ Width
\* How many changes of the arguments a reader has not seen.
Behind(n) ==
  IF generation >= seen[n] THEN generation - seen[n]
  ELSE generation - seen[n] + (Generations - 1)
ArgumentTypes ==
  /\ options \in Seq(Option)
  /\ generation \in 1 .. Generations - 1
  /\ seen \in [Options -> 0 .. Generations - 1] /\ kept \in [Options -> Values \cup {None}]
  /\ sets \in 0 .. MaxSets
ArgumentsSeen == \A n \in Options : seen[n] # 0 => Behind(n) <= sets
ArgumentInv == ArgumentTypes /\ ArgumentsSeen /\ Arguments!KeptIsCurrent

LEMMA Wraps ==
  ASSUME NEW G \in Nat, G > 1, NEW x \in 1 .. G PROVE x % G = 0 <=> x = G
OBVIOUS

\* An option is of a name if it has that name.
LEMMA IsName ==
  ASSUME NEW n \in OptionNames, NEW o \in Option PROVE Arguments!Is(n, o) <=> o.name = n
<1> DEFINE m == o.name
<1>1. m \in OptionNames
  BY DEF Option
<1>2. n \in Seq(Arguments!Range(n)) /\ m \in Seq(Arguments!Range(m))
  BY <1>1, ArgumentsAssumption
<1> HIDE DEF m
<1>3. SubSeq(n, 1, Len(n)) = n /\ SubSeq(m, 1, Len(m)) = m /\ Len(n) \in Nat /\ Len(m) \in Nat
  BY <1>2, SubSeqFull, LenProperties
<1>4. Arguments!Is(n, o) <=> Len(n) <= Len(m) /\ SubSeq(n, 1, Len(n)) = SubSeq(m, 1, Len(n)) /\ Len(m) = Len(n)
  BY DEF Arguments!Is, Arguments!IsPrefix, m
<1>5. Arguments!Is(n, o) => m = n
  <2> HAVE Arguments!Is(n, o)
  <2>1. Len(m) = Len(n) /\ SubSeq(n, 1, Len(n)) = SubSeq(m, 1, Len(n))
    BY <1>4
  <2>2. SubSeq(m, 1, Len(n)) = SubSeq(m, 1, Len(m))
    BY <2>1
  <2> QED
    BY <1>3, <2>1, <2>2
<1>6. m = n => Arguments!Is(n, o)
  <2> HAVE m = n
  <2>1. Len(m) = Len(n) /\ SubSeq(n, 1, Len(n)) = SubSeq(m, 1, Len(n))
    OBVIOUS
  <2>2. Len(n) <= Len(m)
    BY <1>3, <2>1
  <2> QED
    BY <1>4, <2>1, <2>2
<1> QED
  BY <1>5, <1>6 DEF m

\* The options of a name are those that have it, the first of them is least.
LEMMA AtName ==
  ASSUME ArgumentTypes, NEW n \in OptionNames
  PROVE  /\ Arguments!At(n) = {i \in 1 .. Len(options) : options[i].name = n}
         /\ Arguments!At(n) # {} =>
              /\ Arguments!First(n) \in Arguments!At(n)
              /\ \A i \in Arguments!At(n) : Arguments!First(n) <= i
<1>1. Len(options) \in Nat /\ DOMAIN options = 1 .. Len(options) /\ \A i \in 1 .. Len(options) : options[i] \in Option
  BY DEF ArgumentTypes
<1>2. Arguments!At(n) = {i \in 1 .. Len(options) : options[i].name = n}
  BY <1>1, IsName DEF Arguments!At
<1>3. ASSUME Arguments!At(n) # {}
      PROVE  \E m \in Arguments!At(n) : \A i \in Arguments!At(n) : m <= i
  <2>1. Arguments!At(n) \subseteq Nat
    BY <1>1, <1>2
  <2> QED
    BY <1>3, <2>1, LeastNumber
<1> QED
  BY <1>2, <1>3 DEF Arguments!First

\* The least index is the only one that is least.
LEMMA FirstIs ==
  ASSUME ArgumentTypes, NEW n \in OptionNames, NEW k \in Arguments!At(n),
         \A i \in Arguments!At(n) : k <= i
  PROVE  Arguments!First(n) = k
<1>1. Arguments!At(n) \subseteq Nat /\ Arguments!First(n) \in Arguments!At(n) /\ Arguments!First(n) <= k
  BY AtName DEF ArgumentTypes
<1> QED
  BY <1>1

LEMMA ArgumentStart == ASSUME Arguments!Init PROVE ArgumentInv
<1>1. options \in Seq(Option)
  BY ArgumentsAssumption DEF Arguments!Init, Option
<1>2. Generations \in Nat /\ Generations > 1 /\ 0 \in 0 .. MaxSets
  BY ArgumentsAssumption DEF Generations
<1>3. generation = 1 /\ seen = [n \in Options |-> 0] /\ kept = [n \in Options |-> None] /\ sets = 0
  BY DEF Arguments!Init
<1>4. ArgumentTypes
  BY <1>1, <1>2, <1>3 DEF ArgumentTypes
<1>5. ArgumentsSeen /\ Arguments!KeptIsCurrent
  BY <1>3 DEF ArgumentsSeen, Arguments!KeptIsCurrent
<1> QED
  BY <1>4, <1>5 DEF ArgumentInv

LEMMA ArgumentRead ==
  ASSUME ArgumentInv, NEW name \in Options, Arguments!Read(name)
  PROVE  ArgumentInv' /\ \A n \in Options : Arguments!GetCommandLine(n)' = Arguments!GetCommandLine(n)
<1>1. options' = options /\ generation' = generation
  BY DEF Arguments!Read
<1>2. \A n \in Options : Arguments!GetCommandLine(n)' = Arguments!GetCommandLine(n)
  BY <1>1 DEF Arguments!GetCommandLine, Arguments!At, Arguments!First, Arguments!Is,
    Arguments!IsPrefix
<1>3. ArgumentTypes
  BY DEF ArgumentInv
<1>4. Generations \in Nat /\ Generations > 1 /\ MaxSets \in Nat
  BY ArgumentsAssumption DEF Generations
<1>5. \A n \in Options : Arguments!GetCommandLine(n) \in Values \cup {None}
  <2> TAKE n \in Options
  <2>1. n \in OptionNames
    BY DEF OptionNames
  <2>2. CASE Arguments!At(n) = {}
    BY <2>2 DEF Arguments!GetCommandLine
  <2>3. CASE Arguments!At(n) # {}
    <3>1. Arguments!First(n) \in 1 .. Len(options)
      BY <1>3, <2>1, <2>3, AtName
    <3>2. options[Arguments!First(n)] \in Option
      BY <1>3, <3>1 DEF ArgumentTypes
    <3> QED
      BY <2>3, <3>2 DEF Arguments!GetCommandLine, Option
  <2> QED
    BY <2>2, <2>3
<1>6. \/ UNCHANGED <<seen, kept>>
      \/ /\ seen' = [seen EXCEPT ![name] = generation]
         /\ kept' = [kept EXCEPT ![name] = Arguments!GetCommandLine(name)]
  BY DEF Arguments!Read
<1>7. sets' = IF \A n \in Options : seen'[n] = generation THEN 0 ELSE sets
  BY DEF Arguments!Read
<1>8. ArgumentTypes'
  <2>1. seen' \in [Options -> 0 .. Generations - 1]
    BY <1>3, <1>4, <1>6 DEF ArgumentTypes
  <2>2. kept' \in [Options -> Values \cup {None}]
    BY <1>3, <1>5, <1>6 DEF ArgumentTypes
  <2>3. sets' \in 0 .. MaxSets
    BY <1>3, <1>4, <1>7 DEF ArgumentTypes
  <2> QED
    BY <1>1, <1>3, <2>1, <2>2, <2>3 DEF ArgumentTypes
<1>9. \A n \in Options : seen'[n] = generation \/ (seen'[n] = seen[n] /\ kept'[n] = kept[n])
  BY <1>3, <1>6 DEF ArgumentTypes
<1>10. ArgumentsSeen'
  <2> SUFFICES ASSUME NEW n \in Options, seen'[n] # 0 PROVE Behind(n)' <= sets'
    BY DEF ArgumentsSeen
  <2>1. generation \in 1 .. Generations - 1 /\ sets \in Nat /\ sets' \in Nat
    BY <1>3, <1>8 DEF ArgumentTypes
  <2>2. CASE seen'[n] = generation
    <3>1. Behind(n)' = 0
      BY <1>1, <2>1, <2>2 DEF Behind
    <3> QED
      BY <2>1, <3>1
  <2>3. CASE seen'[n] # generation
    <3>1. sets' = sets /\ seen'[n] = seen[n]
      BY <1>7, <1>9, <2>3
    <3>2. Behind(n)' = Behind(n)
      BY <1>1, <3>1 DEF Behind
    <3> QED
      BY <3>1, <3>2 DEF ArgumentInv, ArgumentsSeen
  <2> QED
    BY <2>2, <2>3
<1>11. Arguments!KeptIsCurrent'
  <2>1. ASSUME NEW n \in Options, seen'[n] = generation PROVE kept'[n] = Arguments!GetCommandLine(n)
    <3>1. CASE UNCHANGED <<seen, kept>> \/ n # name
      BY <1>3, <1>6, <2>1, <3>1 DEF ArgumentInv, ArgumentTypes, Arguments!KeptIsCurrent
    <3>2. CASE n = name /\ kept' = [kept EXCEPT ![name] = Arguments!GetCommandLine(name)]
      BY <1>3, <3>2 DEF ArgumentTypes
    <3> QED
      BY <1>6, <3>1, <3>2
  <2> QED
    BY <1>1, <1>2, <2>1 DEF Arguments!KeptIsCurrent
<1> QED
  BY <1>2, <1>8, <1>10, <1>11 DEF ArgumentInv

\* Setting an option: its own place, or a new one in front, and no other.
LEMMA ArgumentPlaced ==
  ASSUME ArgumentInv, NEW name \in Options, NEW value \in Values,
         Arguments!SetCommandLine(name, value)
  PROVE  /\ options' \in Seq(Option)
         /\ \A n \in Options : n # name =>
              Arguments!GetCommandLine(n)' = Arguments!GetCommandLine(n)
<1>0. ArgumentTypes /\ name \in OptionNames /\ Options \subseteq OptionNames
  BY DEF ArgumentInv, OptionNames
<1>1. /\ options \in Seq(Option) /\ Len(options) \in Nat /\ DOMAIN options = 1 .. Len(options)
      /\ \A i \in 1 .. Len(options) : options[i] \in Option
  BY <1>0 DEF ArgumentTypes
<1> DEFINE had == Arguments!GetCommandLine(name) # None
           new == [name |-> name, value |-> value]
           k == Arguments!First(name)
<1>2. options' = IF had THEN [options EXCEPT ![k].value = value] ELSE <<new>> \o options
  BY DEF Arguments!SetCommandLine
<1>3. had => Arguments!At(name) # {}
  BY DEF Arguments!GetCommandLine
<1>4. new \in Option /\ new.name = name
  BY <1>0 DEF Option
<1> DEFINE Keeps == \A n \in Options : n # name =>
              Arguments!GetCommandLine(n)' = Arguments!GetCommandLine(n)
<1>5. CASE had
  <2>1. k \in 1 .. Len(options) /\ options[k].name = name
    BY <1>0, <1>3, <1>5, AtName
  <2> HIDE DEF k, had, new
  <2>2. options' = [options EXCEPT ![k] = [options[k] EXCEPT !.value = value]]
    BY <1>2, <1>5
  <2>3. [options[k] EXCEPT !.value = value] \in Option /\ [options[k] EXCEPT !.value = value].name = name
    BY <1>1, <2>1 DEF Option
  <2>4. /\ options' \in Seq(Option) /\ Len(options') = Len(options)
        /\ \A j \in 1 .. Len(options) : options'[j] = IF j = k THEN [options[k] EXCEPT !.value = value] ELSE options[j]
    BY <1>1, <2>1, <2>2, <2>3, ExceptSeq
  <2>5. DOMAIN options' = 1 .. Len(options)
    BY <1>1, <2>4
  <2>6. ASSUME NEW n \in Options, n # name
        PROVE  Arguments!GetCommandLine(n)' = Arguments!GetCommandLine(n)
    <3>1. \A j \in 1 .. Len(options) : options'[j] \in Option /\ options'[j].name = options[j].name
      BY <1>1, <2>1, <2>3, <2>4
    <3>2. Arguments!At(n)' = Arguments!At(n)
      <4>1. Arguments!At(n)' = {i \in 1 .. Len(options) : Arguments!Is(n, options'[i])}
        BY <2>5 DEF Arguments!At
      <4>2. \A i \in 1 .. Len(options) : Arguments!Is(n, options'[i]) <=> options[i].name = n
        BY <1>0, <3>1, IsName
      <4>3. Arguments!At(n) = {i \in 1 .. Len(options) : options[i].name = n}
        BY <1>0, AtName
      <4> QED
        BY <4>1, <4>2, <4>3
    <3>3. Arguments!First(n)' = Arguments!First(n)
      BY <3>2 DEF Arguments!First
    <3>4. CASE Arguments!At(n) = {}
      BY <3>2, <3>4 DEF Arguments!GetCommandLine
    <3>5. CASE Arguments!At(n) # {}
      <4>1. Arguments!First(n) \in 1 .. Len(options) /\ options[Arguments!First(n)].name = n
        BY <1>0, <3>5, AtName
      <4>2. Arguments!First(n) # k
        BY <2>1, <2>6, <4>1
      <4>3. options'[Arguments!First(n)] = options[Arguments!First(n)]
        BY <2>4, <4>1, <4>2
      <4> QED
        BY <3>2, <3>3, <3>5, <4>3 DEF Arguments!GetCommandLine
    <3> QED
      BY <3>4, <3>5
  <2> QED
    BY <2>4, <2>6
<1>6. CASE ~had
  <2> HIDE DEF k, had, new
  <2>1. options' = <<new>> \o options
    BY <1>2, <1>6
  <2>2. <<new>> \in Seq(Option) /\ Len(<<new>>) = 1 /\ <<new>>[1] = new
    BY <1>4
  <2>3. /\ options' \in Seq(Option) /\ Len(options') = Len(options) + 1
        /\ \A i \in 1 .. 1 + Len(options) : options'[i] = IF i <= 1 THEN <<new>>[i] ELSE options[i - 1]
    BY <1>1, <2>1, <2>2, ConcatProperties
  <2>4. options'[1] = new /\ \A i \in 1 .. Len(options) : options'[i + 1] = options[i]
    <3>1. ASSUME NEW i \in 1 .. Len(options) PROVE options'[i + 1] = options[i]
      <4>1. i + 1 \in 1 .. 1 + Len(options) /\ ~(i + 1 <= 1) /\ i + 1 - 1 = i
        BY <1>1
      <4> QED
        BY <2>3, <4>1
    <3> QED
      BY <1>1, <2>2, <2>3, <3>1
  <2>5. DOMAIN options' = 1 .. Len(options) + 1
    BY <1>1, <2>3
  <2>6. ASSUME NEW n \in Options, n # name
        PROVE  Arguments!GetCommandLine(n)' = Arguments!GetCommandLine(n)
    <3>0. \A j \in 1 .. Len(options) + 1 : options'[j] \in Option
      BY <1>1, <2>3, <2>5
    <3>1. Arguments!At(n)' = {i \in 1 .. Len(options) + 1 : options'[i].name = n}
      <4>1. Arguments!At(n)' = {i \in 1 .. Len(options) + 1 : Arguments!Is(n, options'[i])}
        BY <2>5 DEF Arguments!At
      <4>2. \A i \in 1 .. Len(options) + 1 : Arguments!Is(n, options'[i]) <=> options'[i].name = n
        BY <1>0, <3>0, IsName
      <4> QED
        BY <4>1, <4>2
    <3>2. Arguments!At(n) = {i \in 1 .. Len(options) : options[i].name = n}
      BY <1>0, AtName
    <3>3. \A i \in Arguments!At(n)' : i - 1 \in Arguments!At(n)
      <4> TAKE i \in Arguments!At(n)'
      <4>1. i \in 1 .. Len(options) + 1 /\ options'[i].name = n
        BY <3>1
      <4>2. i # 1
        BY <1>4, <2>4, <2>6, <4>1
      <4>3. i - 1 \in 1 .. Len(options) /\ i - 1 + 1 = i
        BY <1>1, <4>1, <4>2
      <4>4. options[i - 1].name = n
        BY <2>4, <4>1, <4>3
      <4> QED
        BY <3>2, <4>3, <4>4
    <3>4. \A i \in Arguments!At(n) : i + 1 \in Arguments!At(n)'
      <4> TAKE i \in Arguments!At(n)
      <4>1. i \in 1 .. Len(options) /\ options[i].name = n
        BY <3>2
      <4>2. i + 1 \in 1 .. Len(options) + 1 /\ options'[i + 1].name = n
        BY <1>1, <2>4, <4>1
      <4> QED
        BY <3>1, <4>2
    <3>5. CASE Arguments!At(n) = {}
      <4>1. Arguments!At(n)' = {}
        BY <3>3, <3>5
      <4> QED
        BY <3>5, <4>1 DEF Arguments!GetCommandLine
    <3>6. CASE Arguments!At(n) # {}
      <4> DEFINE m == Arguments!First(n)
      <4>1. m \in Arguments!At(n) /\ (\A i \in Arguments!At(n) : m <= i) /\ m \in 1 .. Len(options)
        BY <1>0, <3>6, AtName
      <4> HIDE DEF m
      <4>2. m + 1 \in Arguments!At(n)'
        BY <3>4, <4>1
      <4>3. \A i \in Arguments!At(n)' : m + 1 <= i
        <5> TAKE i \in Arguments!At(n)'
        <5>1. m <= i - 1 /\ i \in Int
          BY <3>1, <3>3, <4>1
        <5> QED
          BY <4>1, <5>1
      <4>4. Arguments!First(n)' = m + 1
        <5>1. Arguments!At(n)' \subseteq Nat
          BY <3>1
        <5>2. Arguments!First(n)' = CHOOSE i \in Arguments!At(n)' : \A j \in Arguments!At(n)' : i <= j
          BY DEF Arguments!First
        <5>3. Arguments!First(n)' \in Arguments!At(n)' /\ \A j \in Arguments!At(n)' : Arguments!First(n)' <= j
          BY <4>2, <4>3, <5>2
        <5>4. m + 1 <= Arguments!First(n)' /\ Arguments!First(n)' <= m + 1
          BY <4>2, <4>3, <5>3
        <5> QED
          BY <4>1, <5>1, <5>3, <5>4
      <4>5. options'[m + 1] = options[m]
        BY <2>4, <4>1
      <4>6. Arguments!At(n)' # {}
        BY <4>2
      <4> QED
        BY <3>6, <4>4, <4>5, <4>6 DEF Arguments!GetCommandLine, m
    <3> QED
      BY <3>5, <3>6
  <2> QED
    BY <2>3, <2>6
<1> QED
  BY <1>5, <1>6

LEMMA ArgumentSet ==
  ASSUME ArgumentInv, NEW name \in Options, NEW value \in Values,
         Arguments!SetCommandLine(name, value)
  PROVE  ArgumentInv'
<1>1. ArgumentTypes
  BY DEF ArgumentInv
<1>2. Generations \in Nat /\ Generations > 1 /\ MaxSets \in Nat /\ MaxSets + 1 < Generations
  BY ArgumentsAssumption DEF Generations
<1>3. /\ sets < MaxSets /\ sets' = sets + 1 /\ UNCHANGED <<seen, kept>>
      /\ generation' = IF (generation + 1) % Generations = 0 THEN 1 ELSE generation + 1
  BY DEF Arguments!SetCommandLine, Arguments!NextGeneration, Generations
<1>4. generation \in 1 .. Generations - 1 /\ sets \in 0 .. MaxSets
  BY <1>1 DEF ArgumentTypes
<1>5. generation' = IF generation + 1 = Generations THEN 1 ELSE generation + 1
  <2>1. generation + 1 \in 1 .. Generations
    BY <1>2, <1>4
  <2>2. (generation + 1) % Generations = 0 <=> generation + 1 = Generations
    BY <1>2, <2>1, Wraps
  <2> QED
    BY <1>3, <2>2
<1>6. generation' \in 1 .. Generations - 1 /\ sets' \in 0 .. MaxSets
  BY <1>2, <1>3, <1>4, <1>5
<1>7. ArgumentTypes'
  BY <1>1, <1>3, <1>6, ArgumentPlaced DEF ArgumentTypes
<1>8. ASSUME NEW n \in Options
      PROVE  seen[n] # generation' /\ (seen[n] # 0 => Behind(n)' <= sets')
  <2>1. seen[n] \in 0 .. Generations - 1
    BY <1>1 DEF ArgumentTypes
  <2>2. seen[n] # 0 => Behind(n) <= sets
    BY DEF ArgumentInv, ArgumentsSeen
  <2>3. Behind(n)' = IF generation' >= seen[n] THEN generation' - seen[n]
                     ELSE generation' - seen[n] + (Generations - 1)
    BY <1>3 DEF Behind, Generations
  <2>4. seen[n] # generation'
    BY <1>2, <1>3, <1>4, <1>5, <2>1, <2>2 DEF Behind
  <2> QED
    BY <1>2, <1>3, <1>4, <1>5, <2>1, <2>2, <2>3, <2>4 DEF Behind
<1>9. ArgumentsSeen'
  BY <1>3, <1>8 DEF ArgumentsSeen
<1>10. Arguments!KeptIsCurrent'
  BY <1>3, <1>8 DEF Arguments!KeptIsCurrent
<1> QED
  BY <1>7, <1>9, <1>10 DEF ArgumentInv

\* One option changes at most.
ArgumentMoves == Arguments!Cardinality(Arguments!Changed) <= 1

LEMMA SameCount == ASSUME NEW S PROVE Arguments!Cardinality(S) = Cardinality(S)
  BY DEF Arguments!Cardinality, Cardinality

LEMMA AtMostOne ==
  ASSUME NEW S, NEW name, S \subseteq {name} PROVE Cardinality(S) <= 1
<1>1. IsFiniteSet({name}) /\ Cardinality({name}) = 1
  BY FS_Singleton
<1> QED
  BY <1>1, FS_Subset

LEMMA ArgumentStays ==
  ASSUME ArgumentInv, [Arguments!Next]_(Arguments!vars) PROVE ArgumentInv' /\ ArgumentMoves
<1> DEFINE S == {n \in Options : Arguments!GetCommandLine(n)' # Arguments!GetCommandLine(n)}
<1>1. ASSUME \A n \in Options : Arguments!GetCommandLine(n)' = Arguments!GetCommandLine(n)
      PROVE  ArgumentMoves
  <2>1. S = {}
    BY <1>1
  <2> QED
    BY <2>1, FS_EmptySet, SameCount DEF ArgumentMoves, Arguments!Changed
<1>2. CASE UNCHANGED Arguments!vars
  <2>1. UNCHANGED <<options, generation, seen, kept, sets>>
    BY <1>2 DEF Arguments!vars
  <2>2. \A n : Arguments!GetCommandLine(n)' = Arguments!GetCommandLine(n)
    BY <2>1 DEF Arguments!GetCommandLine, Arguments!At, Arguments!First, Arguments!Is,
      Arguments!IsPrefix
  <2>3. ArgumentInv'
    BY <2>1, <2>2 DEF ArgumentInv, ArgumentTypes, ArgumentsSeen, Behind, Arguments!KeptIsCurrent
  <2> QED
    BY <1>1, <2>2, <2>3
<1>3. ASSUME NEW n \in Options, Arguments!Read(n) PROVE ArgumentInv' /\ ArgumentMoves
  BY <1>1, <1>3, ArgumentRead
<1>4. ASSUME NEW n \in Options, NEW v \in Values, Arguments!SetCommandLine(n, v)
      PROVE  ArgumentInv' /\ ArgumentMoves
  <2>1. S \subseteq {n}
    BY <1>4, ArgumentPlaced
  <2> HIDE DEF S
  <2>2. Arguments!Cardinality(S) <= 1
    BY <2>1, AtMostOne, SameCount
  <2> QED
    BY <1>4, <2>2, ArgumentSet DEF ArgumentMoves, Arguments!Changed, S
<1> QED
  BY <1>2, <1>3, <1>4 DEF Arguments!Next
LEMMA ArgumentsHold == ASSUME ArgumentInv PROVE Arguments!TypeOK /\ Arguments!KeptIsCurrent
<1>1. \A i \in DOMAIN options : options[i] \in Option
  BY DEF ArgumentInv, ArgumentTypes
<1>2. \A i \in DOMAIN options : options[i].value \in Values
  BY <1>1 DEF Option
<1>3. generation \in 1 .. Generations - 1 /\ sets \in 0 .. MaxSets
  BY DEF ArgumentInv, ArgumentTypes
<1>4. seen \in [Options -> 0 .. Generations - 1] /\ kept \in [Options -> Values \cup {None}]
  BY DEF ArgumentInv, ArgumentTypes
<1> QED
  BY <1>2, <1>3, <1>4 DEF ArgumentInv, Arguments!TypeOK, Generations
-----------------------------------------------------------------------------
(* Files.                                                                  *)

Within == Seq(Either)

\* What is chosen for a name in a folder, of given folders, entries and order.
Choice(D, E, o, p, n) ==
  LET M == {m \in {n, Upper[n]} : (p = <<>> \/ p \in D) /\ Append(p, m) \in E}
  IN IF Upper[n] \in M /\ (o => n \notin M) THEN Upper[n] ELSE n

\* The walk along a path is the function its recursion describes.
Walks(D, E, o, path, N, f) ==
  f = [i \in 0 .. N |-> IF i = 0 THEN <<>>
         ELSE Append(f[i - 1], Choice(D, E, o, f[i - 1], path[i]))]

LEMMA WalkDefined ==
  ASSUME NEW D, NEW E, NEW o, NEW path, NEW N \in Nat
  PROVE  \E f : Walks(D, E, o, path, N, f)
<1> DEFINE Fits(f, k) == f = [i \in 0 .. k |-> IF i = 0 THEN <<>>
                               ELSE Append(f[i - 1], Choice(D, E, o, f[i - 1], path[i]))]
           Wrong == {k \in Nat : ~ \E f : Fits(f, k)}
<1>1. \E f : Fits(f, 0)
  <2> DEFINE g == [i \in 0 .. 0 |-> <<>>]
  <2>1. \A i \in 0 .. 0 : i = 0
    OBVIOUS
  <2>2. Fits(g, 0)
    BY <2>1
  <2> QED
    BY <2>2
<1>2. ASSUME NEW k \in Nat, NEW f, Fits(f, k) PROVE \E g : Fits(g, k + 1)
  <2> DEFINE g == [i \in 0 .. k + 1 |-> IF i <= k THEN f[i]
                     ELSE Append(f[k], Choice(D, E, o, f[k], path[k + 1]))]
             h == [i \in 0 .. k + 1 |-> IF i = 0 THEN <<>>
                     ELSE Append(g[i - 1], Choice(D, E, o, g[i - 1], path[i]))]
  <2>1. ASSUME NEW i \in 0 .. k + 1 PROVE g[i] = h[i]
    <3>1. CASE i = 0
      <4>1. f[0] = <<>>
        BY <1>2
      <4> QED
        BY <3>1, <4>1
    <3>2. CASE i # 0 /\ i <= k
      <4>1. i \in 0 .. k /\ i - 1 \in 0 .. k + 1 /\ i - 1 <= k
        BY <2>1, <3>2
      <4>2. f[i] = Append(f[i - 1], Choice(D, E, o, f[i - 1], path[i]))
        BY <1>2, <3>2, <4>1
      <4>3. g[i] = f[i] /\ g[i - 1] = f[i - 1]
        BY <2>1, <3>2, <4>1
      <4>4. h[i] = Append(g[i - 1], Choice(D, E, o, g[i - 1], path[i]))
        BY <2>1, <3>2
      <4> QED
        BY <4>2, <4>3, <4>4
    <3>3. CASE i = k + 1
      <4>1. i # 0 /\ ~(i <= k) /\ i - 1 = k /\ k \in 0 .. k + 1
        BY <3>3
      <4>2. g[i] = Append(f[k], Choice(D, E, o, f[k], path[k + 1])) /\ g[k] = f[k]
        BY <2>1, <4>1
      <4>3. h[i] = Append(g[i - 1], Choice(D, E, o, g[i - 1], path[i]))
        BY <2>1, <4>1
      <4> QED
        BY <3>3, <4>1, <4>2, <4>3
    <3> QED
      BY <2>1, <3>1, <3>2, <3>3
  <2>2. g = h
    BY <2>1
  <2> QED
    BY <2>2
<1>3. Wrong = {}
  <2> SUFFICES ASSUME Wrong # {} PROVE FALSE
    OBVIOUS
  <2>1. Wrong \subseteq Nat
    OBVIOUS
  <2>2. PICK m \in Wrong : \A n \in Wrong : m <= n
    <3> HIDE DEF Wrong
    <3> QED
      BY <2>1, LeastNumber
  <2>3. m \in Nat /\ ~ \E f : Fits(f, m)
    BY <2>2
  <2>4. m # 0
    BY <1>1, <2>3
  <2>5. m - 1 \in Nat /\ m - 1 \notin Wrong /\ m - 1 + 1 = m
    <3>1. m - 1 \in Nat /\ m - 1 + 1 = m /\ ~(m <= m - 1)
      BY <2>3, <2>4
    <3> HIDE DEF Wrong
    <3> QED
      BY <2>2, <3>1
  <2>6. \E f : Fits(f, m - 1)
    BY <2>5
  <2> HIDE DEF Fits
  <2> QED
    BY <1>2, <2>3, <2>5, <2>6
<1>4. \E f : Fits(f, N)
  BY <1>3
<1> QED
  BY <1>4 DEF Walks

\* The beginnings of a sequence, and of one that is longer by an element.
LEMMA BeginningOf ==
  ASSUME NEW S, NEW s \in Seq(S), NEW j \in 0 .. Len(s)
  PROVE  /\ SubSeq(s, 1, j) \in Seq(S) /\ Len(SubSeq(s, 1, j)) = j
         /\ \A k \in 1 .. j : SubSeq(s, 1, j)[k] = s[k]
OBVIOUS

LEMMA PrefixOfAppend ==
  ASSUME NEW S, NEW s \in Seq(S), NEW x \in S
  PROVE  /\ Append(s, x) \in Seq(S) /\ Len(Append(s, x)) = Len(s) + 1
         /\ SubSeq(Append(s, x), 1, Len(s) + 1) = Append(s, x)
         /\ \A j \in 0 .. Len(s) : SubSeq(Append(s, x), 1, j) = SubSeq(s, 1, j)
<1> DEFINE t == Append(s, x)
<1>1. /\ Len(s) \in Nat /\ t \in Seq(S) /\ Len(t) = Len(s) + 1
      /\ \A k \in 1 .. Len(s) : t[k] = s[k]
  BY AppendProperties, LenProperties
<1> HIDE DEF t
<1>2. ASSUME NEW j \in 0 .. Len(s) PROVE SubSeq(t, 1, j) = SubSeq(s, 1, j)
  <2>1. /\ SubSeq(s, 1, j) \in Seq(S) /\ Len(SubSeq(s, 1, j)) = j
        /\ \A k \in 1 .. j : SubSeq(s, 1, j)[k] = s[k]
    BY BeginningOf
  <2>2. /\ SubSeq(t, 1, j) \in Seq(S) /\ Len(SubSeq(t, 1, j)) = j
        /\ \A k \in 1 .. j : SubSeq(t, 1, j)[k] = t[k]
    <3>1. j \in 0 .. Len(t)
      BY <1>1
    <3> QED
      BY <1>1, <3>1, BeginningOf
  <2>3. \A k \in 1 .. j : t[k] = s[k]
    BY <1>1
  <2> QED
    BY <2>1, <2>2, <2>3, SeqEqual
<1>3. SubSeq(t, 1, Len(s) + 1) = t
  BY <1>1, SubSeqFull
<1> QED
  BY <1>1, <1>2, <1>3 DEF t

\* What was found of a path, up to a depth.
Upto(w, i) == SubSeq(w, 1, i)
Follows(D, E, o, w, path) ==
  /\ w \in Within /\ Len(w) = Len(path)
  /\ \A i \in 1 .. Len(path) :
       Upto(w, i) = Append(Upto(w, i - 1), Choice(D, E, o, Upto(w, i - 1), path[i]))

LEMMA ChoiceType ==
  ASSUME NEW D, NEW E, NEW o, NEW p, NEW n \in Lower
  PROVE  Choice(D, E, o, p, n) \in {n, Upper[n]} /\ Choice(D, E, o, p, n) \in Either
BY DEF Choice, Either

\* A sequence that goes on as those before it did.
LEMMA GoesOnAs ==
  ASSUME NEW f, NEW k \in Nat, NEW x \in Either, f[k] \in Within, Len(f[k]) = k,
         f[k + 1] = Append(f[k], x), \A j \in 0 .. k : Upto(f[k], j) = f[j]
  PROVE  /\ f[k + 1] \in Within /\ Len(f[k + 1]) = k + 1
         /\ \A j \in 0 .. k + 1 : Upto(f[k + 1], j) = f[j]
<1> DEFINE g == f[k]
           h == f[k + 1]
<1>1. g \in Seq(Either) /\ Len(g) = k /\ h = Append(g, x)
  BY DEF Within
<1>2. \A j \in 0 .. k : Upto(g, j) = f[j]
  OBVIOUS
<1> HIDE DEF g, h
<1>3. /\ h \in Seq(Either) /\ Len(h) = k + 1 /\ Upto(h, k + 1) = h
      /\ \A j \in 0 .. k : Upto(h, j) = Upto(g, j)
  BY <1>1, PrefixOfAppend DEF Upto
<1>4. \A j \in 0 .. k + 1 : Upto(h, j) = f[j]
  <2> TAKE j \in 0 .. k + 1
  <2>1. CASE j \in 0 .. k
    BY <1>2, <1>3, <2>1
  <2>2. CASE j = k + 1
    BY <1>3, <2>2 DEF h
  <2> QED
    BY <2>1, <2>2
<1> QED
  BY <1>3, <1>4 DEF h, Within

\* The recursion follows a path.
LEMMA WalkFollows ==
  ASSUME NEW D, NEW E, NEW o, NEW path \in Seq(Lower), NEW f,
         f = [i \in 0 .. Len(path) |-> IF i = 0 THEN <<>>
                ELSE Append(f[i - 1], Choice(D, E, o, f[i - 1], path[i]))]
  PROVE  Follows(D, E, o, f[Len(path)], path)
<1> DEFINE N == Len(path)
<1>1. N \in Nat /\ \A i \in 1 .. N : path[i] \in Lower
  OBVIOUS
<1>2. f[0] = <<>>
  BY <1>1
<1>3. \A i \in 1 .. N : f[i] = Append(f[i - 1], Choice(D, E, o, f[i - 1], path[i]))
  <2> TAKE i \in 1 .. N
  <2>1. i \in 0 .. N /\ i # 0
    BY <1>1
  <2> QED
    BY <2>1
<1> HIDE DEF N
\* f[i] has i names, and begins with those before.
<1> DEFINE Good(i) == /\ f[i] \in Within /\ Len(f[i]) = i
                      /\ \A j \in 0 .. i : Upto(f[i], j) = f[j]
           Bad == {i \in 0 .. N : ~Good(i)}
<1>4. Good(0)
  <2>1. Upto(<<>>, 0) = <<>>
    BY SubSeqEmpty DEF Upto
  <2>2. \A j \in 0 .. 0 : j = 0
    OBVIOUS
  <2> QED
    BY <1>2, <2>1, <2>2, EmptySeq DEF Within
<1>5. ASSUME NEW i \in 1 .. N, Good(i - 1) PROVE Good(i)
  <2>1. Choice(D, E, o, f[i - 1], path[i]) \in Either
    BY <1>1, ChoiceType
  <2>2. PICK k \in Nat : k = i - 1 /\ i = k + 1
    BY <1>1
  <2>3. f[k + 1] = Append(f[k], Choice(D, E, o, f[k], path[i]))
    BY <1>3, <2>2
  <2>4. f[k] \in Within /\ Len(f[k]) = k /\ \A j \in 0 .. k : Upto(f[k], j) = f[j]
    BY <1>5, <2>2
  <2>5. /\ f[k + 1] \in Within /\ Len(f[k + 1]) = k + 1
        /\ \A j \in 0 .. k + 1 : Upto(f[k + 1], j) = f[j]
    BY <2>1, <2>2, <2>3, <2>4, GoesOnAs
  <2> QED
    BY <2>2, <2>5
<1>6. Bad = {}
  <2> SUFFICES ASSUME Bad # {} PROVE FALSE
    OBVIOUS
  <2>1. Bad \subseteq 0 .. N
    OBVIOUS
  <2>2. PICK m \in Bad : \A n \in Bad : m <= n
    <3> HIDE DEF Bad
    <3>1. Bad \subseteq Nat
      BY <1>1, <2>1
    <3> QED
      BY <3>1, LeastNumber
  <2>3. ~Good(m) /\ m \in 0 .. N
    BY <2>2
  <2> HIDE DEF Good
  <2>4. m # 0
    BY <1>4, <2>3
  <2>5. m \in 1 .. N /\ m - 1 \in 0 .. N /\ ~(m <= m - 1)
    BY <1>1, <2>3, <2>4
  <2>6. Good(m - 1)
    BY <2>2, <2>5
  <2> QED
    BY <1>5, <2>3, <2>5, <2>6
<1>7. \A i \in 0 .. N : Good(i)
  BY <1>6
<1>8. N \in 0 .. N /\ Good(N)
  <2> HIDE DEF Good
  <2> QED
    BY <1>1, <1>7
<1>9. ASSUME NEW i \in 1 .. N
      PROVE  Upto(f[N], i) = Append(Upto(f[N], i - 1), Choice(D, E, o, Upto(f[N], i - 1), path[i]))
  <2>1. i \in 0 .. N /\ i - 1 \in 0 .. N
    BY <1>1
  <2>2. Upto(f[N], i) = f[i] /\ Upto(f[N], i - 1) = f[i - 1]
    BY <1>8, <2>1
  <2> QED
    BY <1>3, <2>2
<1> QED
  BY <1>8, <1>9 DEF Follows, N

LEMMA LocalNameFollows ==
  ASSUME NEW path \in Seq(Lower)
  PROVE  Follows(folders, folders \cup entries, order, Disk!LocalName(path), path)
<1> DEFINE W(f) == Walks(folders, folders \cup entries, order, path, Len(path), f)
           walk == CHOOSE f : W(f)
<1>1. Disk!LocalName(path) = walk[Len(path)]
  BY DEF Disk!LocalName, Disk!Found, Disk!Matches, Disk!IsFolder, Disk!Root, Disk!Entries, Choice,
         Walks
<1>2. \E g : W(g)
  <2>1. Len(path) \in Nat
    OBVIOUS
  <2> QED
    BY <2>1, WalkDefined
<1>3. W(walk)
  BY <1>2
<1> HIDE DEF walk
<1>4. Follows(folders, folders \cup entries, order, walk[Len(path)], path)
  BY <1>3, WalkFollows DEF Walks
<1> QED
  BY <1>1, <1>4

LEMMA NextLocalNameFollows ==
  ASSUME NEW path \in Seq(Lower)
  PROVE  Follows(folders', folders' \cup entries', order', Disk!LocalName(path)', path)
<1> DEFINE W(f) == Walks(folders', folders' \cup entries', order', path, Len(path), f)
           walk == CHOOSE f : W(f)
<1>1. Disk!LocalName(path)' = walk[Len(path)]
  BY DEF Disk!LocalName, Disk!Found, Disk!Matches, Disk!IsFolder, Disk!Root, Disk!Entries, Choice,
         Walks
<1>2. \E g : W(g)
  <2>1. Len(path) \in Nat
    OBVIOUS
  <2> QED
    BY <2>1, WalkDefined
<1>3. W(walk)
  BY <1>2
<1> HIDE DEF walk
<1>4. Follows(folders', folders' \cup entries', order', walk[Len(path)], path)
  BY <1>3, WalkFollows DEF Walks
<1> QED
  BY <1>1, <1>4

\* What a path leads to is determined.
LEMMA FollowsOne ==
  ASSUME NEW D, NEW E, NEW o, NEW path \in Seq(Lower), NEW v, NEW w,
         Follows(D, E, o, v, path), Follows(D, E, o, w, path)
  PROVE  v = w
<1> DEFINE N == Len(path)
           Bad == {i \in 0 .. N : Upto(v, i) # Upto(w, i)}
<1>1. N \in Nat /\ v \in Within /\ w \in Within /\ Len(v) = N /\ Len(w) = N
  BY DEF Follows
<1>2. \A i \in 1 .. N :
        /\ Upto(v, i) = Append(Upto(v, i - 1), Choice(D, E, o, Upto(v, i - 1), path[i]))
        /\ Upto(w, i) = Append(Upto(w, i - 1), Choice(D, E, o, Upto(w, i - 1), path[i]))
  BY DEF Follows
<1>3. Upto(v, 0) = Upto(w, 0)
  BY <1>1, SubSeqEmpty DEF Upto, Within
<1> HIDE DEF N
<1>4. Bad = {}
  <2> SUFFICES ASSUME Bad # {} PROVE FALSE
    OBVIOUS
  <2>1. Bad \subseteq Nat
    BY <1>1
  <2>2. PICK m \in Bad : \A n \in Bad : m <= n
    <3> HIDE DEF Bad
    <3> QED
      BY <2>1, LeastNumber
  <2>3. m \in 0 .. N /\ Upto(v, m) # Upto(w, m)
    BY <2>2
  <2>4. m \in 1 .. N /\ m - 1 \in 0 .. N /\ ~(m <= m - 1)
    BY <1>1, <1>3, <2>3
  <2>5. Upto(v, m - 1) = Upto(w, m - 1)
    BY <2>2, <2>4
  <2> QED
    BY <1>2, <2>3, <2>4, <2>5
<1>5. Upto(v, N) = Upto(w, N)
  BY <1>1, <1>4
<1>6. Upto(v, N) = v /\ Upto(w, N) = w
  BY <1>1, SubSeqFull DEF Upto, Within
<1> QED
  BY <1>5, <1>6

LEMMA AppendOne ==
  ASSUME NEW p \in Within, NEW q \in Within, NEW m, NEW n, m \in Either, n \in Either,
         Append(p, m) = Append(q, n)
  PROVE  p = q /\ m = n
<1>1. /\ Len(Append(p, m)) = Len(p) + 1 /\ Len(Append(q, n)) = Len(q) + 1
      /\ \A i \in 1 .. Len(p) : Append(p, m)[i] = p[i]
      /\ \A i \in 1 .. Len(q) : Append(q, n)[i] = q[i]
      /\ Append(p, m)[Len(p) + 1] = m /\ Append(q, n)[Len(q) + 1] = n
  BY AppendProperties DEF Within
<1>2. Len(p) \in Nat /\ Len(q) \in Nat
  BY LenProperties DEF Within
<1>3. Len(p) = Len(q)
  BY <1>1, <1>2
<1>4. \A i \in 1 .. Len(p) : p[i] = q[i]
  BY <1>1, <1>3
<1>5. p = q
  BY <1>3, <1>4, SeqEqual DEF Within
<1> QED
  BY <1>1, <1>3, <1>5

\* What is there is in a folder that is there.
Tree(D, E) ==
  /\ E \subseteq Within \ {<<>>}
  /\ \A p \in E : Len(p) > 1 => Upto(p, Len(p) - 1) \in D

\* Of a tree, the choice without looking for the folder.
ByEntries(E, o, g, n) ==
  IF Append(g, Upper[n]) \in E /\ (o => Append(g, n) \notin E) THEN Upper[n] ELSE n

LEMMA ChoiceOf ==
  ASSUME NEW D, NEW E, NEW o, Tree(D, E), NEW g \in Within, NEW n \in Lower
  PROVE  Choice(D, E, o, g, n) = ByEntries(E, o, g, n)
<1>1. ASSUME NEW x \in Either, Append(g, x) \in E PROVE g = <<>> \/ g \in D
  <2>1. /\ Len(g) \in Nat /\ Len(Append(g, x)) = Len(g) + 1
        /\ Upto(Append(g, x), Len(g)) = Upto(g, Len(g)) /\ Upto(g, Len(g)) = g
    BY PrefixOfAppend, SubSeqFull, LenProperties DEF Upto, Within
  <2>2. CASE Len(g) = 0
    BY <2>2, EmptySeq DEF Within
  <2>3. CASE Len(g) # 0
    <3>1. Len(Append(g, x)) > 1 /\ Len(Append(g, x)) - 1 = Len(g)
      BY <2>1, <2>3
    <3> QED
      BY <1>1, <2>1, <3>1 DEF Tree
  <2> QED
    BY <2>2, <2>3
<1>2. n \in Either /\ Upper[n] \in Either
  BY DEF Either
<1> QED
  BY <1>1, <1>2 DEF Choice, ByEntries

LEMMA UptoUpto ==
  ASSUME NEW w \in Within, NEW i \in 0 .. Len(w)
  PROVE  /\ Upto(w, i) \in Within /\ Len(Upto(w, i)) = i /\ (i > 0 => Upto(w, i) # <<>>)
         /\ \A j \in 0 .. i : Upto(Upto(w, i), j) = Upto(w, j)
<1> DEFINE v == Upto(w, i)
<1>1. Len(w) \in Nat /\ i \in Nat /\ i <= Len(w)
  BY LenProperties DEF Within
<1>2. v \in Within /\ Len(v) = i /\ \A k \in 1 .. i : v[k] = w[k]
  BY BeginningOf DEF Upto, Within
<1> HIDE DEF v
<1>3. i > 0 => v # <<>>
  BY <1>1, <1>2, EmptySeq
<1>4. ASSUME NEW j \in 0 .. i PROVE Upto(v, j) = Upto(w, j)
  <2>1. /\ Upto(v, j) \in Within /\ Len(Upto(v, j)) = j
        /\ \A k \in 1 .. j : Upto(v, j)[k] = v[k]
    BY <1>2, BeginningOf DEF Upto, Within
  <2>2. /\ Upto(w, j) \in Within /\ Len(Upto(w, j)) = j
        /\ \A k \in 1 .. j : Upto(w, j)[k] = w[k]
    <3>1. j \in 0 .. Len(w)
      BY <1>1
    <3> QED
      BY <3>1, BeginningOf DEF Upto, Within
  <2>3. \A k \in 1 .. j : v[k] = w[k]
    BY <1>1, <1>2
  <2> QED
    BY <2>1, <2>2, <2>3, SeqEqual DEF Within
<1> QED
  BY <1>2, <1>3, <1>4 DEF v

\* The steps of the walk along a path: nothing is there that fits a name which
\* leads to what is not there.
LEMMA PartsOfPath ==
  ASSUME NEW path \in Seq(Lower), NEW w, NEW D, NEW E, NEW o, Follows(D, E, o, w, path),
         NEW i \in 1 .. Len(w)
  PROVE  /\ w \in Within /\ Len(w) = Len(path) /\ i \in 1 .. Len(path)
         /\ Upto(w, i - 1) \in Within /\ path[i] \in Lower
<1>1. w \in Within /\ Len(w) = Len(path) /\ Len(path) \in Nat /\ path[i] \in Lower
  BY DEF Follows
<1>2. i - 1 \in 0 .. Len(w)
  BY <1>1
<1> QED
  BY <1>1, <1>2, UptoUpto

LEMMA LowerEither ==
  ASSUME NEW n \in Lower
  PROVE  n \in Either /\ Upper[n] \in Either
BY DEF Either

Reached(D, E, o, p) ==
  \E h \in Within, m \in Lower :
    /\ p = Append(h, Choice(D, E, o, h, m))
    /\ p \notin E => p = Append(h, m) /\ Append(h, Upper[m]) \notin E

LEMMA StepsOfPath ==
  ASSUME NEW D, NEW E, NEW o, Tree(D, E), NEW path \in Seq(Lower), NEW w,
         Follows(D, E, o, w, path), NEW i \in 1 .. Len(w)
  PROVE  Reached(D, E, o, Upto(w, i))
<1>1. PICK h \in Within, m \in Lower : h = Upto(w, i - 1) /\ m = path[i]
  BY PartsOfPath
<1>2. Upto(w, i) = Append(h, Choice(D, E, o, h, m))
  <2>1. i \in 1 .. Len(path)
    BY PartsOfPath
  <2> QED
    BY <1>1, <2>1 DEF Follows
<1>3. Choice(D, E, o, h, m) = ByEntries(E, o, h, m)
  BY ChoiceOf
<1>4. Upto(w, i) \notin E => Upto(w, i) = Append(h, m) /\ Append(h, Upper[m]) \notin E
  BY <1>2, <1>3 DEF ByEntries
<1> QED
  BY <1>2, <1>4 DEF Reached

\* What is made along a path leaves what is found of any other.
Along(X, w) == \A q \in X : \E i \in 1 .. Len(w) : q = Upto(w, i)

LEMMA NewAlong ==
  ASSUME NEW D, NEW E, NEW o, Tree(D, E), NEW path \in Seq(Lower), NEW w,
         Follows(D, E, o, w, path), NEW E2, Along(E2 \ E, w),
         NEW g \in Within, NEW x \in Either, Append(g, x) \in E2, Append(g, x) \notin E
  PROVE  x \in Lower /\ Append(g, Upper[x]) \notin E
<1>1. PICK i \in 1 .. Len(w) : Append(g, x) = Upto(w, i)
  BY DEF Along
<1>2. Reached(D, E, o, Upto(w, i))
  BY StepsOfPath
<1>3. PICK h \in Within, m \in Lower : Append(g, x) = Append(h, m) /\ Append(h, Upper[m]) \notin E
  BY <1>1, <1>2 DEF Reached
<1>4. m \in Either
  BY LowerEither
<1>5. g = h /\ x = m
  BY <1>3, <1>4, AppendOne
<1> QED
  BY <1>3, <1>5

LEMMA MadeKeeps ==
  ASSUME NEW D, NEW E, NEW o, Tree(D, E), NEW D2, NEW E2, Tree(D2, E2),
         NEW path \in Seq(Lower), NEW w, Follows(D, E, o, w, path),
         E \subseteq E2, Along(E2 \ E, w),
         NEW g \in Within, NEW n \in Lower
  PROVE  Choice(D2, E2, o, g, n) = Choice(D, E, o, g, n)
<1>1. n \in Either /\ Upper[n] \in Either /\ Upper[n] \notin Lower
  BY FilesAssumption, LowerEither
<1>2. Append(g, Upper[n]) \in E2 => Append(g, Upper[n]) \in E
  BY <1>1, NewAlong
<1>3. Append(g, n) \in E2 /\ Append(g, n) \notin E => Append(g, Upper[n]) \notin E
  BY <1>1, NewAlong
<1>4. /\ Choice(D, E, o, g, n) = ByEntries(E, o, g, n)
      /\ Choice(D2, E2, o, g, n) = ByEntries(E2, o, g, n)
  BY ChoiceOf
<1>5. Append(g, Upper[n]) \in E => Append(g, Upper[n]) \in E2
  OBVIOUS
<1>6. Append(g, n) \in E => Append(g, n) \in E2
  OBVIOUS
<1>7. ByEntries(E2, o, g, n) = ByEntries(E, o, g, n)
  BY <1>2, <1>3, <1>5, <1>6 DEF ByEntries
<1> QED
  BY <1>4, <1>7

LEMMA MadeFollows ==
  ASSUME NEW D, NEW E, NEW o, Tree(D, E), NEW D2, NEW E2, Tree(D2, E2),
         NEW path \in Seq(Lower), NEW w, Follows(D, E, o, w, path),
         E \subseteq E2, Along(E2 \ E, w),
         NEW other \in Seq(Lower), NEW v, Follows(D, E, o, v, other)
  PROVE  Follows(D2, E2, o, v, other)
<1>1. v \in Within /\ Len(v) = Len(other)
  BY DEF Follows
<1>2. ASSUME NEW i \in 1 .. Len(other)
      PROVE  Upto(v, i) = Append(Upto(v, i - 1), Choice(D2, E2, o, Upto(v, i - 1), other[i]))
  <2>1. PICK g \in Within, n \in Lower : g = Upto(v, i - 1) /\ n = other[i]
    BY <1>1, PartsOfPath
  <2>2. Upto(v, i) = Append(g, Choice(D, E, o, g, n))
    BY <2>1 DEF Follows
  <2>3. Choice(D2, E2, o, g, n) = Choice(D, E, o, g, n)
    BY MadeKeeps
  <2> QED
    BY <2>1, <2>2, <2>3
<1> QED
  BY <1>1, <1>2 DEF Follows

\* What is removed at the end of a path leaves what is found of one that does
\* not pass it.
Without(E, E2, w) == E2 = E \ {w}
Elsewhere(D, E, o, g, n, w) == Append(g, Choice(D, E, o, g, n)) # w

LEMMA RemovedKeeps ==
  ASSUME NEW D, NEW E, NEW o, Tree(D, E), NEW D2, NEW E2, Tree(D2, E2),
         NEW w, Reached(D, E, o, w), Without(E, E2, w),
         NEW g \in Within, NEW n \in Lower, Elsewhere(D, E, o, g, n, w)
  PROVE  Choice(D2, E2, o, g, n) = Choice(D, E, o, g, n)
<1>0. PICK h \in Within, m \in Lower : w = Append(h, Choice(D, E, o, h, m))
  BY DEF Reached
<1> DEFINE c == Choice(D, E, o, h, m)
<1>1. c \in {m, Upper[m]} /\ c \in Either /\ n \in Either /\ Upper[n] \in Either
  BY ChoiceType, LowerEither
<1>2. g # h \/ n # m
  BY <1>0 DEF Elsewhere
<1>3. w = Append(h, c)
  BY <1>0
<1> HIDE DEF c
<1>4. ASSUME NEW x \in {n, Upper[n]}, Append(g, x) = w PROVE FALSE
  <2>1. x \in Either
    BY <1>1
  <2>2. g = h /\ x = c
    BY <1>0, <1>1, <1>3, <1>4, <2>1, AppendOne
  <2>3. n = m
    BY <1>1, <2>2, FilesAssumption
  <2> QED
    BY <1>2, <2>2, <2>3
<1>5. /\ Append(g, n) \in E2 <=> Append(g, n) \in E
      /\ Append(g, Upper[n]) \in E2 <=> Append(g, Upper[n]) \in E
  BY <1>4 DEF Without
<1>6. Choice(D, E, o, g, n) = ByEntries(E, o, g, n)
  BY ChoiceOf
<1>7. Choice(D2, E2, o, g, n) = ByEntries(E2, o, g, n)
  BY ChoiceOf
<1>8. ByEntries(E2, o, g, n) = ByEntries(E, o, g, n)
  BY <1>5 DEF ByEntries
<1> QED
  BY <1>6, <1>7, <1>8

LEMMA RemovedFollows ==
  ASSUME NEW D, NEW E, NEW o, Tree(D, E), NEW D2, NEW E2, Tree(D2, E2),
         NEW path \in Seq(Lower), NEW w, Follows(D, E, o, w, path), Without(E, E2, w), w # <<>>,
         NEW other \in Seq(Lower), NEW v, Follows(D, E, o, v, other),
         \A i \in 1 .. Len(v) : Upto(v, i) # w
  PROVE  Follows(D2, E2, o, v, other)
<1>1. v \in Within /\ Len(v) = Len(other) /\ w \in Within /\ Len(w) \in Nat
  BY DEF Follows, Within
<1>2. Len(w) \in 1 .. Len(w) /\ Upto(w, Len(w)) = w
  BY <1>1, EmptySeq, SubSeqFull DEF Within, Upto
<1>3. Reached(D, E, o, Upto(w, Len(w)))
  BY <1>2, StepsOfPath
<1>4. Reached(D, E, o, w)
  BY <1>2, <1>3
<1>5. ASSUME NEW i \in 1 .. Len(other)
      PROVE  Upto(v, i) = Append(Upto(v, i - 1), Choice(D2, E2, o, Upto(v, i - 1), other[i]))
  <2>1. PICK g \in Within, n \in Lower : g = Upto(v, i - 1) /\ n = other[i]
    BY <1>1, PartsOfPath
  <2>2. Upto(v, i) = Append(g, Choice(D, E, o, g, n)) /\ Upto(v, i) # w
    BY <1>1, <2>1 DEF Follows
  <2>4. Elsewhere(D, E, o, g, n, w)
    BY <2>2 DEF Elsewhere
  <2>5. Choice(D2, E2, o, g, n) = Choice(D, E, o, g, n)
    BY <1>4, <2>4, RemovedKeeps
  <2> QED
    BY <2>1, <2>2, <2>5
<1> QED
  BY <1>1, <1>5 DEF Follows

\* What is made has no other of its name beside it, in the other case.
DiskMoves ==
  \A p \in (folders' \cup entries') \ Disk!Entries, q \in Disk!Entries :
    Disk!Front(p) = Disk!Front(q) => Disk!Last(q) # Upper[Disk!Last(p)]
DiskInv ==
  /\ Tree(folders, folders \cup entries) /\ folders \cap entries = {}
  /\ order \in BOOLEAN /\ DOMAIN written \subseteq Paths /\ refused \in Paths \cup {<<>>}
  /\ Disk!FoundAgain /\ Disk!RefusedForCause

LEMMA FrontAndLast ==
  ASSUME NEW p \in Within, p # <<>>
  PROVE  /\ Disk!Front(p) \in Within /\ Disk!Last(p) \in Either
         /\ p = Append(Disk!Front(p), Disk!Last(p))
<1>1. Len(p) \in Nat \ {0} /\ \A i \in 1 .. Len(p) : p[i] \in Either
  BY EmptySeq, LenProperties, ElementOfSeq DEF Within
<1> DEFINE f == SubSeq(p, 1, Len(p) - 1)
           l == p[Len(p)]
<1>2. Disk!Front(p) = f /\ Disk!Last(p) = l
  BY DEF Disk!Front, Disk!Last
<1>3. Len(p) - 1 \in 0 .. Len(p) /\ Len(p) \in 1 .. Len(p)
  BY <1>1
<1>4. f \in Within /\ Len(f) = Len(p) - 1 /\ \A k \in 1 .. Len(p) - 1 : f[k] = p[k]
  BY <1>3, BeginningOf DEF Within
<1>5. l \in Either
  BY <1>1, <1>3
<1> HIDE DEF f
<1>6. Append(f, l) \in Within /\ Len(Append(f, l)) = Len(p)
  BY <1>1, <1>4, <1>5, AppendProperties DEF Within
<1>7. ASSUME NEW k \in 1 .. Len(p) PROVE Append(f, l)[k] = p[k]
  <2>1. CASE k = Len(p)
    BY <1>1, <1>4, <1>5, <2>1, AppendProperties DEF Within
  <2>2. CASE k # Len(p)
    <3>1. k \in 1 .. Len(p) - 1
      BY <1>1, <2>2
    <3>2. Append(f, l)[k] = f[k]
      BY <1>1, <1>4, <1>5, <3>1, AppendProperties DEF Within
    <3> QED
      BY <1>4, <3>1, <3>2
  <2> QED
    BY <2>1, <2>2
<1>8. p = Append(f, l)
  <2> HIDE DEF l
  <2> QED
    BY <1>6, <1>7, SeqEqual DEF Within
<1> QED
  BY <1>2, <1>4, <1>5, <1>8

\* The folders a path goes through.
LEMMA ParentsOf ==
  ASSUME NEW w \in Within, NEW i \in 1 .. Len(w)
  PROVE  /\ \A r \in Disk!Parents(Upto(w, i)) : \E j \in 1 .. i - 1 : r = Upto(w, j)
         /\ \A j \in 1 .. i - 1 : Upto(w, j) \in Disk!Parents(Upto(w, i))
         /\ Disk!Parents(Upto(w, i)) \subseteq Disk!Parents(w)
<1>1. Len(w) \in Nat /\ i \in 0 .. Len(w) /\ i \in Nat
  BY LenProperties DEF Within
<1>2. Len(Upto(w, i)) = i /\ \A j \in 0 .. i : Upto(Upto(w, i), j) = Upto(w, j)
  BY <1>1, UptoUpto
<1>3. Disk!Parents(Upto(w, i)) = {Upto(Upto(w, i), j) : j \in 1 .. i - 1}
  BY <1>2 DEF Disk!Parents, Upto
<1>4. Disk!Parents(w) = {Upto(w, j) : j \in 1 .. Len(w) - 1}
  BY DEF Disk!Parents, Upto
<1>5. \A j \in 1 .. i - 1 : j \in 0 .. i /\ j \in 1 .. Len(w) - 1
  BY <1>1
<1>6. \A j \in 1 .. i - 1 : Upto(Upto(w, i), j) = Upto(w, j)
  BY <1>2, <1>5
<1> QED
  BY <1>3, <1>4, <1>5, <1>6

LEMMA NameStays ==
  ASSUME NEW q \in Seq(Lower),
         Follows(folders', folders' \cup entries', order', Disk!LocalName(q), q)
  PROVE  Disk!LocalName(q)' = Disk!LocalName(q)
BY NextLocalNameFollows, FollowsOne

LEMMA NameOf ==
  ASSUME NEW path \in Paths
  PROVE  /\ path \in Seq(Lower) /\ Disk!LocalName(path) \in Within
         /\ Len(Disk!LocalName(path)) \in Nat \ {0} /\ Disk!LocalName(path) # <<>>
         /\ Follows(folders, folders \cup entries, order, Disk!LocalName(path), path)
<1>1. path \in Seq(Lower) /\ path # <<>>
  BY FilesAssumption
<1>2. Len(path) \in Nat \ {0}
  BY <1>1, EmptySeq
<1>3. Follows(folders, folders \cup entries, order, Disk!LocalName(path), path)
  BY <1>1, LocalNameFollows
<1>4. Disk!LocalName(path) \in Within /\ Len(Disk!LocalName(path)) = Len(path)
  BY <1>3 DEF Follows
<1>5. Disk!LocalName(path) # <<>>
  BY <1>2, <1>4, EmptySeq
<1> QED
  BY <1>1, <1>2, <1>3, <1>4, <1>5

LEMMA DiskStart == Disk!Init => DiskInv
<1> SUFFICES ASSUME Disk!Init PROVE DiskInv
  OBVIOUS
<1>1. PICK t \in Trees : folders = t.folders /\ entries = t.files
  BY DEF Disk!Init
<1>2. Tree(folders, folders \cup entries) /\ folders \cap entries = {}
  BY <1>1, FilesAssumption DEF Tree, Within, Upto
<1>3. order \in BOOLEAN /\ written = <<>> /\ refused = <<>>
  BY DEF Disk!Init
<1>4. DOMAIN written = {}
  BY <1>3
<1>5. Disk!FoundAgain /\ Disk!RefusedForCause
  BY <1>3, <1>4 DEF Disk!FoundAgain, Disk!RefusedForCause
<1> QED
  BY <1>2, <1>3, <1>4, <1>5 DEF DiskInv

\* Opening a file makes what is along its path, and no more.
LEMMA OpenMakes ==
  ASSUME DiskInv, NEW path \in Paths, Disk!OpenForWrite(path), NEW w, w = Disk!LocalName(path)
  PROVE  /\ folders \cup entries \subseteq folders' \cup entries'
         /\ Along((folders' \cup entries') \ (folders \cup entries), w)
         /\ Tree(folders', folders' \cup entries') /\ folders' \cap entries' = {}
<1> DEFINE E == folders \cup entries
           P == Disk!Parents(w)
           Opens == entries' # entries
<1>1. /\ w \in Within /\ Len(w) \in Nat \ {0} /\ w = Upto(w, Len(w)) /\ Len(w) \in 1 .. Len(w)
      /\ w # <<>>
  <2>1. w \in Within /\ Len(w) \in Nat \ {0} /\ w # <<>>
    BY NameOf
  <2> QED
    BY <2>1, SubSeqFull DEF Upto, Within
<1>2. Tree(folders, E) /\ folders \cap entries = {}
  BY DEF DiskInv
<1>3. \/ folders' = folders
      \/ folders' = folders \cup Disk!Made(w)
  BY DEF Disk!OpenForWrite, Disk!OpenName
<1>4. \/ entries' = entries
      \/ entries' = entries \cup {w} /\ w \notin folders' /\ \A q \in P : q \in folders'
  BY DEF Disk!OpenForWrite, Disk!OpenName
<1>5. Disk!Made(w) = {q \in P : q \notin E /\ \A r \in Disk!Parents(q) : r \notin entries}
  BY DEF Disk!Made, Disk!Entries
<1>6. \A q \in P : \E j \in 1 .. Len(w) - 1 : q = Upto(w, j)
  <2>1. P = {Upto(w, j) : j \in 1 .. Len(w) - 1}
    BY DEF Disk!Parents, Upto
  <2> QED
    BY <2>1
<1>7. \A j \in 1 .. Len(w) - 1 : j \in 1 .. Len(w) /\ j \in 0 .. Len(w)
  BY <1>1
<1> HIDE DEF E, P
<1>8. folders \subseteq folders' /\ entries \subseteq entries'
  BY <1>3, <1>4
<1>9. ASSUME NEW q \in folders' \cup entries', q \notin E
      PROVE  \/ q = w /\ q \in entries' /\ \A r \in P : r \in folders'
             \/ /\ q \in Disk!Made(w) /\ q \in folders' /\ q \in P
                /\ folders' = folders \cup Disk!Made(w)
  BY <1>3, <1>4, <1>5, <1>9 DEF E
<1>10. Along((folders' \cup entries') \ E, w)
  <2>1. ASSUME NEW q \in (folders' \cup entries') \ E PROVE \E i \in 1 .. Len(w) : q = Upto(w, i)
    <3>1. q = w \/ q \in P
      BY <1>9
    <3> QED
      BY <1>1, <1>6, <1>7, <3>1
  <2> QED
    BY <2>1 DEF Along
<1>11. folders' \cup entries' \subseteq Within \ {<<>>}
  <2> SUFFICES ASSUME NEW q \in folders' \cup entries' PROVE q \in Within \ {<<>>}
    OBVIOUS
  <2>1. CASE q \in E
    BY <1>2, <2>1 DEF Tree
  <2>2. CASE q \notin E
    <3>1. PICK i \in 1 .. Len(w) : q = Upto(w, i)
      BY <1>10, <2>2 DEF Along
    <3>2. i \in 0 .. Len(w) /\ i > 0
      BY <1>1
    <3> QED
      BY <1>1, <3>1, <3>2, UptoUpto
  <2> QED
    BY <2>1, <2>2
<1>12. ASSUME NEW q \in folders' \cup entries', Len(q) > 1 PROVE Upto(q, Len(q) - 1) \in folders'
  <2>1. CASE q \in E
    BY <1>2, <1>8, <1>12, <2>1 DEF Tree
  <2>2. CASE q \notin E /\ q = w /\ \A r \in P : r \in folders'
    <3>1. Len(w) - 1 \in 1 .. Len(w) - 1
      BY <1>1, <1>12, <2>2
    <3>2. Upto(w, Len(w) - 1) \in P
      BY <3>1 DEF P, Disk!Parents, Upto
    <3> QED
      BY <2>2, <3>2
  <2>3. CASE /\ q \notin E /\ q \in Disk!Made(w) /\ q \in P
             /\ folders' = folders \cup Disk!Made(w)
    <3>1. PICK i \in 1 .. Len(w) - 1 : q = Upto(w, i)
      BY <1>6, <2>3
    <3>2. Len(q) = i /\ Upto(q, i - 1) = Upto(w, i - 1)
      <4>1. i \in 0 .. Len(w) /\ i - 1 \in 0 .. i
        BY <1>1
      <4> QED
        BY <1>1, <3>1, <4>1, UptoUpto
    <3> DEFINE r == Upto(w, i - 1)
               j == i - 1
    <3>3. i - 1 \in 1 .. i - 1 /\ i \in 1 .. Len(w) /\ i - 1 \in 1 .. Len(w) - 1
          /\ j \in 1 .. Len(w)
      BY <1>1, <1>12, <3>2
    <3>4. r \in Disk!Parents(q)
      BY <1>1, <3>1, <3>3, ParentsOf
    <3>5. r \in P
      BY <3>3 DEF P, Disk!Parents, Upto
    <3>6. \A s \in Disk!Parents(r) : s \in Disk!Parents(q)
      <4>1. \A s \in Disk!Parents(Upto(w, j)) : \E k \in 1 .. j - 1 : s = Upto(w, k)
        BY <1>1, <3>3, ParentsOf
      <4>2. \A k \in 1 .. j - 1 : k \in 1 .. i - 1
        BY <3>3
      <4>3. \A k \in 1 .. i - 1 : Upto(w, k) \in Disk!Parents(q)
        BY <1>1, <3>1, <3>3, ParentsOf
      <4> QED
        BY <4>1, <4>2, <4>3
    <3> HIDE DEF r
    <3>7. \A s \in Disk!Parents(q) : s \notin entries
      BY <1>5, <2>3
    <3>8. r \in folders \/ r \in Disk!Made(w)
      BY <1>5, <3>4, <3>5, <3>6, <3>7 DEF E
    <3> QED
      BY <2>3, <3>2, <3>8 DEF r
  <2> QED
    BY <1>9, <2>1, <2>2, <2>3
<1>13. folders' \cap entries' = {}
  <2>1. Disk!Made(w) \cap entries = {}
    BY <1>5 DEF E
  <2>2. folders' \cap entries = {}
    BY <1>2, <1>3, <2>1
  <2> QED
    BY <1>4, <2>2
<1> QED
  BY <1>8, <1>10, <1>11, <1>12, <1>13 DEF Tree, E

LEMMA OpenKeeps ==
  ASSUME DiskInv, NEW path \in Paths, Disk!OpenForWrite(path)
  PROVE  DiskInv' /\ DiskMoves
<1> DEFINE w == Disk!LocalName(path)
           E == folders \cup entries
           F == folders' \cup entries'
<1>1. /\ E \subseteq F /\ Along(F \ E, w)
      /\ Tree(folders', F) /\ folders' \cap entries' = {}
  BY OpenMakes
<1>2. Tree(folders, E) /\ order' = order /\ order \in BOOLEAN
  BY DEF DiskInv, Disk!OpenForWrite
<1>3. ASSUME NEW q \in Paths PROVE Disk!LocalName(q)' = Disk!LocalName(q)
  <2>1. /\ path \in Seq(Lower) /\ q \in Seq(Lower)
        /\ Follows(folders, E, order, w, path)
        /\ Follows(folders, E, order, Disk!LocalName(q), q)
    BY NameOf
  <2> HIDE DEF w, E, F
  <2>2. Follows(folders', F, order, Disk!LocalName(q), q)
    BY <1>1, <1>2, <2>1, MadeFollows
  <2>3. Follows(folders', folders' \cup entries', order', Disk!LocalName(q), q)
    BY <1>2, <2>2 DEF F
  <2> QED
    BY <2>1, <2>3, NameStays
<1>4. entries \subseteq entries'
  BY DEF Disk!OpenForWrite
<1>5. /\ \/ refused' = <<>>
         \/ refused' = path
      /\ \/ written' = written
         \/ /\ w \in entries'
            /\ written' = [q \in DOMAIN written \cup {path} |-> IF q = path THEN w ELSE written[q]]
  BY DEF Disk!OpenForWrite, Disk!OpenName
<1>6. DOMAIN written' \subseteq Paths /\ refused' \in Paths \cup {<<>>}
  BY <1>5 DEF DiskInv
<1>7. Disk!FoundAgain'
  <2>1. \A q \in DOMAIN written : q \in Paths /\ written[q] \in entries /\ Disk!LocalName(q) = written[q]
    BY DEF DiskInv, Disk!FoundAgain
  <2> SUFFICES ASSUME NEW q \in DOMAIN written'
               PROVE  written'[q] \in entries' /\ Disk!LocalName(q)' = written'[q]
    BY DEF Disk!FoundAgain
  <2>2. q \in Paths /\ Disk!LocalName(q)' = Disk!LocalName(q)
    BY <1>3, <1>6
  <2> HIDE DEF w
  <2>3. \/ q \in DOMAIN written /\ written'[q] = written[q]
        \/ q = path /\ written'[q] = w /\ w \in entries'
    BY <1>5
  <2> QED
    BY <1>4, <2>1, <2>2, <2>3 DEF w
<1>8. Disk!RefusedForCause'
  <2> SUFFICES ASSUME refused' # <<>>
               PROVE  \/ Disk!LocalName(refused)' \in folders'
                      \/ \E q \in Disk!Parents(Disk!LocalName(refused)') : q \in entries'
    BY DEF Disk!RefusedForCause, Disk!Parents
  <2>1. refused' = path
    BY <1>5
  <2>2. Disk!LocalName(refused)' = w
    <3>1. Disk!LocalName(refused)' = Disk!LocalName(path)'
      BY <2>1 DEF Disk!LocalName, Disk!Found, Disk!Matches, Disk!IsFolder, Disk!Root, Disk!Entries
    <3> QED
      BY <1>3, <3>1
  <2>3. path # <<>>
    BY FilesAssumption
  <2>4. entries' = entries
    BY <2>1, <2>3 DEF Disk!OpenForWrite
  <2>5. w \in folders' \/ \E q \in Disk!Parents(w) : q \notin folders'
    BY <2>1, <2>3 DEF Disk!OpenForWrite, Disk!OpenName
  <2>6. ASSUME NEW q \in Disk!Parents(w), q \notin folders'
        PROVE  \E r \in Disk!Parents(w) : r \in entries
    <3>1. folders' = folders \cup Disk!Made(w)
      <4>1. \/ \A r \in Disk!Parents(w) : r \in folders'
            \/ folders' = folders \cup Disk!Made(w)
        BY DEF Disk!OpenForWrite, Disk!OpenName
      <4> QED
        BY <2>6, <4>1
    <3>2. q \in entries \/ \E r \in Disk!Parents(q) : r \in entries
      BY <2>6, <3>1 DEF Disk!Made, Disk!Entries
    <3>3. Disk!Parents(q) \subseteq Disk!Parents(w)
      <4>1. w \in Within /\ Len(w) \in Nat
        BY NameOf
      <4>2. PICK j \in 1 .. Len(w) - 1 : q = Upto(w, j)
        BY <2>6 DEF Disk!Parents, Upto
      <4>3. j \in 1 .. Len(w)
        BY <4>1
      <4> HIDE DEF w
      <4> QED
        BY <4>1, <4>2, <4>3, ParentsOf
    <3> QED
      BY <2>6, <3>2, <3>3
  <2>7. w \in folders' \/ \E q \in Disk!Parents(w) : q \in entries
    <3> HIDE DEF w
    <3> QED
      BY <2>5, <2>6
  <2>8. Disk!Parents(Disk!LocalName(refused)') = Disk!Parents(w)
    BY <2>2
  <2> QED
    BY <2>2, <2>4, <2>7, <2>8
<1>9. DiskMoves
  <2> SUFFICES ASSUME NEW p \in F \ E, NEW q \in E, Disk!Front(p) = Disk!Front(q),
                      Disk!Last(q) = Upper[Disk!Last(p)]
               PROVE  FALSE
    BY DEF DiskMoves, Disk!Entries
  <2>1. PICK i \in 1 .. Len(w) : p = Upto(w, i)
    BY <1>1 DEF Along
  <2>2. Follows(folders, E, order, w, path) /\ path \in Seq(Lower)
    BY NameOf
  <2>3. Reached(folders, E, order, p)
    <3> HIDE DEF w, E, F
    <3> QED
      BY <1>2, <2>1, <2>2, StepsOfPath
  <2>4. PICK h \in Within, m \in Lower : p = Append(h, m) /\ Append(h, Upper[m]) \notin E
    BY <2>3 DEF Reached
  <2>5. q \in Within \ {<<>>} /\ p \in Within \ {<<>>}
    BY <1>1, <1>2 DEF Tree
  <2>6. q = Append(Disk!Front(q), Disk!Last(q))
    BY <2>5, FrontAndLast
  <2>7. /\ p = Append(Disk!Front(p), Disk!Last(p))
        /\ Disk!Front(p) \in Within /\ Disk!Last(p) \in Either /\ m \in Either
    BY <2>5, FrontAndLast, LowerEither
  <2>8. Disk!Front(p) = h /\ Disk!Last(p) = m
    BY <2>4, <2>7, AppendOne
  <2> QED
    BY <2>4, <2>6, <2>8
<1> QED
  BY <1>1, <1>2, <1>6, <1>7, <1>8, <1>9 DEF DiskInv

\* What was written and is not at the path of what is removed is found as before.
LEMMA RemovalKeeps ==
  ASSUME DiskInv, NEW path \in Paths, NEW w, w = Disk!LocalName(path), order' = order,
         Without(folders \cup entries, folders' \cup entries', w),
         Tree(folders', folders' \cup entries'),
         NEW q \in Paths, \A i \in 1 .. Len(Disk!LocalName(q)) : Upto(Disk!LocalName(q), i) # w
  PROVE  Disk!LocalName(q)' = Disk!LocalName(q)
<1> DEFINE E == folders \cup entries
           F == folders' \cup entries'
           v == Disk!LocalName(q)
<1>1. /\ path \in Seq(Lower) /\ q \in Seq(Lower) /\ w # <<>>
      /\ Follows(folders, E, order, w, path)
      /\ Follows(folders, E, order, v, q)
  BY NameOf
<1>2. Tree(folders, E) /\ Tree(folders', F) /\ Without(E, F, w)
  BY DEF DiskInv
<1>3. \A i \in 1 .. Len(v) : Upto(v, i) # w
  OBVIOUS
<1>4. Follows(folders', F, order, v, q)
  <2> HIDE DEF E, F, v
  <2> QED
    BY <1>1, <1>2, <1>3, RemovedFollows
<1> QED
  BY <1>1, <1>4, NameStays

\* What is there is reached through folders.
LEMMA PassedFolders ==
  ASSUME NEW D, NEW E, D \subseteq E, Tree(D, E), NEW v \in E, NEW i \in 1 .. Len(v) - 1
  PROVE  Upto(v, i) \in D
<1>1. v \in Within /\ Len(v) \in Nat
  BY DEF Tree, Within
<1> DEFINE N == Len(v)
           Bad == {k \in 1 .. N - 1 : Upto(v, N - k) \notin D}
<1>2. \A k \in 0 .. N : Len(Upto(v, k)) = k
  BY <1>1, UptoUpto
<1>3. \A k \in 1 .. N : Upto(Upto(v, k), k - 1) = Upto(v, k - 1)
  <2> TAKE k \in 1 .. N
  <2>1. k \in 0 .. N /\ k - 1 \in 0 .. k
    BY <1>1
  <2> QED
    BY <1>1, <2>1, UptoUpto
<1>4. Upto(v, N) = v
  BY <1>1, SubSeqFull DEF Upto, Within
<1> HIDE DEF N
<1>5. ASSUME NEW k \in 2 .. N, Upto(v, k) \in E PROVE Upto(v, k - 1) \in D
  <2>1. k \in 0 .. N /\ k \in 1 .. N /\ k > 1
    BY <1>1
  <2>2. Len(Upto(v, k)) = k /\ Upto(Upto(v, k), k - 1) = Upto(v, k - 1)
    BY <1>2, <1>3, <2>1
  <2>3. \A p \in E : Len(p) > 1 => Upto(p, Len(p) - 1) \in D
    BY DEF Tree
  <2>4. Upto(Upto(v, k), Len(Upto(v, k)) - 1) \in D
    BY <1>5, <2>1, <2>2, <2>3
  <2> QED
    BY <2>2, <2>4
<1>6. Bad = {}
  <2> SUFFICES ASSUME Bad # {} PROVE FALSE
    OBVIOUS
  <2>1. PICK m \in Bad : \A n \in Bad : m <= n
    <3>1. Bad \subseteq Nat
      BY <1>1
    <3> HIDE DEF Bad
    <3> QED
      BY <3>1, LeastNumber
  <2>2. m \in 1 .. N - 1 /\ Upto(v, N - m) \notin D
    BY <2>1
  <2>3. Upto(v, N - (m - 1)) \in E /\ N - (m - 1) \in 2 .. N /\ N - (m - 1) - 1 = N - m
    <3>1. N - (m - 1) \in 2 .. N /\ N - (m - 1) - 1 = N - m
      BY <1>1, <2>2 DEF N
    <3>2. CASE m = 1
      <4>1. N - (m - 1) = N
        BY <1>1, <3>2 DEF N
      <4> QED
        BY <1>4, <3>1, <4>1
    <3>3. CASE m # 1
      <4>1. m - 1 \in 1 .. N - 1 /\ ~(m <= m - 1)
        BY <1>1, <2>2, <3>3 DEF N
      <4>2. m - 1 \notin Bad
        <5> HIDE DEF Bad
        <5> QED
          BY <2>1, <4>1
      <4> QED
        BY <3>1, <4>1, <4>2
    <3> QED
      BY <3>2, <3>3
  <2>4. Upto(v, N - (m - 1) - 1) \in D
    BY <1>5, <2>3
  <2> QED
    BY <2>2, <2>3, <2>4
<1>7. N - i \in 1 .. N - 1 /\ N - (N - i) = i
  BY <1>1 DEF N
<1> QED
  BY <1>6, <1>7

LEMMA RemoveFileKeeps ==
  ASSUME DiskInv, NEW path \in Paths, Disk!RemoveFile(path)
  PROVE  DiskInv' /\ DiskMoves
<1> DEFINE w == Disk!LocalName(path)
<1>1. /\ w \in entries /\ entries' = entries \ {w} /\ folders' = folders /\ order' = order
      /\ written' = [q \in {r \in DOMAIN written : written[r] # w} |-> written[q]]
      /\ refused' = <<>>
  BY DEF Disk!RemoveFile
<1>2. Tree(folders, folders \cup entries) /\ folders \cap entries = {}
  BY DEF DiskInv
<1> HIDE DEF w
<1>3. Without(folders \cup entries, folders' \cup entries', w)
  BY <1>1, <1>2 DEF Without
<1>4. Tree(folders', folders' \cup entries') /\ folders' \cap entries' = {}
  BY <1>1, <1>2 DEF Tree
<1>5. \A q \in DOMAIN written : q \in Paths /\ written[q] \in entries /\ Disk!LocalName(q) = written[q]
  BY DEF DiskInv, Disk!FoundAgain
<1>6. /\ DOMAIN written' \subseteq DOMAIN written
      /\ \A q \in DOMAIN written' : written'[q] = written[q] /\ written[q] # w
  BY <1>1
<1>7. ASSUME NEW q \in DOMAIN written'
      PROVE  written'[q] \in entries' /\ Disk!LocalName(q)' = written'[q]
  <2> DEFINE v == Disk!LocalName(q)
  <2>1. q \in Paths /\ written'[q] = v /\ v \in entries /\ v # w
    BY <1>5, <1>6
  <2>2. \A i \in 1 .. Len(v) : Upto(v, i) # w
    <3> SUFFICES ASSUME NEW i \in 1 .. Len(v), Upto(v, i) = w PROVE FALSE
      OBVIOUS
    <3>1. v \in Within /\ Len(v) \in Nat
      BY <2>1, NameOf
    <3> HIDE DEF v
    <3>2. CASE i = Len(v)
      BY <2>1, <3>1, <3>2, SubSeqFull DEF Upto, Within
    <3>3. CASE i # Len(v)
      <4>1. i \in 1 .. Len(v) - 1
        BY <3>1, <3>3
      <4>2. w \in folders
        BY <1>2, <2>1, <3>1, <4>1, PassedFolders
      <4> QED
        BY <1>1, <1>2, <4>2
    <3> QED
      BY <3>2, <3>3
  <2>3. Disk!LocalName(q)' = v
    BY <1>1, <1>3, <1>4, <2>1, <2>2, RemovalKeeps DEF w
  <2>4. v \in entries'
    BY <1>1, <2>1
  <2> QED
    BY <2>1, <2>3, <2>4
<1>8. Disk!FoundAgain'
  BY <1>7 DEF Disk!FoundAgain
<1>9. Disk!RefusedForCause'
  BY <1>1 DEF Disk!RefusedForCause
<1>10. DiskMoves
  BY <1>1 DEF DiskMoves, Disk!Entries
<1> QED
  BY <1>1, <1>4, <1>6, <1>8, <1>9, <1>10 DEF DiskInv

LEMMA RemoveFolderKeeps ==
  ASSUME DiskInv, NEW path \in Paths, Disk!RemoveFolder(path)
  PROVE  DiskInv' /\ DiskMoves
<1> DEFINE w == Disk!LocalName(path)
<1>1. /\ w \in folders /\ \A q \in folders \cup entries : w \notin Disk!Parents(q)
      /\ folders' = folders \ {w} /\ entries' = entries /\ order' = order /\ written' = written
      /\ refused' = <<>>
  BY DEF Disk!RemoveFolder, Disk!Entries
<1>2. Tree(folders, folders \cup entries) /\ folders \cap entries = {}
  BY DEF DiskInv
<1> HIDE DEF w
<1>3. Without(folders \cup entries, folders' \cup entries', w)
  BY <1>1, <1>2 DEF Without
<1>4. Tree(folders', folders' \cup entries') /\ folders' \cap entries' = {}
  <2>1. ASSUME NEW p \in folders' \cup entries', Len(p) > 1 PROVE Upto(p, Len(p) - 1) \in folders'
    <3>1. p \in folders \cup entries /\ p \in Within /\ Len(p) \in Nat
      BY <1>1, <1>2 DEF Tree, Within
    <3>2. Upto(p, Len(p) - 1) \in folders
      BY <1>2, <2>1, <3>1 DEF Tree
    <3>3. Len(p) - 1 \in 1 .. Len(p) - 1
      BY <2>1, <3>1
    <3>4. Upto(p, Len(p) - 1) \in Disk!Parents(p)
      BY <3>3 DEF Disk!Parents, Upto
    <3> QED
      BY <1>1, <3>1, <3>2, <3>4
  <2> QED
    BY <1>1, <1>2, <2>1 DEF Tree
<1>5. \A q \in DOMAIN written : q \in Paths /\ written[q] \in entries /\ Disk!LocalName(q) = written[q]
  BY DEF DiskInv, Disk!FoundAgain
<1>6. ASSUME NEW q \in DOMAIN written PROVE Disk!LocalName(q)' = written[q]
  <2> DEFINE v == Disk!LocalName(q)
  <2>1. q \in Paths /\ written[q] = v /\ v \in entries /\ v # w
    BY <1>1, <1>2, <1>5
  <2>2. \A i \in 1 .. Len(v) : Upto(v, i) # w
    <3> SUFFICES ASSUME NEW i \in 1 .. Len(v), Upto(v, i) = w PROVE FALSE
      OBVIOUS
    <3>1. v \in Within /\ Len(v) \in Nat
      BY <2>1, NameOf
    <3> HIDE DEF v
    <3>2. CASE i = Len(v)
      BY <2>1, <3>1, <3>2, SubSeqFull DEF Upto, Within
    <3>3. CASE i # Len(v)
      <4>1. i \in 1 .. Len(v) - 1
        BY <3>1, <3>3
      <4>2. w \in Disk!Parents(v)
        BY <4>1 DEF Disk!Parents, Upto
      <4> QED
        BY <1>1, <2>1, <4>2
    <3> QED
      BY <3>2, <3>3
  <2>3. Disk!LocalName(q)' = v
    BY <1>1, <1>3, <1>4, <2>1, <2>2, RemovalKeeps DEF w
  <2> QED
    BY <2>1, <2>3
<1>7. Disk!FoundAgain'
  BY <1>1, <1>5, <1>6 DEF Disk!FoundAgain
<1>8. Disk!RefusedForCause'
  BY <1>1 DEF Disk!RefusedForCause
<1>9. DiskMoves
  BY <1>1 DEF DiskMoves, Disk!Entries
<1> QED
  BY <1>1, <1>4, <1>7, <1>8, <1>9 DEF DiskInv

LEMMA DiskStays ==
  ASSUME DiskInv, [Disk!Next]_(Disk!vars)
  PROVE  DiskInv' /\ (DiskMoves \/ UNCHANGED Disk!vars)
<1>1. ASSUME NEW path \in Paths,
             Disk!OpenForWrite(path) \/ Disk!RemoveFile(path) \/ Disk!RemoveFolder(path)
      PROVE  DiskInv' /\ DiskMoves
  BY <1>1, OpenKeeps, RemoveFileKeeps, RemoveFolderKeeps
<1>2. ASSUME UNCHANGED Disk!vars PROVE DiskInv'
  <2>1. /\ folders' = folders /\ entries' = entries /\ order' = order /\ written' = written
        /\ refused' = refused
    BY <1>2 DEF Disk!vars
  <2>2. \A q \in Paths : Disk!LocalName(q)' = Disk!LocalName(q)
    BY <2>1 DEF Disk!LocalName, Disk!Found, Disk!Matches, Disk!IsFolder, Disk!Root, Disk!Entries
  <2>3. Disk!FoundAgain'
    BY <2>1, <2>2 DEF DiskInv, Disk!FoundAgain
  <2>4. Disk!RefusedForCause'
    <3>1. Disk!LocalName(refused)' = Disk!LocalName(refused)
      BY <2>1 DEF Disk!LocalName, Disk!Found, Disk!Matches, Disk!IsFolder, Disk!Root, Disk!Entries
    <3> QED
      BY <2>1, <3>1 DEF DiskInv, Disk!RefusedForCause, Disk!Parents
  <2> QED
    BY <2>1, <2>3, <2>4 DEF DiskInv
<1> QED
  BY <1>1, <1>2 DEF Disk!Next

LEMMA DiskHolds == DiskInv => Disk!TypeOK /\ Disk!FilesFound
BY DEF DiskInv, Disk!TypeOK, Disk!FilesFound, Tree, Upto
-----------------------------------------------------------------------------
(* Memory.                                                                 *)

\* The limits of each stage follow from the memory the program counts on.
MemoryTypes ==
  /\ ram \in Ram /\ asked \in CacheOptions /\ stage \in {"before", "after", "run"}
  /\ total \in 0 .. Huge /\ hashBits \in {0, 4, 32} /\ cacheLimit \in 0 .. 512
MemoryFlags == low \in BOOLEAN /\ segments \in BOOLEAN /\ smallFonts \in BOOLEAN
MemoryCounted ==
  stage # "before" => (ram < 2048 => total <= ram) /\ (hashBits < 32 => total < 64)
MemorySegments == stage # "before" => (segments <=> total >= 48)
MemoryCached ==
  stage = "run" /\ asked = Memory!Auto => 6 * cacheLimit <= total /\ (total <= 64 => cacheLimit = 0)
MemoryFonts == stage = "run" => (smallFonts <=> total <= 64)
MemoryHash == stage = "before" => hashBits = 32
MemoryInv ==
  /\ MemoryTypes /\ MemoryFlags /\ MemoryCounted /\ MemorySegments /\ MemoryCached
  /\ MemoryFonts /\ MemoryHash

LEMMA MemoryStart == ASSUME Memory!Init PROVE MemoryInv
<1>1. MemoryTypes
  BY MemoryAssumption DEF Memory!Init, MemoryTypes
<1> QED
  BY <1>1 DEF Memory!Init, MemoryInv, MemoryFlags, MemoryCounted, MemorySegments,
    MemoryCached, MemoryFonts, MemoryHash

LEMMA CacheForFits ==
  ASSUME NEW t \in Nat
  PROVE  /\ Memory!CacheFor(t) \in Nat /\ 6 * Memory!CacheFor(t) <= t
         /\ t <= 64 => Memory!CacheFor(t) = 0
<1>1. CASE t <= 64
  <2>1. Memory!CacheFor(t) = 0
    BY <1>1 DEF Memory!CacheFor
  <2> QED
    BY <2>1
<1>2. CASE t > 64 /\ t <= 128
  <2>1. Memory!CacheFor(t) = IF t <= 96 THEN 4 ELSE 8
    BY <1>2 DEF Memory!CacheFor
  <2> QED
    BY <1>2, <2>1
<1>3. CASE t > 128 /\ t <= 256
  <2>1. Memory!CacheFor(t) = IF t <= 192 THEN 12 ELSE 20
    BY <1>3 DEF Memory!CacheFor
  <2> QED
    BY <1>3, <2>1
<1>4. CASE t > 256 /\ t <= 512
  <2>1. Memory!CacheFor(t) = 40
    BY <1>4 DEF Memory!CacheFor
  <2> QED
    BY <1>4, <2>1
<1>5. CASE t > 512
  <2>1. Memory!CacheFor(t) = t \div 10
    BY <1>5 DEF Memory!CacheFor
  <2>2. t \div 10 \in Nat /\ 10 * (t \div 10) <= t
    OBVIOUS
  <2> QED
    BY <1>5, <2>1, <2>2
<1> QED
  BY <1>1, <1>2, <1>3, <1>4, <1>5

LEMMA MemoryCounts == ASSUME MemoryInv, Memory!BeforeSystemInit PROVE MemoryInv'
<1>1. stage = "before" /\ stage' = "after" /\ UNCHANGED <<ram, low, asked, cacheLimit, smallFonts>>
  BY DEF Memory!BeforeSystemInit
<1>2. PICK t \in Memory!Products(ram) : total' = IF low \/ t <= 36 THEN 0 ELSE t
  BY DEF Memory!BeforeSystemInit
<1>3. ram \in Nat /\ ram <= Huge /\ hashBits = 32
  BY <1>1, MemoryAssumption DEF MemoryInv, MemoryTypes, MemoryHash
<1>4. t \in 0 .. Huge /\ (ram < 2048 => t = ram)
  <2>1. CASE ram < 2048
    BY <1>2, <1>3, <2>1 DEF Memory!Products
  <2>2. CASE ram >= 2048
    <3>1. ram % 4096 \in 0 .. 4095
      BY <1>3
    <3>2. \E w \in 0 .. 4095 : Memory!Wrapped(ram) = IF w >= 2048 THEN Huge ELSE w
      BY <3>1 DEF Memory!Wrapped
    <3>4. Memory!Wrapped(ram) \in 0 .. Huge
      BY <3>2, MemoryAssumption
    <3>3. t = Memory!Wrapped(ram) \/ t = ram
      BY <1>2, <1>3, <2>2 DEF Memory!Products
    <3> QED
      BY <1>3, <2>2, <3>3, <3>4
  <2> QED
    BY <1>3, <2>1, <2>2
<1>5. total' \in 0 .. Huge /\ (ram < 2048 => total' <= ram)
  <2>1. total' = 0 \/ total' = t
    BY <1>2
  <2> QED
    BY <1>3, <1>4, <2>1, MemoryAssumption
<1>6. hashBits' = IF total' < 48 THEN 0 ELSE IF total' < 64 THEN 4 ELSE 32
  BY <1>3 DEF Memory!BeforeSystemInit
<1>7. segments' = (total' >= 48)
  BY DEF Memory!BeforeSystemInit
<1>8. MemoryTypes'
  BY <1>1, <1>5, <1>6 DEF MemoryInv, MemoryTypes
<1>9. MemoryCounted'
  BY <1>1, <1>3, <1>5, <1>6 DEF MemoryCounted
<1>10. MemoryFlags'
  BY <1>1, <1>7 DEF MemoryInv, MemoryFlags
<1>11. MemorySegments'
  BY <1>1, <1>7 DEF MemorySegments
<1> QED
  BY <1>1, <1>8, <1>9, <1>10, <1>11 DEF MemoryInv, MemoryCached, MemoryFonts, MemoryHash

LEMMA MemoryCaches == ASSUME MemoryInv, Memory!AfterSystemInit PROVE MemoryInv'
<1>1. stage = "after" /\ stage' = "run" /\ UNCHANGED <<ram, low, asked, total, hashBits, segments>>
  BY DEF Memory!AfterSystemInit
<1>2. smallFonts' = (total <= 64)
  BY DEF Memory!AfterSystemInit
<1> DEFINE limit == IF asked = Memory!Auto THEN Memory!CacheFor(total) ELSE asked
<1>3. cacheLimit' = IF limit >= 512 THEN 512 ELSE limit
  BY DEF Memory!AfterSystemInit
<1>4. total \in Nat /\ asked \in -1 .. Huge
  BY MemoryAssumption DEF MemoryInv, MemoryTypes
<1>5. /\ Memory!CacheFor(total) \in Nat /\ 6 * Memory!CacheFor(total) <= total
      /\ total <= 64 => Memory!CacheFor(total) = 0
  BY <1>4, CacheForFits
<1>6. limit \in Nat
  BY <1>4, <1>5, MemoryAssumption DEF Memory!Auto
<1>7. asked = Memory!Auto => limit = Memory!CacheFor(total)
  OBVIOUS
<1> HIDE DEF limit
<1>8. cacheLimit' \in 0 .. 512
  BY <1>3, <1>6
<1>9. MemoryCached'
  BY <1>1, <1>3, <1>4, <1>5, <1>6, <1>7 DEF MemoryCached, Memory!Auto
<1>10. MemoryTypes'
  BY <1>1, <1>8 DEF MemoryInv, MemoryTypes
<1>11. MemoryCounted'
  BY <1>1 DEF MemoryInv, MemoryCounted
<1>12. MemoryFlags'
  BY <1>1, <1>2 DEF MemoryInv, MemoryFlags
<1>15. MemoryFonts'
  BY <1>1, <1>2 DEF MemoryFonts
<1>14. MemoryHash'
  BY <1>1 DEF MemoryHash
<1>13. MemorySegments'
  BY <1>1 DEF MemoryInv, MemorySegments
<1> QED
  BY <1>1, <1>9, <1>10, <1>11, <1>12, <1>13, <1>14, <1>15 DEF MemoryInv

LEMMA MemoryStays == ASSUME MemoryInv, [Memory!Next]_(Memory!vars) PROVE MemoryInv'
<1>1. CASE UNCHANGED Memory!vars
  BY <1>1 DEF Memory!vars, MemoryInv, MemoryTypes, MemoryFlags, MemoryCounted, MemorySegments,
    MemoryCached, MemoryFonts, MemoryHash
<1> QED
  BY <1>1, MemoryCounts, MemoryCaches DEF Memory!Next

LEMMA MemoryHolds == ASSUME MemoryInv PROVE Memory!TypeOK /\ Memory!CacheFits
<1>1. Memory!TypeOK
  BY DEF MemoryInv, MemoryTypes, MemoryFlags, Memory!TypeOK
<1>2. ASSUME stage = "run", asked = Memory!Auto, ram < 2048
      PROVE  6 * cacheLimit <= ram /\ (hashBits < 32 \/ ~segments => cacheLimit = 0 /\ smallFonts)
  <2>1. total \in Nat /\ cacheLimit \in Nat /\ ram \in Nat
    BY MemoryAssumption DEF MemoryInv, MemoryTypes
  <2>2. total <= ram /\ 6 * cacheLimit <= total
    BY <1>2 DEF MemoryInv, MemoryCounted, MemoryCached
  <2>3. (hashBits < 32 \/ ~segments) => total <= 64
    BY <1>2, <2>1 DEF MemoryInv, MemoryCounted, MemorySegments
  <2> QED
    BY <1>2, <2>1, <2>2, <2>3 DEF MemoryInv, MemoryCached, MemoryFonts
<1> QED
  BY <1>1, <1>2 DEF Memory!CacheFits
-----------------------------------------------------------------------------
(* Plugins.                                                                *)

\* A plugin is listed once, and linked with its object loaded; one is linked
\* at a time, and none that is listed; the others are not loaded, until the
\* end leaves some that refuse.
PluginTypes ==
  /\ vector \in Seq(Plugin) /\ linking \subseteq Plugin
  /\ objects \in [Plugin -> {0, 1}] /\ linked \in [Plugin -> {0, 1}]
PluginFlags ==
  /\ loading \in BOOLEAN /\ ended \in BOOLEAN
  /\ loading <=> linking # {}
  /\ ended => linking = {}
Listed1(p) == \E i \in DOMAIN vector : vector[i] = p
PluginOnce ==
  /\ \A i, j \in DOMAIN vector : vector[i] = vector[j] => i = j
  /\ \A p, q \in linking : p = q
  /\ \A p \in linking : ~Listed1(p)
PluginCounts ==
  /\ \A p \in Plugin : Listed1(p) => objects[p] = 1 /\ linked[p] = 1
  /\ \A p \in linking : objects[p] = 1 /\ linked[p] = 0
PluginRest ==
  ~ended => \A p \in Plugin :
    ~Listed1(p) /\ p \notin linking => objects[p] = 0 /\ linked[p] = 0
PluginInv == PluginTypes /\ PluginFlags /\ PluginOnce /\ PluginCounts /\ PluginRest

LEMMA PluginStart == ASSUME Libraries!Init PROVE PluginInv
<1>1. vector = <<>> /\ DOMAIN vector = {}
  BY DEF Libraries!Init
<1>2. PluginTypes
  BY EmptySeq DEF Libraries!Init, PluginTypes
<1> QED
  BY <1>1, <1>2 DEF Libraries!Init, PluginInv, PluginFlags, PluginOnce, PluginCounts, PluginRest,
    Listed1

LEMMA PluginLoads ==
  ASSUME PluginInv, NEW p \in Plugin, Libraries!Load(p)
  PROVE  PluginInv'
<1>1. vector' = vector /\ linked' = linked /\ ended' = ended /\ ~ended /\ ~loading
  BY DEF Libraries!Load
<1>2. linking = {} /\ linking' = {p} /\ loading' = TRUE
  BY <1>1 DEF Libraries!Load, PluginInv, PluginFlags
<1>3. ~Listed1(p)
  BY DEF Libraries!Load, Libraries!Contains, PluginInv, PluginTypes, Listed1
<1>4. \A q : Listed1(q)' <=> Listed1(q)
  BY <1>1 DEF Listed1
<1>5. objects[p] = 0 /\ linked[p] = 0
  BY <1>1, <1>2, <1>3 DEF PluginInv, PluginRest
<1>6. objects' = [objects EXCEPT ![p] = 1]
  BY <1>5 DEF Libraries!Load, PluginInv, PluginTypes
<1>7. PluginTypes'
  BY <1>1, <1>2, <1>6 DEF PluginInv, PluginTypes
<1>8. PluginFlags'
  BY <1>1, <1>2 DEF PluginInv, PluginFlags
<1>9. PluginOnce'
  BY <1>1, <1>2, <1>3, <1>4 DEF PluginInv, PluginOnce
<1>10. PluginCounts'
  BY <1>1, <1>2, <1>3, <1>4, <1>5, <1>6 DEF PluginInv, PluginTypes, PluginCounts
<1>11. PluginRest'
  BY <1>1, <1>2, <1>3, <1>4, <1>6 DEF PluginInv, PluginTypes, PluginRest
<1> QED
  BY <1>7, <1>8, <1>9, <1>10, <1>11 DEF PluginInv

LEMMA PluginLinks ==
  ASSUME PluginInv, NEW p \in Plugin, Libraries!Linked(p)
  PROVE  PluginInv'
<1>0. vector \in Seq(Plugin) /\ DOMAIN vector = 1 .. Len(vector) /\ Len(vector) \in Nat
  BY DEF PluginInv, PluginTypes
<1>1. p \in linking /\ linking' = linking \ {p} /\ linking = {p} /\ linking' = {}
  BY DEF Libraries!Linked, PluginInv, PluginOnce
<1>2. objects' = objects /\ ended' = ended /\ loading' = FALSE
  BY DEF Libraries!Linked
<1>3. /\ vector' = Append(vector, p) /\ vector' \in Seq(Plugin)
      /\ DOMAIN vector' = 1 .. Len(vector) + 1
      /\ vector'[Len(vector) + 1] = p /\ \A i \in DOMAIN vector : vector'[i] = vector[i]
  BY <1>0 DEF Libraries!Linked
<1>4. \A q : Listed1(q)' <=> Listed1(q) \/ q = p
  BY <1>0, <1>3 DEF Listed1
<1>5. objects[p] = 1 /\ linked[p] = 0 /\ ~Listed1(p)
  BY <1>1 DEF PluginInv, PluginCounts, PluginOnce
<1>6. linked' = [linked EXCEPT ![p] = 1]
  BY <1>5 DEF Libraries!Linked, PluginInv, PluginTypes
<1>7. PluginTypes'
  BY <1>1, <1>2, <1>3, <1>6 DEF PluginInv, PluginTypes
<1>8. PluginFlags'
  BY <1>1, <1>2 DEF PluginInv, PluginFlags
<1>9. PluginOnce'
  <2>1. \A i, j \in DOMAIN vector' : vector'[i] = vector'[j] => i = j
    BY <1>0, <1>3, <1>5 DEF PluginInv, PluginOnce, Listed1
  <2> QED
    BY <1>1, <2>1 DEF PluginOnce
<1>10. PluginCounts'
  BY <1>1, <1>2, <1>4, <1>5, <1>6 DEF PluginInv, PluginTypes, PluginCounts
<1>11. PluginRest'
  BY <1>1, <1>2, <1>4, <1>6 DEF PluginInv, PluginTypes, PluginRest
<1> QED
  BY <1>7, <1>8, <1>9, <1>10, <1>11 DEF PluginInv

LEMMA PluginThrows ==
  ASSUME PluginInv, NEW p \in Plugin, Libraries!LinkThrows(p)
  PROVE  PluginInv'
<1>1. p \in linking /\ linking = {p} /\ linking' = {}
  BY DEF Libraries!LinkThrows, PluginInv, PluginOnce
<1>2. vector' = vector /\ linked' = linked /\ ended' = ended /\ loading' = FALSE
  BY DEF Libraries!LinkThrows, Libraries!LoadingOver
<1>3. \A q : Listed1(q)' <=> Listed1(q)
  BY <1>2 DEF Listed1
<1>4. objects[p] = 1 /\ linked[p] = 0 /\ ~Listed1(p)
  BY <1>1 DEF PluginInv, PluginCounts, PluginOnce
<1>5. objects' = [objects EXCEPT ![p] = 0]
  BY <1>4 DEF Libraries!LinkThrows, PluginInv, PluginTypes
<1>6. PluginTypes'
  BY <1>1, <1>2, <1>5 DEF PluginInv, PluginTypes
<1>7. PluginFlags'
  BY <1>1, <1>2 DEF PluginInv, PluginFlags
<1>8. PluginOnce'
  BY <1>1, <1>2, <1>3 DEF PluginInv, PluginOnce
<1>9. PluginCounts'
  BY <1>1, <1>2, <1>3, <1>4, <1>5 DEF PluginInv, PluginTypes, PluginCounts
<1>10. PluginRest'
  BY <1>1, <1>2, <1>3, <1>4, <1>5 DEF PluginInv, PluginTypes, PluginRest
<1> QED
  BY <1>6, <1>7, <1>8, <1>9, <1>10 DEF PluginInv

LEMMA PluginCut ==
  ASSUME PluginInv, NEW i \in DOMAIN vector, vector' = Cut(vector, i)
  PROVE  /\ vector' \in Seq(Plugin) /\ \A j, k \in DOMAIN vector' : vector'[j] = vector'[k] => j = k
         /\ \A q : Listed1(q)' <=> Listed1(q) /\ q # vector[i]
<1>0. vector \in Seq(Plugin) /\ Len(vector) \in Nat /\ DOMAIN vector = 1 .. Len(vector)
  BY DEF PluginInv, PluginTypes
<1>1. /\ vector' \in Seq(Plugin) /\ DOMAIN vector' = 1 .. Len(vector) - 1
      /\ \A k \in 1 .. Len(vector) - 1 : vector'[k] = IF k < i THEN vector[k] ELSE vector[k + 1]
  BY <1>0, CutProperties
<1>2. \A j, k \in DOMAIN vector : vector[j] = vector[k] => j = k
  BY DEF PluginInv, PluginOnce
<1>3. ASSUME NEW j \in DOMAIN vector', NEW k \in DOMAIN vector', vector'[j] = vector'[k] PROVE j = k
  <2>1. PICK m \in DOMAIN vector : m = (IF j < i THEN j ELSE j + 1) /\ vector'[j] = vector[m]
    BY <1>0, <1>1
  <2>2. PICK n \in DOMAIN vector : n = (IF k < i THEN k ELSE k + 1) /\ vector'[k] = vector[n]
    BY <1>0, <1>1
  <2>3. m = n
    BY <1>2, <1>3, <2>1, <2>2
  <2> QED
    BY <1>0, <1>1, <2>1, <2>2, <2>3
<1>4. ASSUME NEW q, Listed1(q)' PROVE Listed1(q) /\ q # vector[i]
  <2>1. PICK k \in 1 .. Len(vector) - 1 : vector'[k] = q
    BY <1>1, <1>4 DEF Listed1
  <2> QED
    BY <1>0, <1>1, <1>2, <2>1 DEF Listed1
<1>5. ASSUME NEW q, Listed1(q), q # vector[i] PROVE Listed1(q)'
  <2>1. PICK k \in 1 .. Len(vector) : vector[k] = q /\ k # i
    BY <1>0, <1>5 DEF Listed1
  <2>2. CASE k < i
    <3>1. k \in DOMAIN vector' /\ vector'[k] = q
      BY <1>0, <1>1, <2>1, <2>2
    <3> QED
      BY <3>1 DEF Listed1
  <2>3. CASE k > i
    <3>1. k - 1 \in DOMAIN vector' /\ vector'[k - 1] = q
      BY <1>0, <1>1, <2>1, <2>3
    <3> QED
      BY <3>1 DEF Listed1
  <2> QED
    BY <1>0, <2>1, <2>2, <2>3
<1> QED
  BY <1>1, <1>3, <1>4, <1>5

\* A plugin leaves the vector, with its object or without.
LEMMA PluginLeaves ==
  ASSUME PluginInv, NEW i \in DOMAIN vector, vector' = Cut(vector, i),
         linking' = linking, loading' = loading, ended' \in {ended, TRUE},
         ended' => linking = {},
         \/ ended' /\ UNCHANGED <<objects, linked>>
         \/ /\ objects' = [objects EXCEPT ![vector[i]] = @ - 1]
            /\ linked' = [linked EXCEPT ![vector[i]] = @ - 1]
  PROVE  PluginInv'
<1> DEFINE p == vector[i]
<1>1. /\ vector' \in Seq(Plugin) /\ \A j, k \in DOMAIN vector' : vector'[j] = vector'[k] => j = k
      /\ \A q : Listed1(q)' <=> Listed1(q) /\ q # p
  BY PluginCut
<1>2. p \in Plugin /\ Listed1(p) /\ p \notin linking
  BY DEF PluginInv, PluginTypes, PluginOnce, Listed1
<1>3. objects[p] = 1 /\ linked[p] = 1
  BY <1>2 DEF PluginInv, PluginCounts
<1>4. \/ ended' /\ UNCHANGED <<objects, linked>>
      \/ objects' = [objects EXCEPT ![p] = 0] /\ linked' = [linked EXCEPT ![p] = 0]
  BY <1>2, <1>3 DEF PluginInv, PluginTypes
<1> HIDE DEF p
<1>5. PluginTypes'
  BY <1>1, <1>2, <1>4 DEF PluginInv, PluginTypes
<1>6. PluginFlags'
  BY DEF PluginInv, PluginFlags
<1>7. PluginOnce'
  BY <1>1 DEF PluginInv, PluginOnce
<1>8. PluginCounts'
  BY <1>1, <1>2, <1>4 DEF PluginInv, PluginTypes, PluginCounts
<1>9. PluginRest'
  BY <1>1, <1>2, <1>4 DEF PluginInv, PluginTypes, PluginRest
<1> QED
  BY <1>5, <1>6, <1>7, <1>8, <1>9 DEF PluginInv

LEMMA PluginUnlinks ==
  ASSUME PluginInv, NEW p \in Plugin, Libraries!Unload(p) PROVE PluginInv'
<1>1. CASE UNCHANGED <<vector, objects, linked>>
  <2>1. UNCHANGED <<vector, objects, linked, loading, linking, ended>>
    BY <1>1 DEF Libraries!Unload
  <2> QED
    BY <2>1 DEF PluginInv, PluginTypes, PluginFlags, PluginOnce, PluginCounts, PluginRest, Listed1
<1>2. CASE /\ vector' = Libraries!Without(p) /\ objects' = [objects EXCEPT ![p] = @ - 1]
           /\ linked' = [linked EXCEPT ![p] = @ - 1]
  <2> DEFINE i == CHOOSE k \in DOMAIN vector : vector[k] = p
  <2>1. Listed1(p)
    BY DEF Libraries!Unload, Libraries!Contains, PluginInv, PluginTypes, Listed1
  <2>2. i \in DOMAIN vector /\ vector[i] = p
    BY <2>1 DEF Listed1
  <2>3. vector' = Cut(vector, i)
    BY <1>2 DEF Libraries!Without, Libraries!RemoveAt, Cut
  <2>4. ~ended /\ ended' = ended /\ linking' = linking /\ loading' = loading
    BY DEF Libraries!Unload
  <2> HIDE DEF i
  <2> QED
    BY <1>2, <2>2, <2>3, <2>4, PluginLeaves
<1> QED
  BY <1>1, <1>2 DEF Libraries!Unload, Libraries!Kept

LEMMA PluginsGo ==
  ASSUME PluginInv, Libraries!DestroyPluginVector PROVE PluginInv'
<1> DEFINE i == Len(vector)
<1>1. vector \in Seq(Plugin) /\ i \in DOMAIN vector
  BY DEF Libraries!DestroyPluginVector, PluginInv, PluginTypes
<1>2. vector' = Cut(vector, i)
  <2>1. SubSeq(vector, i + 1, i) = <<>>
    BY <1>1
  <2>2. SubSeq(vector, 1, i - 1) \o <<>> = SubSeq(vector, 1, i - 1)
    BY <1>1
  <2> QED
    BY <2>1, <2>2 DEF Libraries!DestroyPluginVector, Libraries!Front, Cut
<1>3. linking = {} /\ linking' = linking /\ ended' = TRUE /\ loading' = loading
  BY DEF Libraries!DestroyPluginVector
<1>4. \/ UNCHANGED <<objects, linked>>
      \/ /\ objects' = [objects EXCEPT ![vector[i]] = @ - 1]
         /\ linked' = [linked EXCEPT ![vector[i]] = @ - 1]
  BY DEF Libraries!DestroyPluginVector, Libraries!Last
<1> QED
  BY <1>1, <1>2, <1>3, <1>4, PluginLeaves

LEMMA PluginStays ==
  ASSUME PluginInv, [Libraries!Next]_(Libraries!vars)
  PROVE  PluginInv'
<1>1. CASE UNCHANGED Libraries!vars
  <2>1. UNCHANGED <<vector, objects, linked, loading, linking, ended>>
    BY <1>1 DEF Libraries!vars
  <2> QED
    BY <2>1 DEF PluginInv, PluginTypes, PluginFlags, PluginOnce, PluginCounts, PluginRest, Listed1
<1>2. CASE Libraries!DestroyPluginVector
  BY <1>2, PluginsGo
<1>3. ASSUME NEW p \in Plugin,
             Libraries!Load(p) \/ Libraries!Linked(p) \/ Libraries!LinkThrows(p)
             \/ Libraries!Unload(p)
      PROVE  PluginInv'
  BY <1>3, PluginLoads, PluginLinks, PluginThrows, PluginUnlinks
<1>4. Libraries!Next => PluginInv'
  BY <1>2, <1>3 DEF Libraries!Next
<1> QED
  BY <1>1, <1>4

LEMMA PluginHolds ==
  ASSUME PluginInv
  PROVE  Libraries!TypeOK /\ Libraries!RefusedWhileLinking /\ Libraries!LoadedAsListed
<1>1. Libraries!TypeOK
  BY DEF PluginInv, PluginTypes, PluginFlags, Libraries!TypeOK
<1>2. Libraries!RefusedWhileLinking
  BY DEF PluginInv, PluginFlags, Libraries!RefusedWhileLinking
<1>3. \A p : Libraries!Contains(vector, p) <=> Listed1(p)
  BY DEF PluginInv, PluginTypes, Listed1, Libraries!Contains
<1>4. Libraries!LoadedAsListed
  BY <1>3 DEF PluginInv, PluginCounts, PluginRest, Libraries!LoadedAsListed
<1> QED
  BY <1>1, <1>2, <1>4
-----------------------------------------------------------------------------
(* Images that are loaded.                                                 *)

\* The head and the tail of a concatenation.
LEMMA TailOfConcat ==
  ASSUME NEW S, NEW s \in Seq(S), NEW t \in Seq(S), s # <<>>
  PROVE  s \o t # <<>> /\ Tail(s \o t) = Tail(s) \o t /\ (s \o t)[1] = s[1]
<1>1. /\ Len(s) \in Nat \ {0} /\ Len(t) \in Nat /\ s \o t \in Seq(S)
      /\ Len(s \o t) = Len(s) + Len(t) /\ s \o t # <<>>
  BY ConcatEqualIffEmpty, EmptySeq, ConcatProperties, LenProperties
<1>2. Tail(s) \in Seq(S) /\ Len(Tail(s)) = Len(s) - 1
  BY HeadTailProperties
<1>3. Tail(s) \o t \in Seq(S) /\ Len(Tail(s) \o t) = Len(s) - 1 + Len(t)
  BY <1>1, <1>2, ConcatProperties
<1>4. Tail(s \o t) \in Seq(S) /\ Len(Tail(s \o t)) = Len(s) + Len(t) - 1
  BY <1>1, HeadTailProperties
<1>5. ASSUME NEW i \in 1 .. Len(Tail(s \o t)) PROVE Tail(s \o t)[i] = (Tail(s) \o t)[i]
  <2>1. Tail(s \o t)[i] = (s \o t)[i + 1] /\ i + 1 \in 1 .. Len(s) + Len(t)
    BY <1>1, <1>4, HeadTailProperties
  <2>2. (s \o t)[i + 1] = IF i + 1 <= Len(s) THEN s[i + 1] ELSE t[i + 1 - Len(s)]
    BY <2>1, ConcatProperties
  <2>3. (Tail(s) \o t)[i] = IF i <= Len(s) - 1 THEN Tail(s)[i] ELSE t[i - (Len(s) - 1)]
    BY <1>1, <1>2, <1>4, ConcatProperties
  <2>4. i <= Len(s) - 1 => Tail(s)[i] = s[i + 1]
    BY <1>1, <1>2, <1>4, HeadTailProperties
  <2>5. i + 1 - Len(s) = i - (Len(s) - 1) /\ (i + 1 <= Len(s) <=> i <= Len(s) - 1)
    BY <1>1, <1>4
  <2> QED
    BY <2>1, <2>2, <2>3, <2>4, <2>5
<1>6. (s \o t)[1] = s[1]
  BY <1>1, ConcatProperties
<1> QED
  BY <1>1, <1>3, <1>4, <1>5, <1>6, SeqEqual

\* The queues, one command between them, and the requests one after another.
ImageTypes ==
  /\ alive \subseteq Bitmap /\ asking \subseteq Bitmap /\ stuck \subseteq asking
  /\ commands \in Seq(Bitmap) /\ held \in Seq(Bitmap) /\ loaded \in Seq(Bitmap)
  /\ Images!UnderWay \in Seq(Bitmap)
ImageFlags ==
  /\ ready \in BOOLEAN /\ setting \in BOOLEAN /\ draining \in BOOLEAN /\ exiting \in BOOLEAN
  /\ loaderAt \in {"wait", "take", "load", "post", "gone"}
ImageNumbers ==
  /\ finished \in 0 .. MaxNative /\ depth \in 0 .. MaxDepth
  /\ draining => depth > 0
ImageHeld == IF loaderAt = "load" THEN \E b \in Bitmap : held = <<b>> ELSE held = <<>>
Asked(b) == \E i \in DOMAIN Images!UnderWay : Images!UnderWay[i] = b
ImageOnce ==
  /\ \A b \in Bitmap : b \in asking \ stuck <=> Asked(b)
  /\ \A i, j \in DOMAIN Images!UnderWay : Images!UnderWay[i] = Images!UnderWay[j] => i = j
ImageAwake == commands # <<>> => ready \/ setting \/ loaderAt # "wait"
ImageTold == Len(loaded) <= finished + (IF loaderAt = "post" THEN 1 ELSE 0) + depth
ImageInv ==
  ImageTypes /\ ImageFlags /\ ImageNumbers /\ ImageHeld /\ ImageOnce /\ ImageAwake /\ ImageTold

LEMMA ImageStart == ASSUME Images!Init PROVE ImageInv
<1>1. commands = <<>> /\ held = <<>> /\ loaded = <<>> /\ <<>> \in Seq(Bitmap)
  BY EmptySeq DEF Images!Init
<1>2. Images!UnderWay = <<>>
  BY <1>1 DEF Images!UnderWay
<1>3. ImageTypes
  BY <1>1, <1>2 DEF Images!Init, ImageTypes
<1>4. ImageFlags /\ ImageHeld /\ ImageAwake
  BY <1>1 DEF Images!Init, ImageFlags, ImageHeld, ImageAwake
<1>6. ImageNumbers
  BY ThreadsAssumption DEF Images!Init, ImageNumbers
<1>7. ImageTold
  BY <1>1 DEF Images!Init, ImageTold
<1>5. ImageOnce
  BY <1>2 DEF Images!Init, ImageOnce, Asked
<1> QED
  BY <1>3, <1>4, <1>5, <1>6, <1>7 DEF ImageInv

\* Steps that leave the queues and the bitmaps alone.
LEMMA ImageQuiet ==
  ASSUME ImageInv, UNCHANGED <<asking, stuck, commands, held, loaded>>,
         alive' \subseteq alive
  PROVE  ImageTypes' /\ ImageOnce' /\ UNCHANGED Images!UnderWay
<1>1. Images!UnderWay' = Images!UnderWay
  BY DEF Images!UnderWay
<1> QED
  BY <1>1 DEF ImageInv, ImageTypes, ImageOnce, Asked

LEMMA ImageScript ==
  ASSUME ImageInv, NEW b \in Bitmap, Images!LoadThrows(b) \/ Images!Invalidate(b)
  PROVE  ImageInv' /\ UNCHANGED Images!UnderWay
<1>1. UNCHANGED <<commands, held, loaded, ready, setting, finished, loaderAt, depth, draining,
        exiting>>
  BY DEF Images!LoadThrows, Images!Invalidate, Images!queueVars
<1>2. ImageFlags' /\ ImageNumbers' /\ ImageHeld' /\ ImageAwake' /\ ImageTold'
  BY <1>1 DEF ImageInv, ImageFlags, ImageNumbers, ImageHeld, ImageAwake, ImageTold
<1>3. CASE Images!Invalidate(b)
  BY <1>2, <1>3, ImageQuiet DEF Images!Invalidate, Images!queueVars, ImageInv
<1>4. CASE Images!LoadThrows(b)
  <2>1. /\ b \notin asking /\ asking' = asking \cup {b} /\ stuck' = stuck \cup {b}
        /\ alive' = alive
    BY <1>4 DEF Images!LoadThrows
  <2>2. Images!UnderWay' = Images!UnderWay
    BY <1>1 DEF Images!UnderWay
  <2>3. ImageTypes'
    BY <1>1, <2>1, <2>2 DEF ImageInv, ImageTypes
  <2>4. ImageOnce'
    BY <2>1, <2>2 DEF ImageInv, ImageTypes, ImageOnce, Asked
  <2> QED
    BY <1>2, <2>2, <2>3, <2>4 DEF ImageInv
<1> QED
  BY <1>3, <1>4

LEMMA ImageAsked ==
  ASSUME ImageInv, NEW b \in Bitmap, Images!LoadAsync(b)
  PROVE  ImageInv' /\ Images!UnderWay' = Append(Images!UnderWay, b)
<1> DEFINE u == Images!UnderWay
<1>1. /\ b \in alive \ asking /\ asking' = asking \cup {b} /\ commands' = Append(commands, b)
      /\ setting' = TRUE
      /\ UNCHANGED <<alive, stuck, held, loaded, ready, finished, loaderAt, depth, draining,
           exiting>>
  BY DEF Images!LoadAsync, Images!Askable
<1>2. u \in Seq(Bitmap) /\ loaded \in Seq(Bitmap) /\ held \in Seq(Bitmap) /\ commands \in Seq(Bitmap)
  BY DEF ImageInv, ImageTypes
<1>3. u' = Append(u, b)
  <2> DEFINE front == loaded \o held
  <2>1. front \in Seq(Bitmap)
    BY <1>2, ConcatProperties
  <2>2. commands' = commands \o <<b>> /\ <<b>> \in Seq(Bitmap)
    BY <1>1, <1>2, AppendIsConcat
  <2>3. u' = front \o commands' /\ u = front \o commands
    BY <1>1 DEF Images!UnderWay
  <2> HIDE DEF front, u
  <2>4. u' = u \o <<b>>
    BY <1>2, <2>1, <2>2, <2>3, ConcatAssociative
  <2> QED
    BY <1>2, <2>4, AppendIsConcat
<1> HIDE DEF u
<1>4. /\ u' \in Seq(Bitmap) /\ DOMAIN u' = 1 .. Len(u) + 1 /\ DOMAIN u = 1 .. Len(u)
      /\ Len(u) \in Nat /\ u'[Len(u) + 1] = b /\ \A i \in 1 .. Len(u) : u'[i] = u[i]
  BY <1>2, <1>3, AppendProperties, LenProperties
<1>5. commands' \in Seq(Bitmap)
  BY <1>1, <1>2
<1>6. \A c : Asked(c)' <=> Asked(c) \/ c = b
  BY <1>4 DEF Asked, u
<1>7. ~Asked(b)
  BY <1>1 DEF ImageInv, ImageOnce
<1>8. ImageTypes'
  BY <1>1, <1>2, <1>4, <1>5 DEF ImageInv, ImageTypes, u
<1>9. ImageOnce'
  <2>1. ASSUME NEW i \in DOMAIN u', NEW j \in DOMAIN u', u'[i] = u'[j] PROVE i = j
    <3>1. \A k \in 1 .. Len(u) : u[k] # b
      BY <1>4, <1>7 DEF Asked, u
    <3>2. \A k, l \in 1 .. Len(u) : u[k] = u[l] => k = l
      BY <1>4 DEF ImageInv, ImageOnce, u
    <3> QED
      BY <1>4, <2>1, <3>1, <3>2
  <2>2. \A c \in Bitmap : c \in asking' \ stuck' <=> Asked(c)'
    BY <1>1, <1>6, <1>7 DEF ImageInv, ImageTypes, ImageOnce
  <2> QED
    BY <2>1, <2>2 DEF ImageOnce, u
<1>10. ImageFlags' /\ ImageNumbers' /\ ImageHeld' /\ ImageAwake' /\ ImageTold'
  BY <1>1 DEF ImageInv, ImageFlags, ImageNumbers, ImageHeld, ImageAwake, ImageTold
<1> QED
  BY <1>3, <1>8, <1>9, <1>10 DEF ImageInv, u

LEMMA ImageAnswered ==
  ASSUME ImageInv, Images!Handle
  PROVE  ImageInv' /\ Images!UnderWay # <<>> /\ Images!UnderWay' = Tail(Images!UnderWay)
<1> DEFINE u == Images!UnderWay
           b == Head(loaded)
<1>1. /\ draining /\ loaded # <<>> /\ loaded' = Tail(loaded) /\ asking' = asking \ {b}
      /\ draining' = FALSE /\ (depth' = depth \/ depth' = depth - 1)
      /\ UNCHANGED <<alive, stuck, commands, held, ready, setting, finished, loaderAt, exiting>>
  BY DEF Images!Handle
<1>2. u \in Seq(Bitmap) /\ loaded \in Seq(Bitmap) /\ held \in Seq(Bitmap) /\ commands \in Seq(Bitmap)
  BY DEF ImageInv, ImageTypes
<1>3. u # <<>> /\ u' = Tail(u) /\ u[1] = b
  <2>1. loaded \o held # <<>> /\ Tail(loaded \o held) = Tail(loaded) \o held /\ (loaded \o held)[1] = loaded[1]
    BY <1>1, <1>2, TailOfConcat
  <2> DEFINE front == loaded \o held
  <2>2. front \in Seq(Bitmap)
    BY <1>2, ConcatProperties
  <2>3. u = front \o commands /\ u' = Tail(front) \o commands /\ front # <<>> /\ front[1] = b
    BY <1>1, <2>1 DEF Images!UnderWay
  <2> HIDE DEF front, u, b
  <2> QED
    BY <1>2, <2>2, <2>3, TailOfConcat
<1> HIDE DEF u, b
<1>4. /\ u' \in Seq(Bitmap) /\ DOMAIN u = 1 .. Len(u) /\ DOMAIN u' = 1 .. Len(u) - 1
      /\ Len(u) \in Nat \ {0} /\ \A i \in 1 .. Len(u) - 1 : u'[i] = u[i + 1]
  BY <1>2, <1>3, HeadTailProperties, LenProperties, EmptySeq
<1>5. loaded' \in Seq(Bitmap) /\ Len(loaded') = Len(loaded) - 1 /\ Len(loaded) \in Nat \ {0}
  BY <1>1, <1>2, HeadTailProperties, LenProperties, EmptySeq
<1>6. \A k, l \in 1 .. Len(u) : u[k] = u[l] => k = l
  BY <1>4 DEF ImageInv, ImageOnce, u
<1>7. Asked(b) /\ \A c : Asked(c)' <=> Asked(c) /\ c # b
  <2>1. ASSUME NEW c PROVE Asked(c)' => Asked(c) /\ c # b
    BY <1>3, <1>4, <1>6 DEF Asked, u
  <2>2. ASSUME NEW c, Asked(c), c # b PROVE Asked(c)'
    <3>1. PICK i \in 1 .. Len(u) : u[i] = c
      BY <1>4, <2>2 DEF Asked, u
    <3>2. i # 1 /\ i - 1 \in 1 .. Len(u) - 1 /\ u'[i - 1] = u[i - 1 + 1] /\ i - 1 + 1 = i
      BY <1>3, <1>4, <2>2, <3>1
    <3> QED
      BY <1>4, <3>1, <3>2 DEF Asked, u
  <2>3. Asked(b)
    BY <1>3, <1>4 DEF Asked, u
  <2> QED
    BY <2>1, <2>2, <2>3
<1>8. b \in asking \ stuck
  <2>1. b \in Bitmap
    BY <1>2, <1>3, <1>4
  <2> QED
    BY <1>7, <2>1 DEF ImageInv, ImageOnce
<1>9. ImageTypes'
  BY <1>1, <1>2, <1>4, <1>5, <1>8 DEF ImageInv, ImageTypes, u
<1>10. ImageOnce'
  <2>1. ASSUME NEW i \in DOMAIN u', NEW j \in DOMAIN u', u'[i] = u'[j] PROVE i = j
    BY <1>4, <1>6, <2>1
  <2>2. \A c \in Bitmap : c \in asking' \ stuck' <=> Asked(c)'
    BY <1>1, <1>7 DEF ImageInv, ImageOnce
  <2> QED
    BY <2>1, <2>2 DEF ImageOnce, u
<1>11. ImageNumbers'
  BY <1>1, ThreadsAssumption DEF ImageInv, ImageNumbers
<1>12. ImageTold'
  BY <1>1, <1>5 DEF ImageInv, ImageTold, ImageNumbers
<1>13. ImageFlags' /\ ImageHeld' /\ ImageAwake'
  BY <1>1 DEF ImageInv, ImageFlags, ImageHeld, ImageAwake
<1> QED
  BY <1>3, <1>9, <1>10, <1>11, <1>12, <1>13 DEF ImageInv, u

\* The steps of the main thread that move no request.
LEMMA ImageMain ==
  ASSUME ImageInv,
         \/ Images!Set \/ Images!Proc \/ Images!HandlerReturns \/ Images!Handled
         \/ Images!ExitRequest
  PROVE  ImageInv' /\ UNCHANGED Images!UnderWay
<1>1. UNCHANGED <<alive, asking, stuck, commands, held, loaded, loaderAt>>
  BY DEF Images!Set, Images!Proc, Images!HandlerReturns, Images!Handled, Images!ExitRequest,
    Images!queueVars
<1>2. ImageTypes' /\ ImageOnce' /\ UNCHANGED Images!UnderWay
  BY <1>1, ImageQuiet
<1>3. ImageHeld'
  BY <1>1 DEF ImageInv, ImageHeld
<1>4. ImageFlags'
  BY <1>1 DEF ImageInv, ImageFlags, Images!Set, Images!Proc, Images!HandlerReturns, Images!Handled,
    Images!ExitRequest
<1>5. ImageAwake'
  BY <1>1 DEF ImageInv, ImageAwake, Images!Set, Images!Proc, Images!HandlerReturns, Images!Handled,
    Images!ExitRequest
<1>6. ImageNumbers' /\ ImageTold'
  <2>1. CASE Images!Set \/ Images!HandlerReturns \/ Images!ExitRequest
    <3>1. finished' = finished /\ depth' = depth /\ (draining' => depth > 0)
      BY <2>1 DEF ImageInv, ImageNumbers, Images!Set, Images!HandlerReturns, Images!ExitRequest
    <3> QED
      BY <1>1, <3>1 DEF ImageInv, ImageNumbers, ImageTold
  <2>2. CASE Images!Proc
    <3>1. finished > 0 /\ finished' = finished - 1 /\ depth < MaxDepth /\ depth' = depth + 1
      BY <2>2 DEF Images!Proc
    <3>2. Len(loaded) \in Nat
      BY DEF ImageInv, ImageTypes
    <3> QED
      BY <1>1, <3>1, <3>2, ThreadsAssumption DEF ImageInv, ImageNumbers, ImageTold
  <2>3. CASE Images!Handled
    <3>1. draining /\ loaded = <<>> /\ depth' = depth - 1 /\ draining' = FALSE /\ finished' = finished
      BY <2>3 DEF Images!Handled
    <3>2. Len(loaded) = 0
      BY <3>1
    <3> QED
      BY <1>1, <3>1, <3>2, ThreadsAssumption DEF ImageInv, ImageNumbers, ImageTold
  <2> QED
    BY <2>1, <2>2, <2>3
<1> QED
  BY <1>2, <1>3, <1>4, <1>5, <1>6 DEF ImageInv

\* The steps of the thread.
LEMMA ImageThread ==
  ASSUME ImageInv, Images!Thread PROVE ImageInv' /\ UNCHANGED Images!UnderWay
<1>0. UNCHANGED <<alive, asking, stuck, setting, depth, draining, exiting>>
  BY DEF Images!Thread, Images!Wait, Images!Take, Images!NoneLeft, Images!Load,
    Images!SendToLoadFinish
<1>1. CASE Images!Wait \/ Images!NoneLeft
  <2>1. UNCHANGED <<commands, held, loaded, finished>> /\ ready' \in {ready, FALSE}
    BY <1>1 DEF Images!Wait, Images!NoneLeft, Images!queueVars
  <2>2. loaderAt' \in {"wait", "take", "gone"} /\ loaderAt \in {"wait", "take"}
    BY <1>1 DEF Images!Wait, Images!NoneLeft
  <2>3. loaderAt' = "wait" => commands = <<>>
    BY <1>1 DEF Images!Wait, Images!NoneLeft
  <2>4. ImageFlags' /\ ImageHeld' /\ ImageAwake'
    BY <1>0, <2>1, <2>2, <2>3 DEF ImageInv, ImageFlags, ImageHeld, ImageAwake
  <2>5. ImageNumbers' /\ ImageTold'
    BY <1>0, <2>1, <2>2 DEF ImageInv, ImageNumbers, ImageTold
  <2> QED
    BY <1>0, <2>1, <2>4, <2>5, ImageQuiet DEF ImageInv
<1>2. CASE Images!SendToLoadFinish
  <2>1. /\ UNCHANGED <<commands, held, loaded, ready>> /\ loaderAt = "post"
        /\ loaderAt' \in {"gone", "take"} /\ finished < MaxNative /\ finished' = finished + 1
    BY <1>2 DEF Images!SendToLoadFinish, Images!UntilNone, Images!queueVars
  <2>2. ImageFlags' /\ ImageHeld' /\ ImageAwake'
    BY <1>0, <2>1 DEF ImageInv, ImageFlags, ImageHeld, ImageAwake
  <2>3. ImageNumbers' /\ ImageTold'
    BY <1>0, <2>1, ThreadsAssumption DEF ImageInv, ImageNumbers, ImageTold
  <2> QED
    BY <1>0, <2>1, <2>2, <2>3, ImageQuiet DEF ImageInv
<1>3. CASE Images!Take
  <2>1. /\ loaderAt = "take" /\ loaderAt' = "load" /\ commands # <<>> /\ held' = <<commands[1]>>
        /\ commands' = SubSeq(commands, 1, 0) \o SubSeq(commands, 2, Len(commands))
        /\ UNCHANGED <<loaded, ready, finished>>
    BY <1>3 DEF Images!Take, Images!Oldest
  <2>2. /\ commands \in Seq(Bitmap) /\ loaded \in Seq(Bitmap) /\ held = <<>>
        /\ Len(commands) \in Nat \ {0}
    BY <2>1 DEF ImageInv, ImageTypes, ImageHeld
  <2>3. commands' = Tail(commands) /\ commands' \in Seq(Bitmap)
    <3>1. SubSeq(commands, 1, 0) = <<>> /\ Tail(commands) = SubSeq(commands, 2, Len(commands))
      BY <2>1, <2>2, SubSeqEmpty, TailIsSubSeq
    <3>2. Tail(commands) \in Seq(Bitmap) /\ <<>> \o Tail(commands) = Tail(commands)
      BY <2>1, <2>2, HeadTailProperties, ConcatEmptySeq
    <3> QED
      BY <2>1, <3>1, <3>2
  <2>4. commands[1] \in Bitmap /\ held' \in Seq(Bitmap)
    BY <2>1, <2>2
  <2>5. held' \o commands' = commands
    BY <2>1, <2>2, <2>3, <2>4, SubSeqRecursiveFirst, SubSeqFull, TailIsSubSeq
  <2>6. UNCHANGED Images!UnderWay
    <3>1. (loaded \o held') \o commands' = loaded \o (held' \o commands')
      BY <2>2, <2>3, <2>4, ConcatAssociative
    <3>2. loaded \o held = loaded
      BY <2>2, ConcatEmptySeq
    <3> QED
      BY <2>1, <2>5, <3>1, <3>2 DEF Images!UnderWay
  <2>7. ImageTypes' /\ ImageOnce'
    BY <1>0, <2>1, <2>3, <2>4, <2>6 DEF ImageInv, ImageTypes, ImageOnce, Asked
  <2>8. ImageFlags' /\ ImageHeld' /\ ImageAwake'
    BY <1>0, <2>1, <2>4 DEF ImageInv, ImageFlags, ImageHeld, ImageAwake
  <2>9. ImageNumbers' /\ ImageTold'
    BY <1>0, <2>1 DEF ImageInv, ImageNumbers, ImageTold
  <2> QED
    BY <2>6, <2>7, <2>8, <2>9 DEF ImageInv
<1>4. CASE Images!Load
  <2>1. /\ loaderAt = "load" /\ loaderAt' = "post" /\ loaded' = loaded \o held /\ held' = <<>>
        /\ UNCHANGED <<commands, ready, finished>>
    BY <1>4 DEF Images!Load
  <2>2. commands \in Seq(Bitmap) /\ loaded \in Seq(Bitmap) /\ held \in Seq(Bitmap)
    BY DEF ImageInv, ImageTypes
  <2>3. /\ loaded' \in Seq(Bitmap) /\ Len(loaded') = Len(loaded) + 1 /\ Len(loaded) \in Nat
        /\ held' \in Seq(Bitmap)
    <3>1. Len(held) = 1
      BY <2>1 DEF ImageInv, ImageHeld
    <3>2. Len(loaded) \in Nat /\ held' \in Seq(Bitmap)
      BY <2>1, <2>2, EmptySeq
    <3>3. loaded \o held \in Seq(Bitmap) /\ Len(loaded \o held) = Len(loaded) + Len(held)
      BY <2>2, ConcatProperties
    <3> QED
      BY <2>1, <3>1, <3>2, <3>3
  <2>4. UNCHANGED Images!UnderWay
    BY <2>1, <2>2, <2>3, ConcatEmptySeq DEF Images!UnderWay
  <2>5. ImageTypes' /\ ImageOnce'
    BY <1>0, <2>1, <2>2, <2>3, <2>4 DEF ImageInv, ImageTypes, ImageOnce, Asked
  <2>6. ImageFlags' /\ ImageHeld' /\ ImageAwake'
    BY <1>0, <2>1 DEF ImageInv, ImageFlags, ImageHeld, ImageAwake
  <2>7. ImageNumbers' /\ ImageTold'
    BY <1>0, <2>1, <2>3 DEF ImageInv, ImageNumbers, ImageTold
  <2> QED
    BY <2>4, <2>5, <2>6, <2>7 DEF ImageInv
<1> QED
  BY <1>1, <1>2, <1>3, <1>4 DEF Images!Thread

\* Requests come to the end of those under way and leave from their front.
ImageMoves ==
  \/ Images!UnderWay' = Images!UnderWay
  \/ Images!UnderWay # <<>> /\ Images!UnderWay' = Tail(Images!UnderWay)
  \/ \E b \in Bitmap : Images!UnderWay' = Append(Images!UnderWay, b)

LEMMA ImageStays ==
  ASSUME ImageInv, [Images!Next]_(Images!vars) PROVE ImageInv' /\ ImageMoves
<1>1. CASE UNCHANGED Images!vars
  <2>1. UNCHANGED <<alive, asking, stuck, commands, held, loaded, ready, setting, finished,
          loaderAt, depth, draining, exiting>>
    BY <1>1 DEF Images!vars, Images!queueVars
  <2>2. ImageTypes' /\ ImageOnce' /\ UNCHANGED Images!UnderWay
    BY <2>1, ImageQuiet
  <2>3. ImageFlags' /\ ImageNumbers' /\ ImageHeld' /\ ImageAwake' /\ ImageTold'
    BY <2>1 DEF ImageInv, ImageFlags, ImageNumbers, ImageHeld, ImageAwake, ImageTold
  <2> QED
    BY <2>2, <2>3 DEF ImageInv, ImageMoves
<1>2. CASE Images!Thread
  BY <1>2, ImageThread DEF ImageMoves
<1>3. CASE Images!Main
  BY <1>3, ImageMain, ImageAnswered DEF Images!Main, ImageMoves
<1>4. CASE Images!Script
  <2>1. CASE Images!ExitRequest
    BY <2>1, ImageMain DEF ImageMoves
  <2>2. ASSUME NEW b \in Bitmap, Images!LoadThrows(b) \/ Images!LoadAsync(b) \/ Images!Invalidate(b)
        PROVE  ImageInv' /\ ImageMoves
    BY <2>2, ImageScript, ImageAsked DEF ImageMoves
  <2> QED
    BY <1>4, <2>1, <2>2 DEF Images!Script
<1> QED
  BY <1>1, <1>2, <1>3, <1>4 DEF Images!Next

LEMMA ImagesHold ==
  ASSUME ImageInv PROVE Images!TypeOK /\ Images!OneRequestEach /\ Images!NothingStalls
<1>1. Images!OneRequestEach
  BY DEF ImageInv, ImageOnce, Asked, Images!OneRequestEach
<1>2. Images!NothingStalls
  <2>1. loaded # <<>> => Len(loaded) \in Nat \ {0}
    BY DEF ImageInv, ImageTypes
  <2>2. loaded = <<>> \/ finished + (IF loaderAt = "post" THEN 1 ELSE 0) + depth > 0
    BY <2>1 DEF ImageInv, ImageTold, ImageNumbers
  <2> QED
    BY <2>2 DEF ImageInv, ImageAwake, Images!NothingStalls
<1>3. Images!TypeOK
  <2>1. {alive, asking, stuck} \subseteq SUBSET Bitmap
    BY DEF ImageInv, ImageTypes
  <2>2. {commands, held, loaded} \subseteq Seq(Bitmap)
    BY DEF ImageInv, ImageTypes
  <2>3. Len(held) <= 1
    <3>1. held = <<>> => Len(held) = 0
      OBVIOUS
    <3>2. ASSUME NEW b \in Bitmap, held = <<b>> PROVE Len(held) = 1
      BY <3>2
    <3>4. held = <<>> \/ \E b \in Bitmap : held = <<b>>
      BY DEF ImageInv, ImageHeld
    <3>3. Len(held) = 0 \/ Len(held) = 1
      BY <3>1, <3>2, <3>4, Zenon
    <3>5. \A n : n = 0 \/ n = 1 => n <= 1
      OBVIOUS
    <3> QED
      BY <3>3, <3>5, Zenon
  <2>4. {ready, setting, draining, exiting} \subseteq BOOLEAN
    BY DEF ImageInv, ImageFlags
  <2> QED
    BY <2>1, <2>2, <2>3, <2>4 DEF ImageInv, ImageNumbers, ImageFlags, Images!TypeOK
<1> QED
  BY <1>1, <1>2, <1>3
-----------------------------------------------------------------------------
(* The main loop.                                                          *)
LoopTypes ==
  /\ pc \in {"poll", "idle", "rest", "clear", "call", "beat", "wait", "stopped"}
  /\ sdl \in Seq({"timer", "limit", "input", "quit"})
  /\ waiting \in 0 .. MaxPosted /\ burst \in 0 .. MaxBurst
ScriptFlags ==
  /\ hooks \in BOOLEAN /\ calling \in BOOLEAN /\ limiting \in BOOLEAN
  /\ holding \in BOOLEAN /\ terminated \in BOOLEAN
LoopFlags ==
  /\ ScriptFlags /\ flag \in BOOLEAN /\ told \in BOOLEAN /\ turn \in BOOLEAN
  /\ posting \in BOOLEAN
\* The event the limit thread is about to post has its place in the queue.
LoopRoom == Len(sdl) + (IF posting THEN 1 ELSE 0) <= MaxQueue
LoopInv == LoopTypes /\ LoopFlags /\ LoopRoom

LEMMA LoopStart == ASSUME LimitedLoop!Init PROVE LoopInv
<1>1. LoopFlags /\ ~posting
  BY DEF LimitedLoop!Init, LoopFlags, ScriptFlags
<1>2. pc = "poll" /\ sdl = <<>> /\ waiting = 0 /\ burst = 0
  BY DEF LimitedLoop!Init
<1>3. sdl \in Seq({"timer", "limit", "input", "quit"}) /\ Len(sdl) = 0
  BY <1>2, EmptySeq
<1>4. LoopTypes /\ LoopRoom
  BY <1>1, <1>2, <1>3, LoopAssumption DEF LoopTypes, LoopRoom
<1> QED
  BY <1>1, <1>4 DEF LoopInv

\* What handlers and the delivery of continuous events do to the flags.
LEMMA ScriptKeeps ==
  ASSUME ScriptFlags,
         \/ UNCHANGED <<waiting, holding, hooks, calling, limiting, terminated>>
         \/ \E n \in Nat, b \in BOOLEAN : LimitedLoop!Handlers(n, b) \/ FreeLoop!Handlers(n, b)
         \/ /\ LimitedLoop!End \/ FreeLoop!End
            /\ hooks' \in BOOLEAN /\ UNCHANGED <<holding, terminated>>
  PROVE  ScriptFlags'
BY Zenon DEF ScriptFlags, LimitedLoop!Handlers, FreeLoop!Handlers, LimitedLoop!Begin,
  FreeLoop!Begin, LimitedLoop!End, FreeLoop!End, LimitedLoop!Remove, FreeLoop!Remove

\* A step of the main thread takes the first event of the queue at most.
LEMMA LoopMain ==
  ASSUME LoopInv, LimitedLoop!Main \/ FreeLoop!Main
  PROVE  LoopInv'
<1> USE DEF LoopTypes, LoopInv
<1>1. /\ pc' \in {"poll", "idle", "rest", "clear", "call", "beat", "wait", "stopped"}
      /\ sdl' = sdl \/ (sdl # <<>> /\ sdl' = Tail(sdl))
      /\ burst' = burst \/ burst' = 0
      /\ posting' = posting
  BY DEF LimitedLoop!Main, FreeLoop!Main, LimitedLoop!Poll, FreeLoop!Poll,
    LimitedLoop!Polled, FreeLoop!Polled, LimitedLoop!Deliver, FreeLoop!Deliver,
    LimitedLoop!HeldBack, FreeLoop!HeldBack, LimitedLoop!Idle, FreeLoop!Idle,
    LimitedLoop!Clear, FreeLoop!Clear, LimitedLoop!Call, FreeLoop!Call,
    LimitedLoop!Beat, FreeLoop!Beat, LimitedLoop!Woken, FreeLoop!Woken
<1>2. sdl' \in Seq({"timer", "limit", "input", "quit"}) /\ Len(sdl') <= Len(sdl)
  BY <1>1
<1>3. \/ waiting' = waiting \/ waiting' \in 0 .. MaxPosted
      \/ waiting' \in waiting .. MaxPosted \/ (waiting < MaxPosted /\ waiting' = waiting + 1)
  BY DEF LimitedLoop!Main, FreeLoop!Main, LimitedLoop!Poll, FreeLoop!Poll,
    LimitedLoop!Polled, FreeLoop!Polled, LimitedLoop!Deliver, FreeLoop!Deliver,
    LimitedLoop!HeldBack, FreeLoop!HeldBack, LimitedLoop!Idle, FreeLoop!Idle,
    LimitedLoop!Clear, FreeLoop!Clear, LimitedLoop!Call, FreeLoop!Call,
    LimitedLoop!Beat, FreeLoop!Beat, LimitedLoop!Woken, FreeLoop!Woken,
    LimitedLoop!Handlers, FreeLoop!Handlers, LimitedLoop!script, FreeLoop!script
<1>4. ScriptFlags'
  <2> USE DEF LoopFlags
  <2>1. CASE LimitedLoop!Poll \/ FreeLoop!Poll
    <3>1. CASE LimitedLoop!Handlers(waiting, holding) \/ FreeLoop!Handlers(waiting, holding)
      <4>1. waiting \in Nat /\ holding \in BOOLEAN
        BY LoopAssumption DEF ScriptFlags
      <4> QED
        BY <3>1, <4>1, ScriptKeeps
    <3>2. CASE /\ terminated' \in {terminated, TRUE}
               /\ UNCHANGED <<holding, hooks, calling, limiting>>
      BY <3>2 DEF ScriptFlags
    <3> QED
      BY <2>1, <3>1, <3>2 DEF LimitedLoop!Poll, FreeLoop!Poll, LimitedLoop!script,
        FreeLoop!script
  <2>2. CASE LimitedLoop!Deliver \/ FreeLoop!Deliver \/ LimitedLoop!Idle \/ FreeLoop!Idle
    <3>1. CASE LimitedLoop!Handlers(0, FALSE) \/ FreeLoop!Handlers(0, FALSE)
      BY <3>1, ScriptKeeps
    <3>2. CASE /\ holding' \in {FALSE, holding}
               /\ UNCHANGED <<hooks, calling, limiting, terminated>>
      BY <3>2 DEF ScriptFlags
    <3> QED
      BY <2>2, <3>1, <3>2 DEF LimitedLoop!Deliver, FreeLoop!Deliver, LimitedLoop!Idle,
        FreeLoop!Idle, LimitedLoop!script, FreeLoop!script
  <2>3. CASE LimitedLoop!Call \/ FreeLoop!Call
    <3>1. CASE LimitedLoop!Handlers(waiting, holding) \/ FreeLoop!Handlers(waiting, holding)
      <4>1. waiting \in Nat /\ holding \in BOOLEAN
        BY LoopAssumption DEF ScriptFlags
      <4> QED
        BY <3>1, <4>1, ScriptKeeps
    <3>2. CASE /\ LimitedLoop!End \/ FreeLoop!End
               /\ hooks' \in {FALSE, hooks} /\ UNCHANGED <<holding, terminated>>
      BY <3>2, ScriptKeeps DEF ScriptFlags
    <3>3. CASE UNCHANGED <<waiting, holding, hooks, calling, limiting, terminated>>
      BY <3>3, ScriptKeeps
    <3> QED
      BY <2>3, <3>1, <3>2, <3>3 DEF LimitedLoop!Call, FreeLoop!Call, LimitedLoop!script,
        FreeLoop!script
  <2>4. CASE UNCHANGED <<waiting, holding, hooks, calling, limiting, terminated>>
    BY <2>4, ScriptKeeps
  <2> QED
    BY <2>1, <2>2, <2>3, <2>4 DEF LimitedLoop!Main, FreeLoop!Main, LimitedLoop!Polled,
      FreeLoop!Polled, LimitedLoop!HeldBack, FreeLoop!HeldBack, LimitedLoop!Clear,
      FreeLoop!Clear, LimitedLoop!Beat, FreeLoop!Beat, LimitedLoop!Woken, FreeLoop!Woken,
      LimitedLoop!script, FreeLoop!script
<1>5. flag' \in BOOLEAN /\ told' \in BOOLEAN /\ turn' \in BOOLEAN
  BY Zenon DEF LoopFlags, ScriptFlags, LimitedLoop!Main, FreeLoop!Main, LimitedLoop!Poll,
    FreeLoop!Poll,
    LimitedLoop!Polled, FreeLoop!Polled, LimitedLoop!Deliver, FreeLoop!Deliver,
    LimitedLoop!HeldBack, FreeLoop!HeldBack, LimitedLoop!Idle, FreeLoop!Idle,
    LimitedLoop!Clear, FreeLoop!Clear, LimitedLoop!Call, FreeLoop!Call,
    LimitedLoop!Beat, FreeLoop!Beat, LimitedLoop!Woken, FreeLoop!Woken,
    LimitedLoop!TimerTaken, FreeLoop!TimerTaken, LimitedLoop!FlagForIdle,
    FreeLoop!FlagForIdle
<1>6. LoopRoom'
  BY <1>1, <1>2, LoopAssumption DEF LoopRoom, LoopFlags
<1> QED
  BY <1>1, <1>2, <1>3, <1>4, <1>5, <1>6, LoopAssumption DEF LoopFlags

LEMMA LoopKeeps ==
  ASSUME LoopInv, [LimitedLoop!Next \/ FreeLoop!Next]_(LimitedLoop!vars)
  PROVE  LoopInv'
<1> USE DEF LoopTypes, LoopInv
<1>1. CASE \/ LimitedLoop!WatchTimer \/ LimitedLoop!LimitThread \/ LimitedLoop!User
           \/ FreeLoop!WatchTimer \/ FreeLoop!LimitThread \/ FreeLoop!User
  <2>1. pc' = pc /\ waiting' = waiting /\ burst' \in {burst, burst + 1} /\ burst' <= MaxBurst
    BY <1>1, LoopAssumption DEF LimitedLoop!WatchTimer, FreeLoop!WatchTimer, LimitedLoop!LimitThread,
      FreeLoop!LimitThread, LimitedLoop!LimitTick, FreeLoop!LimitTick,
      LimitedLoop!LimitPost, FreeLoop!LimitPost, LimitedLoop!User, FreeLoop!User,
      LimitedLoop!Post, FreeLoop!Post, LimitedLoop!Room, FreeLoop!Room, LimitedLoop!script, FreeLoop!script, ScriptFlags
  <2>2. \/ \E e \in {"timer", "input", "quit"} :
             sdl' = Append(sdl, e) /\ posting' = posting /\ LimitedLoop!Room
        \/ sdl' = sdl /\ posting' = TRUE /\ posting = FALSE /\ LimitedLoop!Room
        \/ sdl' = Append(sdl, "limit") /\ posting = TRUE /\ posting' = FALSE
    BY <1>1 DEF LoopFlags, LimitedLoop!WatchTimer, FreeLoop!WatchTimer, LimitedLoop!LimitThread,
      FreeLoop!LimitThread, LimitedLoop!LimitTick, FreeLoop!LimitTick,
      LimitedLoop!LimitPost, FreeLoop!LimitPost, LimitedLoop!User, FreeLoop!User,
      LimitedLoop!Post, FreeLoop!Post, LimitedLoop!Room, FreeLoop!Room, LimitedLoop!script, FreeLoop!script, ScriptFlags
  <2>3. sdl' \in Seq({"timer", "limit", "input", "quit"}) /\ Len(sdl') \in {Len(sdl), Len(sdl) + 1}
    BY <2>2
  <2>4. LoopRoom'
    BY <2>2, LoopAssumption DEF LoopRoom, LoopFlags, LimitedLoop!Room
  <2>5. LoopFlags'
    BY <1>1 DEF LoopFlags, LimitedLoop!WatchTimer, FreeLoop!WatchTimer, LimitedLoop!LimitThread,
      FreeLoop!LimitThread, LimitedLoop!LimitTick, FreeLoop!LimitTick,
      LimitedLoop!LimitPost, FreeLoop!LimitPost, LimitedLoop!User, FreeLoop!User,
      LimitedLoop!Post, FreeLoop!Post, LimitedLoop!Room, FreeLoop!Room, LimitedLoop!script, FreeLoop!script, ScriptFlags
  <2> QED
    BY <2>1, <2>3, <2>4, <2>5, LoopAssumption
<1>2. CASE UNCHANGED LimitedLoop!vars
  BY <1>2 DEF LimitedLoop!vars, LimitedLoop!script, LoopFlags, ScriptFlags, LoopRoom
<1> QED
  BY <1>1, <1>2, LoopMain DEF LimitedLoop!Next, FreeLoop!Next

LEMMA LoopHolds == ASSUME LoopInv PROVE LimitedLoop!TypeOK
BY LoopAssumption DEF LoopInv, LoopTypes, LoopFlags, ScriptFlags, LoopRoom, LimitedLoop!TypeOK

-----------------------------------------------------------------------------
(* The auto path.                                                          *)
SearchTypes == files \subseteq Folder \X Name /\ IsInjective(list) /\ outside \in BOOLEAN
SearchInv == Inv /\ SearchTypes

LEMMA SearchStart == ASSUME Init PROVE SearchInv
<1>1. Inv
  BY SearchAssumption, InitInv DEF Marks
<1>2. files \subseteq Folder \X Name /\ list = <<>> /\ outside = FALSE
  BY DEF Init
<1>3. IsInjective(list)
  <2>1. DOMAIN list = {}
    BY <1>2
  <2> QED
    BY <2>1 DEF IsInjective
<1> QED
  BY <1>1, <1>2, <1>3 DEF SearchInv, SearchTypes

\* The list has no folder twice.
LEMMA ListStays ==
  ASSUME list \in Seq(Folder), IsInjective(list), NEW f \in Folder,
         AddAutoPath(f) \/ RemoveAutoPath(f)
  PROVE  IsInjective(list')
<1> USE DEF IsInjective
<1>1. Len(list) \in Nat /\ DOMAIN list = 1 .. Len(list)
  OBVIOUS
<1>2. CASE list' = list
  BY <1>2
<1>3. CASE list' = Append(list, f) /\ f \notin Range(list)
  <2>1. /\ DOMAIN list' = 1 .. Len(list) + 1 /\ list'[Len(list) + 1] = f
        /\ \A i \in 1 .. Len(list) : list'[i] = list[i]
    BY <1>1, <1>3
  <2>2. \A i \in 1 .. Len(list) : list[i] # f
    BY <1>1, <1>3 DEF Range
  <2>3. \A i \in 1 .. Len(list) + 1 : i = Len(list) + 1 \/ i \in 1 .. Len(list)
    BY <1>1
  <2> QED
    BY <1>1, <2>1, <2>2, <2>3
<1>4. ASSUME NEW i \in DOMAIN list, list' = RemoveAt(list, i) PROVE IsInjective(list')
  <2>1. list' = Cut(list, i)
    BY <1>4 DEF RemoveAt, Cut
  <2>2. /\ DOMAIN list' = 1 .. Len(list) - 1
        /\ \A k \in 1 .. Len(list) - 1 : list'[k] = IF k < i THEN list[k] ELSE list[k + 1]
    BY <2>1, CutProperties
  <2>3. ASSUME NEW j \in DOMAIN list', NEW k \in DOMAIN list', list'[j] = list'[k] PROVE j = k
    <3>1. PICK m \in DOMAIN list : m = (IF j < i THEN j ELSE j + 1) /\ list'[j] = list[m]
      BY <1>1, <2>2
    <3>2. PICK n \in DOMAIN list : n = (IF k < i THEN k ELSE k + 1) /\ list'[k] = list[n]
      BY <1>1, <2>2
    <3>3. m = n
      BY <2>3, <3>1, <3>2
    <3> QED
      BY <1>1, <2>2, <3>1, <3>2, <3>3
  <2> QED
    BY <2>3
<1> QED
  BY <1>2, <1>3, <1>4 DEF AddAutoPath, RemoveAutoPath

LEMMA SearchStays == ASSUME SearchInv, [Next]_vars PROVE SearchInv'
<1>1. Inv'
  BY SearchAssumption, NextInv DEF Marks, SearchInv
<1>2. folder \in Folder /\ list \in Seq(Folder) /\ SearchTypes
  BY DEF SearchInv, Inv, Types
<1>3. files' \subseteq Folder \X Name /\ outside' \in BOOLEAN
  <2>1. outside' = FALSE \/ outside' = TRUE \/ outside' = outside
    BY DEF Next, vars, Compact, AddAutoPath, RemoveAutoPath, SetCurrentDirectory, GetPlacedPath,
      CreateStream, Forget, Others, Cleared
  <2>2. ASSUME NEW f \in Folder, NEW n \in Name, Others(f, n) PROVE files' \subseteq Folder \X Name
    BY <1>2, <2>2 DEF Others, SearchTypes
  <2>3. ASSUME NEW n \in Name, CreateStream(n) PROVE files' \subseteq Folder \X Name
    BY <1>2, <2>3 DEF CreateStream, SearchTypes
  <2>4. \/ files' = files \/ \E n \in Name : CreateStream(n)
        \/ \E f \in Folder, n \in Name : Others(f, n)
    BY DEF Next, vars, Compact, AddAutoPath, RemoveAutoPath, SetCurrentDirectory, GetPlacedPath,
      Forget
  <2> QED
    BY <1>2, <2>1, <2>2, <2>3, <2>4 DEF SearchTypes
<1>4. IsInjective(list')
  <2>1. CASE \E f \in Folder : AddAutoPath(f) \/ RemoveAutoPath(f)
    BY <1>2, <2>1, ListStays DEF SearchTypes
  <2>2. CASE list' = list
    BY <1>2, <2>2 DEF SearchTypes
  <2> QED
    BY <2>1, <2>2 DEF Next, vars, Compact, SetCurrentDirectory, GetPlacedPath, CreateStream,
      Forget,
      Others
<1> QED
  BY <1>1, <1>3, <1>4 DEF SearchInv, SearchTypes

LEMMA SearchHolds == ASSUME SearchInv PROVE TypeOK /\ PlacedAsSearched
BY DEF SearchInv, SearchTypes, Inv, Types, TypeOK

-----------------------------------------------------------------------------
(* The threads that draw: DrawPoolProofs, and the bounds of the types.     *)
Batches == INSTANCE DrawPoolProofs WITH at <- workerAt, terminated <- retired, count <- running

DrawBounds == taskNum <= MaxThreads /\ taskCount <= MaxThreads /\ given <= MaxThreads
DrawInv == Batches!Inv /\ DrawBounds

LEMMA DrawStart == ASSUME Drawing!Init PROVE DrawInv
<1>1. Batches!Init
  BY DEF Drawing!Init, Batches!Init, Drawing!Workers, Batches!Workers, Drawing!Tasks, Batches!Tasks
<1>2. Batches!Inv
  BY <1>1, ThreadsAssumption, Batches!Starts
<1>3. DrawBounds
  BY ThreadsAssumption DEF Drawing!Init, DrawBounds
<1> QED
  BY <1>2, <1>3 DEF DrawInv

\* The steps of the instance are those of the pool.
LEMMA DrawSteps == [Drawing!Next]_(Drawing!vars) => [Batches!Next]_(Batches!vars)
<1>1. Drawing!Grow => Batches!Grow
  BY DEF Drawing!Grow, Batches!Grow, Drawing!Wanted, Batches!Wanted, Drawing!workerVars,
    Batches!workerVars
<1>2. Drawing!Shrink => Batches!Shrink
  BY DEF Drawing!Shrink, Batches!Shrink, Drawing!Wanted, Batches!Wanted, Drawing!workerVars,
    Batches!workerVars
<1>3. Drawing!Retire => Batches!Retire
  BY DEF Drawing!Retire, Batches!Retire, Drawing!LastCounted, Batches!LastCounted,
    Drawing!LastTask, Batches!LastTask, Drawing!Dummy, Batches!Dummy,
    Drawing!workerVars, Batches!workerVars
<1>4. Drawing!Joined => Batches!Joined
  BY DEF Drawing!Joined, Batches!Joined, Drawing!workerVars, Batches!workerVars
<1>5. Drawing!Pooled => Batches!Pooled
  BY DEF Drawing!Pooled, Batches!Pooled, Drawing!Wanted, Batches!Wanted, Drawing!workerVars,
    Batches!workerVars
<1>6. Drawing!ExecTask => Batches!ExecTask
  BY DEF Drawing!ExecTask, Batches!ExecTask, Drawing!Inline, Batches!Inline, Drawing!HandOut,
    Batches!HandOut, Drawing!Counted, Batches!Counted, Drawing!workerVars,
    Batches!workerVars
<1>7. Drawing!EndTask => Batches!EndTask
  BY DEF Drawing!EndTask, Batches!EndTask, Drawing!workerVars, Batches!workerVars
<1>8. Drawing!WaitForTask => Batches!WaitForTask
  BY DEF Drawing!WaitForTask, Batches!WaitForTask, Drawing!workerVars, Batches!workerVars
<1>9. \A w \in Drawing!Workers : Drawing!Test(w) => Batches!Test(w)
  BY DEF Drawing!Test, Batches!Test, Drawing!mainVars, Batches!mainVars, Drawing!Tasks,
    Batches!Tasks, Drawing!Workers, Batches!Workers
<1>10. \A w \in Drawing!Workers : Drawing!Take(w) => Batches!Take(w)
  BY DEF Drawing!Take, Batches!Take, Drawing!mainVars, Batches!mainVars, Drawing!Tasks,
    Batches!Tasks, Drawing!Workers, Batches!Workers
<1>11. \A w \in Drawing!Workers : Drawing!Run(w) => Batches!Run(w)
  BY DEF Drawing!Run, Batches!Run, Drawing!mainVars, Batches!mainVars, Drawing!Tasks,
    Batches!Tasks, Drawing!Workers, Batches!Workers
<1>12. \A w \in Drawing!Workers : Drawing!Clear(w) => Batches!Clear(w)
  BY DEF Drawing!Clear, Batches!Clear, Drawing!mainVars, Batches!mainVars, Drawing!Tasks,
    Batches!Tasks, Drawing!Workers, Batches!Workers
<1>13. \A w \in Drawing!Workers : Drawing!DecCount(w) => Batches!DecCount(w)
  BY DEF Drawing!DecCount, Batches!DecCount, Drawing!mainVars, Batches!mainVars, Drawing!Tasks,
    Batches!Tasks, Drawing!Workers, Batches!Workers
<1>14. Drawing!Script => Batches!Script
  BY DEF Drawing!Script, Batches!Script, Drawing!SetNumber, Batches!SetNumber, Drawing!BeginTask,
    Batches!BeginTask, Drawing!Destroy, Batches!Destroy, Drawing!workerVars,
    Batches!workerVars, Drawing!Tasks, Batches!Tasks
<1>15. UNCHANGED Drawing!vars => UNCHANGED Batches!vars
  BY DEF Drawing!vars, Batches!vars, Drawing!mainVars, Batches!mainVars, Drawing!workerVars,
    Batches!workerVars
<1> QED
  BY <1>1, <1>2, <1>3, <1>4, <1>5, <1>6, <1>7, <1>8, <1>9, <1>10, <1>11, <1>12, <1>13, <1>14,
    <1>15 DEF Drawing!Next, Batches!Next, Drawing!Pool, Batches!Pool, Drawing!Work, Batches!Work,
    Drawing!Execute, Batches!Execute, Drawing!Workers, Batches!Workers

LEMMA DrawStays == ASSUME DrawInv, [Drawing!Next]_(Drawing!vars) PROVE DrawInv'
<1>1. Batches!Inv'
  BY ThreadsAssumption, DrawSteps, Batches!StepKeeps DEF DrawInv
<1>2. /\ taskNum \in Nat /\ taskCount \in Nat /\ given \in Nat /\ number \in 1 .. MaxThreads
      /\ DrawBounds
  BY DEF DrawInv, Batches!Inv, Batches!Types, Batches!Amounts, Batches!Tasks
<1>3. /\ taskNum' \in {taskNum, 1, number}
      /\ \/ taskCount' = taskCount \/ taskCount' = 0
         \/ taskCount' = taskCount + 1 /\ taskCount < taskNum - 1
      /\ given' = given \/ given' = 0 \/ (given' = given + 1 /\ given < taskNum)
  BY DEF Drawing!Next, Drawing!vars, Drawing!mainVars, Drawing!workerVars, Drawing!Pool,
    Drawing!Script,
    Drawing!Work, Drawing!Execute, Drawing!SetNumber, Drawing!BeginTask, Drawing!Destroy,
    Drawing!Grow, Drawing!Shrink, Drawing!Retire, Drawing!Joined, Drawing!Pooled, Drawing!ExecTask,
    Drawing!Inline, Drawing!HandOut, Drawing!EndTask, Drawing!WaitForTask, Drawing!Test,
    Drawing!Take, Drawing!Run, Drawing!Clear, Drawing!DecCount
<1>4. DrawBounds'
  BY <1>2, <1>3, ThreadsAssumption DEF DrawBounds
<1> QED
  BY <1>1, <1>4 DEF DrawInv

\* The two instances count alike.
LEMMA CountedAlike == ASSUME NEW S PROVE Drawing!Cardinality(S) = Batches!Cardinality(S)
  BY Zenon DEF Drawing!Cardinality, Batches!Cardinality

LEMMA DrawHolds ==
  ASSUME DrawInv
  PROVE  Drawing!TypeOK /\ Drawing!BatchWhole /\ Drawing!WorkerExists /\ Drawing!CountExact
<1>1. Batches!BatchWhole /\ Batches!WorkerExists /\ Batches!CountExact
  BY ThreadsAssumption, Batches!Holds DEF DrawInv
<1>2. Drawing!BatchWhole
  BY <1>1 DEF Batches!BatchWhole, Drawing!BatchWhole, Batches!Tasks, Drawing!Tasks,
    Batches!Workers,
    Drawing!Workers, Batches!Busy, Drawing!Busy
<1>3. Drawing!WorkerExists
  BY <1>1 DEF Batches!WorkerExists, Drawing!WorkerExists, Batches!Busy, Drawing!Busy
<1>4. Drawing!CountExact
  <2> DEFINE A == {w \in Drawing!Workers : Drawing!Busy(w)}
             B == {w \in Batches!Workers : Batches!Busy(w)}
  <2>1. Drawing!Workers = Batches!Workers
    BY DEF Batches!Workers, Drawing!Workers
  <2>2. \A w : Drawing!Busy(w) <=> Batches!Busy(w)
    BY DEF Batches!Busy, Drawing!Busy
  <2>3. A = B
    BY <2>1, <2>2
  <2>4. ~ending => running = Batches!Cardinality(B) + forgotten
    BY <1>1 DEF Batches!CountExact
  <2>5. (~ending => running = Drawing!Cardinality(A) + forgotten) => Drawing!CountExact
    BY DEF Drawing!CountExact
  <2> HIDE DEF A, B
  <2> QED
    BY <2>3, <2>4, <2>5, CountedAlike
<1>5. Drawing!TypeOK
  <2> USE DEF DrawInv, Batches!Inv, Batches!Types
  <2>1. /\ number \in Drawing!Tasks /\ size \in 0 .. MaxThreads - 1
        /\ running \in Int /\ taskNum \in 0 .. MaxThreads /\ taskCount \in 0 .. MaxThreads
        /\ given \in 0 .. MaxThreads /\ forgotten \in Nat
    BY ThreadsAssumption DEF Batches!Amounts, DrawBounds, Batches!Tasks, Drawing!Tasks
  <2>2. /\ main \in {"script", "pool", "retire", "join", "exec", "wait", "ended"}
        /\ ending \in BOOLEAN
    BY DEF Batches!MainPlaces
  <2>3. /\ workerAt \in [Drawing!Workers -> {"test", "wait", "run", "clear", "dec", "gone"}]
        /\ retired \in [Drawing!Workers -> BOOLEAN] /\ runs \in [Drawing!Tasks -> Nat]
    BY DEF Batches!WorkerPlaces, Batches!RunTypes, Batches!Workers, Drawing!Workers, Batches!Tasks,
      Drawing!Tasks
  <2>4. task \in [Drawing!Workers -> 0 .. Drawing!Dummy]
    BY ThreadsAssumption DEF Batches!TaskTypes, Batches!Workers, Drawing!Workers, Batches!Dummy,
      Drawing!Dummy
  <2> QED
    BY <2>1, <2>2, <2>3, <2>4 DEF Drawing!TypeOK
<1> QED
  BY <1>2, <1>3, <1>4, <1>5

-----------------------------------------------------------------------------
(* The program.                                                            *)
\* A step is one of each part, or leaves the part as it is.
LEMMA StepOfPart ==
  ASSUME [PartsNext]_partsVars
  PROVE  /\ [Disk!Next]_(Disk!vars) /\ [Next]_vars /\ [Arguments!Next]_(Arguments!vars)
         /\ [Project!Next]_(Project!vars) /\ [Memory!Next]_(Memory!vars)
         /\ [Libraries!Next]_(Libraries!vars) /\ [Drawing!Next]_(Drawing!vars)
         /\ [Images!Next]_(Images!vars)
         /\ [LimitedLoop!Next \/ FreeLoop!Next]_(LimitedLoop!vars)
<1> USE DEF LoopStays, Below, Above, Threads, loopVars, diskVars, argumentVars, projectVars,
  memoryVars, pluginVars, drawVars, imageVars, vars, Disk!vars, Arguments!vars, Project!vars,
  Memory!vars, Libraries!vars, Drawing!vars, Drawing!mainVars, Drawing!workerVars,
  Images!vars, Images!queueVars, LimitedLoop!vars, LimitedLoop!script
<1>1. CASE LimitedStep
  BY <1>1 DEF LimitedStep
<1>2. CASE UnlimitedStep
  BY <1>2 DEF UnlimitedStep
<1>3. CASE DiskStep
  BY <1>3 DEF DiskStep
<1>4. CASE SearchStep
  BY <1>4 DEF SearchStep
<1>5. CASE ArgumentStep
  BY <1>5 DEF ArgumentStep
<1>6. CASE ProjectStep
  BY <1>6 DEF ProjectStep
<1>7. CASE MemoryStep
  BY <1>7 DEF MemoryStep
<1>8. CASE PluginStep
  BY <1>8 DEF PluginStep
<1>9. CASE DrawStep
  BY <1>9 DEF DrawStep
<1>10. CASE ImageStep
  BY <1>10 DEF ImageStep
<1>11. CASE UNCHANGED partsVars
  BY <1>11 DEF partsVars
<1> QED
  BY <1>1, <1>2, <1>3, <1>4, <1>5, <1>6, <1>7, <1>8, <1>9, <1>10, <1>11 DEF PartsNext

PartsInv ==
  /\ LoopInv /\ DiskInv /\ SearchInv /\ ArgumentInv /\ ProjectInv /\ MemoryInv /\ PluginInv
  /\ DrawInv /\ ImageInv

LEMMA PartsStart == PartsInit => PartsInv
BY LoopStart, DiskStart, SearchStart, ArgumentStart, ProjectStart, MemoryStart, PluginStart,
  DrawStart, ImageStart DEF PartsInit, PartsInv

PartsMoves ==
  /\ DiskMoves \/ UNCHANGED Disk!vars
  /\ ArgumentMoves /\ ImageMoves

LEMMA PartsStay == PartsInv /\ [PartsNext]_partsVars => PartsInv' /\ PartsMoves
<1> SUFFICES ASSUME PartsInv, [PartsNext]_partsVars PROVE PartsInv' /\ PartsMoves
  OBVIOUS
<1>1. LoopInv'
  BY StepOfPart, LoopKeeps DEF PartsInv
<1>2. DiskInv' /\ (DiskMoves \/ UNCHANGED Disk!vars)
  BY StepOfPart, DiskStays DEF PartsInv
<1>3. SearchInv'
  BY StepOfPart, SearchStays DEF PartsInv
<1>4. ArgumentInv' /\ ArgumentMoves
  BY StepOfPart, ArgumentStays DEF PartsInv
<1>5. ProjectInv'
  BY StepOfPart, ProjectStays DEF PartsInv
<1>6. MemoryInv'
  BY StepOfPart, MemoryStays DEF PartsInv
<1>7. PluginInv'
  BY StepOfPart, PluginStays DEF PartsInv
<1>8. DrawInv'
  BY StepOfPart, DrawStays DEF PartsInv
<1>9. ImageInv' /\ ImageMoves
  BY StepOfPart, ImageStays DEF PartsInv
<1> QED
  BY <1>1, <1>2, <1>3, <1>4, <1>5, <1>6, <1>7, <1>8, <1>9 DEF PartsInv, PartsMoves

LEMMA PartsAlways == PartsSpec => []PartsInv
BY PartsStart, PartsStay, PTL DEF PartsSpec

\* The variables of every part keep their types (PartsTypeOK), for any sizes
\* of queues, any names, lines and machines.
THEOREM PartsTyped == PartsSpec => []PartsTypeOK
<1>1. PartsInv => PartsTypeOK
  BY LoopHolds, DiskHolds, SearchHolds, ArgumentsHold, ProjectHolds, MemoryHolds, PluginHolds,
    DrawHolds, ImagesHold DEF PartsInv, PartsTypeOK
<1> QED
  BY <1>1, PartsAlways, PTL

\* The program agrees with its surroundings (SurroundingsAgree): a file that
\* was written is found again in any tree of folders and any case of names; a
\* reader of arguments that looks at the generation only never keeps a value
\* that was replaced; the scripts are those beside the program, the first of
\* them, else where the names on the line lead, and the start fails for a
\* missing name exactly when it is taken; caches fit any memory; and plugins
\* are loaded once, as listed.
THEOREM SurroundingsStayAgreed == PartsSpec => []SurroundingsAgree
<1>1. PartsInv => SurroundingsAgree
  BY DiskHolds, ArgumentsHold, ProjectHolds, MemoryHolds, PluginHolds
    DEF PartsInv, SurroundingsAgree
<1> QED
  BY <1>1, PartsAlways, PTL

\* The threads that draw and load images lose nothing (WorkersAgree): a batch
\* is done when it ends, for any number of threads, and every image that was
\* asked for is in one queue or in the hands of the loader, which never sleeps
\* while there is something to do.
THEOREM WorkersStayAgreed == PartsSpec => []WorkersAgree
<1>1. PartsInv => WorkersAgree
  BY DrawHolds, ImagesHold DEF PartsInv, WorkersAgree
<1> QED
  BY <1>1, PartsAlways, PTL

\* A step changes what it is meant to (OthersUntouched): no file or folder is
\* made beside one of the same name in the other case, setting an argument
\* changes what one reader gets at most, and images are answered in order.
THEOREM OthersStayUntouched == PartsSpec => OthersUntouched
<1>1. PartsInv /\ [PartsNext]_partsVars => [DiskMoves]_(Disk!vars)
  BY PartsStay DEF PartsMoves
<1>2. PartsInv /\ [PartsNext]_partsVars => [ArgumentMoves]_(Arguments!vars)
  BY PartsStay DEF PartsMoves
<1>3. PartsInv /\ [PartsNext]_partsVars => [ImageMoves]_(Images!vars)
  BY PartsStay DEF PartsMoves
<1>4. PartsSpec => [][DiskMoves]_(Disk!vars) /\ [][ArgumentMoves]_(Arguments!vars)
                   /\ [][ImageMoves]_(Images!vars)
  BY <1>1, <1>2, <1>3, PartsAlways, PTL DEF PartsSpec
<1>5. [][DiskMoves]_(Disk!vars) => Disk!NoTwinMade
  BY DEF DiskMoves, Disk!NoTwinMade
<1>6. [][ArgumentMoves]_(Arguments!vars) => Arguments!OthersUntouched
  BY DEF ArgumentMoves, Arguments!OthersUntouched
<1>7. [][ImageMoves]_(Images!vars) => Images!InOrder
  BY DEF ImageMoves, Images!InOrder
<1> QED
  BY <1>4, <1>5, <1>6, <1>7 DEF OthersUntouched
=============================================================================
