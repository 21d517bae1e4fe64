---------------------------- MODULE WindowProofs ----------------------------
(***************************************************************************)
(* What holds of the windows of the SDL2 build for every value of the      *)
(* constants: any windows, texts, keys, sizes and rows that the named      *)
(* assumptions of WindowParts admit.  One section for each part with its   *)
(* inductive invariant, and the theorems about all of them at the end.     *)
(* Where a proof counts, it takes a least counterexample in the order of   *)
(* the naturals, which is well-founded (EarlierWellFounded).               *)
(***************************************************************************)
EXTENDS WindowParts, SequenceTheorems, FiniteSetTheorems, NaturalsInduction,
        WellFoundedInduction, TLAPS

-----------------------------------------------------------------------------
(***************************************************************************)
(* The picture.                                                            *)
(***************************************************************************)
\* The surface is as wide as the layer and shows what is not to be drawn; the
\* texture shows the surface but for what the rectangle covers, which starts
\* at the origin for ever.
PictureInv ==
  /\ Picture!TypeOK
  /\ Len(surface) = Len(primary) /\ Len(texture) = Len(primary)
  /\ region \subseteq 1 .. Len(primary) /\ left = 0
  /\ \A i \in 1 .. Len(primary) : i \notin region => surface[i] = primary[i]
  /\ \A i \in 1 .. Len(primary) : texture[i] # surface[i]
     => i \in region \/ (toPresent = TRUE /\ i <= right)

\* A row of n colours is one of the rows.
LEMMA RowsAre ==
  ASSUME NEW n \in 0 .. MaxWidth, NEW q \in [1 .. n -> Colours]
  PROVE  q \in Picture!Rows /\ Len(q) = n /\ q \in Seq(Colours)
BY PictureAssumption DEF Picture!Rows

\* A row has at most the greatest width.
LEMMA RowIs ==
  ASSUME NEW q \in Picture!Rows
  PROVE  Len(q) \in 0 .. MaxWidth /\ q \in [1 .. Len(q) -> Colours] /\ DOMAIN q = 1 .. Len(q)
<1>1. PICK n \in 0 .. MaxWidth : q \in [1 .. n -> Colours]
  BY DEF Picture!Rows
<1> QED
  BY <1>1, RowsAre

\* A blank row has its width.
LEMMA BlankRow ==
  ASSUME NEW n \in 0 .. MaxWidth PROVE Picture!Blank(n) \in [1 .. n -> Colours]
BY PictureAssumption DEF Picture!Blank

\* There is nothing to draw at first.
LEMMA PictureStart == ASSUME Picture!Init PROVE PictureInv
<1>1. <<>> \in [1 .. 0 -> Colours] /\ 0 \in 0 .. MaxWidth
  BY PictureAssumption
<1>2. <<>> \in Picture!Rows /\ Len(<<>>) = 0
  BY <1>1, RowsAre
<1>3. toPresent \in BOOLEAN
  BY DEF Picture!Init
<1>4. Picture!TypeOK
  BY <1>2, <1>3, PictureAssumption DEF Picture!Init, Picture!TypeOK
<1> QED
  BY <1>2, <1>4 DEF Picture!Init, PictureInv

\* The greater of two widths.
LEMMA Wider ==
  ASSUME NEW m \in Nat, NEW n \in Nat
  PROVE  Picture!Max({m, n}) \in {m, n} /\ Picture!Max({m, n}) >= m /\ Picture!Max({m, n}) >= n
<1>1. \E x \in {m, n} : \A y \in {m, n} : x >= y
  <2>1. m >= n \/ n >= m
    OBVIOUS
  <2> QED
    BY <2>1
<1> QED
  BY <1>1 DEF Picture!Max

\* A piece, a texture update and a new size keep the picture.
LEMMA PictureStays == ASSUME PictureInv, [Picture!Next]_(Picture!vars) PROVE PictureInv'
<1> DEFINE n == Len(primary)
<1>0. /\ Picture!TypeOK /\ n \in 0 .. MaxWidth /\ MaxWidth \in Nat
      /\ primary \in [1 .. n -> Colours] /\ surface \in [1 .. n -> Colours]
         /\ texture \in [1 .. n -> Colours]
      /\ Len(surface) = n /\ Len(texture) = n
      /\ region \subseteq 1 .. n /\ left = 0 /\ right \in 0 .. MaxWidth
      /\ \A i \in 1 .. n : i \notin region => surface[i] = primary[i]
      /\ \A i \in 1 .. n : texture[i] # surface[i]
                            => i \in region \/ (toPresent = TRUE /\ i <= right)
  BY RowIs, PictureAssumption DEF PictureInv, Picture!TypeOK
<1> HIDE DEF n
<1>1. CASE UNCHANGED Picture!vars
  BY <1>1 DEF PictureInv, Picture!vars, Picture!TypeOK
<1>2. ASSUME NEW i \in 1 .. MaxWidth, NEW c \in Colours, Picture!Draw(i, c) PROVE PictureInv'
  <2>1. /\ i \in 1 .. n /\ primary' = [primary EXCEPT ![i] = c] /\ region' = region \cup {i}
        /\ UNCHANGED <<surface, left, right, toPresent, texture>>
    BY <1>0, <1>2 DEF Picture!Draw
  <2>2. primary' \in [1 .. n -> Colours]
    BY <1>0, <2>1
  <2>3. primary' \in Picture!Rows /\ Len(primary') = n
    BY <1>0, <2>2, RowsAre
  <2>4. Picture!TypeOK'
    BY <1>0, <2>1, <2>3 DEF Picture!TypeOK
  <2> QED
    BY <1>0, <2>1, <2>3, <2>4 DEF PictureInv
<1>3. ASSUME NEW m \in 1 .. MaxWidth, Picture!SetPaintBoxSize(m) PROVE PictureInv'
  <2>1. /\ primary' = [i \in 1 .. m |-> IF i \in DOMAIN primary THEN primary[i]
                                          ELSE Picture!Blank(m)[i]]
        /\ surface' = Picture!Blank(m) /\ texture' = Picture!Blank(m)
        /\ region' = 1 .. m /\ UNCHANGED <<left, right, toPresent>>
    BY <1>3 DEF Picture!SetPaintBoxSize
  <2>2. Picture!Blank(m) \in [1 .. m -> Colours] /\ m \in 0 .. MaxWidth
    BY <1>0, BlankRow
  <2>3. primary' \in [1 .. m -> Colours]
    BY <1>0, <2>1, <2>2
  <2>4. /\ primary' \in Picture!Rows /\ Len(primary') = m
        /\ Picture!Blank(m) \in Picture!Rows /\ Len(Picture!Blank(m)) = m
    BY <2>2, <2>3, RowsAre
  <2>5. Picture!TypeOK'
    BY <1>0, <2>1, <2>2, <2>4 DEF Picture!TypeOK
  <2> QED
    BY <1>0, <2>1, <2>2, <2>4, <2>5 DEF PictureInv
<1>4. ASSUME NEW x \in 0 .. MaxWidth, NEW w \in 0 .. MaxWidth, Picture!BitmapCompleted(x, w)
      PROVE  PictureInv'
  <2>1. /\ w > 0 /\ x + w <= n /\ x + 1 .. x + w \subseteq region
        /\ surface' = [i \in 1 .. n |-> IF i \in x + 1 .. x + w THEN primary[i] ELSE surface[i]]
        /\ left' = 0 /\ right' = Picture!Max({right, x + w})
        /\ region' = region \ (x + 1 .. x + w) /\ toPresent' = TRUE
        /\ UNCHANGED <<primary, texture>>
    BY <1>0, <1>4 DEF Picture!BitmapCompleted, Picture!Fits, Picture!Joined, n
  <2>2. surface' \in [1 .. n -> Colours]
    BY <1>0, <2>1
  <2>3. surface' \in Picture!Rows /\ Len(surface') = n
    BY <1>0, <2>2, RowsAre
  <2>4. right' \in 0 .. MaxWidth /\ right' >= right /\ right' >= x + w
    BY <1>0, <2>1, Wider
  <2>5. Picture!TypeOK'
    BY <1>0, <2>1, <2>3, <2>4 DEF Picture!TypeOK
  <2>6. \A i \in 1 .. n : i \notin region' => surface'[i] = primary'[i]
    BY <1>0, <2>1
  <2>7. \A i \in 1 .. n : texture'[i] # surface'[i]
                           => i \in region' \/ (toPresent' = TRUE /\ i <= right')
    BY <1>0, <2>1, <2>4
  <2> QED
    BY <1>0, <2>1, <2>3, <2>5, <2>6, <2>7 DEF PictureInv, n
<1>5. CASE Picture!TickBeat
  <2> DEFINE w == Picture!ClippedWidth
  <2>1. /\ toPresent' = FALSE
        /\ texture' = [i \in 1 .. n |-> IF i \in 1 .. w THEN surface[i] ELSE texture[i]]
        /\ UNCHANGED <<primary, region, surface, left, right>>
    <3>1. texture' = [i \in DOMAIN texture |->
                      IF i \in left + 1 .. left + w THEN surface[i - left] ELSE texture[i]]
      BY <1>5 DEF Picture!TickBeat
    <3>2. w \in Nat
      BY <1>0 DEF Picture!ClippedWidth
    <3> HIDE DEF w
    <3> QED
      BY <1>0, <1>5, <3>1, <3>2 DEF Picture!TickBeat
  <2>2. w \in 0 .. n /\ \A i \in 1 .. n : i <= right => i <= w
    BY <1>0 DEF Picture!ClippedWidth
  <2> HIDE DEF w
  <2>3. texture' \in [1 .. n -> Colours]
    BY <1>0, <2>1, <2>2
  <2>4. texture' \in Picture!Rows /\ Len(texture') = n
    BY <1>0, <2>3, RowsAre
  <2>5. Picture!TypeOK'
    BY <1>0, <2>1, <2>4 DEF Picture!TypeOK
  <2>6. \A i \in 1 .. n : texture'[i] # surface'[i] => i \in region'
    BY <1>0, <2>1, <2>2
  <2> QED
    BY <1>0, <2>1, <2>4, <2>5, <2>6 DEF PictureInv, n
<1> QED
  BY <1>1, <1>2, <1>3, <1>4, <1>5 DEF Picture!Next

\* With nothing left to draw, the texture is the layer.
LEMMA PictureHolds == ASSUME PictureInv PROVE Picture!TypeOK /\ Picture!ShowsLayer
<1>1. SUFFICES ASSUME region = {}, toPresent = FALSE PROVE texture = primary
  BY DEF PictureInv, Picture!TypeOK, Picture!ShowsLayer
<1>2. texture \in [1 .. Len(primary) -> Colours] /\ primary \in [1 .. Len(primary) -> Colours]
  BY RowIs DEF PictureInv, Picture!TypeOK
<1>3. \A i \in 1 .. Len(primary) : texture[i] = primary[i]
  BY <1>1 DEF PictureInv
<1> QED
  BY <1>2, <1>3

-----------------------------------------------------------------------------
(***************************************************************************)
(* Keys, buttons and pads.                                                 *)
(***************************************************************************)
\* What the script was told is held, or its last event was dropped.
KeyInv == Keyboard!TypeOK /\ Keyboard!ToldWhatIsHeld /\ Keyboard!NoneStuck

\* The keys of the tables, the names the script has for them, and those of
\* both sides of a key.
SidedKeys == {"a", "LSHIFT", "RSHIFT", "LCTRL", "RCTRL", "LALT", "RALT"}
SidedNames == {"A", "LSHIFT", "RSHIFT", "LCONTROL", "RCONTROL", "LMENU", "RMENU"}
Sideless == {"SHIFT", "CONTROL", "MENU"}

\* The two tables are inverse to each other on the keys of the user.
LEMMA KeyTables ==
  /\ Keys \subseteq SidedKeys
  /\ DOMAIN Keyboard!Unified = Sideless
  /\ \A k \in SidedKeys : Keyboard!VkOf[k] \in SidedNames /\ Keyboard!SdlOf[Keyboard!VkOf[k]] = k
  /\ Keyboard!Unified["SHIFT"] = {"LSHIFT", "RSHIFT"}
  /\ Keyboard!Unified["CONTROL"] = {"LCTRL", "RCTRL"}
  /\ Keyboard!Unified["MENU"] = {"LALT", "RALT"}
  /\ Keyboard!SdlOf["RCONTROL"] = "RCTRL"
<1>1. Keys \subseteq SidedKeys
  BY KeysAssumption DEF Keyboard!VkOf, SidedKeys
<1>2. DOMAIN Keyboard!Unified = Sideless
  BY DEF Keyboard!Unified, Sideless
<1>3. ASSUME NEW k \in SidedKeys
      PROVE  Keyboard!VkOf[k] \in SidedNames /\ Keyboard!SdlOf[Keyboard!VkOf[k]] = k
  BY DEF Keyboard!VkOf, Keyboard!SdlOf, SidedKeys, SidedNames
<1>4. /\ Keyboard!Unified["SHIFT"] = {"LSHIFT", "RSHIFT"}
      /\ Keyboard!Unified["CONTROL"] = {"LCTRL", "RCTRL"}
      /\ Keyboard!Unified["MENU"] = {"LALT", "RALT"}
      /\ Keyboard!SdlOf["RCONTROL"] = "RCTRL"
  BY DEF Keyboard!Unified, Keyboard!SdlOf
<1> QED
  BY <1>1, <1>2, <1>3, <1>4

\* No name stands for two things.
LEMMA NamesDiffer ==
  /\ \A k, l \in Keys : Keyboard!VkOf[k] = Keyboard!VkOf[l] => k = l
  /\ \A k \in Keys : Keyboard!VkOf[k] \in SidedNames
  /\ Keys \cap Buttons = {} /\ SidedNames \cap Buttons = {}
  /\ SidedNames \cap Sideless = {} /\ Sideless \cap Buttons = {}
  /\ "PAD1" \notin SidedNames \cup Sideless \cup Buttons
<1>1. \A k, l \in Keys : Keyboard!VkOf[k] = Keyboard!VkOf[l] => k = l
  BY KeyTables
<1>2. \A k \in Keys : Keyboard!VkOf[k] \in SidedNames
  BY KeyTables
<1>3. /\ SidedKeys \cap Buttons = {} /\ SidedNames \cap Buttons = {}
      /\ SidedNames \cap Sideless = {} /\ Sideless \cap Buttons = {}
      /\ "PAD1" \notin SidedNames \cup Sideless \cup Buttons
  BY KeysAssumption DEF SidedKeys, SidedNames, Sideless
<1>4. Keys \cap Buttons = {}
  BY <1>3, KeyTables
<1> QED
  BY <1>1, <1>2, <1>3, <1>4

\* The states the script may ask for.
LEMMA StatesAre ==
  /\ \A u \in Sideless : Keyboard!AsyncState(u) <=> held \cap Keyboard!Unified[u] # {}
  /\ Keyboard!AsyncState("PAD1") <=> padHeld # {}
  /\ \A b \in Buttons : Keyboard!AsyncState(b) <=> b \in mouse
  /\ \A v \in SidedNames : Keyboard!AsyncState(v) <=> Keyboard!SdlOf[v] \in held
<1>1. ASSUME NEW u \in Sideless
      PROVE  Keyboard!AsyncState(u) <=> held \cap Keyboard!Unified[u] # {}
  <2>1. u \notin Buttons /\ u # "PAD1" /\ u \in DOMAIN Keyboard!Unified
    BY NamesDiffer, KeyTables
  <2> QED
    BY <2>1 DEF Keyboard!AsyncState
<1>2. Keyboard!AsyncState("PAD1") <=> padHeld # {}
  BY NamesDiffer, KeyTables DEF Keyboard!AsyncState
<1>3. ASSUME NEW b \in Buttons PROVE Keyboard!AsyncState(b) <=> b \in mouse
  <2>1. b # "PAD1" /\ b \notin DOMAIN Keyboard!Unified
    BY NamesDiffer, KeyTables
  <2> QED
    BY <2>1 DEF Keyboard!AsyncState
<1>4. ASSUME NEW v \in SidedNames
      PROVE  Keyboard!AsyncState(v) <=> Keyboard!SdlOf[v] \in held
  <2>1. v \notin Buttons /\ v # "PAD1" /\ v \notin DOMAIN Keyboard!Unified
    BY NamesDiffer, KeyTables
  <2> QED
    BY <2>1 DEF Keyboard!AsyncState
<1> QED
  BY <1>1, <1>2, <1>3, <1>4

\* NoneStuck without the states.
Explained ==
  /\ \A u \in Sideless \cap told : (held \cup missed) \cap Keyboard!Unified[u] # {}
  /\ "PAD1" \in told => padHeld # {}

\* What stays down is what is held, opened or was missed.
LEMMA StuckIs == Keyboard!NoneStuck <=> Explained
<1>1. "PAD1" \notin DOMAIN Keyboard!Unified /\ DOMAIN Keyboard!Unified = Sideless
  BY KeyTables, NamesDiffer
<1> QED
  BY <1>1, StatesAre DEF Keyboard!NoneStuck, Explained

\* Nothing is held at first.
LEMMA KeyStart == ASSUME Keyboard!Init PROVE KeyInv
<1>1. Keyboard!TypeOK
  BY DEF Keyboard!Init, Keyboard!TypeOK
<1>2. Keyboard!ToldWhatIsHeld /\ Explained
  BY DEF Keyboard!Init, Keyboard!ToldWhatIsHeld, Explained
<1> QED
  BY <1>1, <1>2, StuckIs DEF KeyInv

\* Every event keeps what was told and what is held in agreement.
LEMMA KeyStays == ASSUME KeyInv, [Keyboard!Next]_(Keyboard!vars) PROVE KeyInv'
<1>u. /\ Keyboard!TypeOK /\ Keyboard!ToldWhatIsHeld /\ Explained
  BY StuckIs DEF KeyInv
<1>s. Keyboard!NoneStuck' <=> Explained'
  BY StuckIs, PTL
<1> USE <1>u DEF Keyboard!TypeOK
<1> SUFFICES Keyboard!TypeOK' /\ Keyboard!ToldWhatIsHeld' /\ Explained'
  BY <1>s DEF KeyInv
<1>1. ASSUME NEW k \in Keys, Keyboard!KeyDown(k) \/ Keyboard!KeyUp(k)
      PROVE  Keyboard!TypeOK' /\ Keyboard!ToldWhatIsHeld' /\ Explained'
  <2>1. /\ mouse' = mouse /\ opened' = opened /\ padHeld' = padHeld
        /\ imeActive' = imeActive /\ imeComposing' = imeComposing
    BY <1>1 DEF Keyboard!KeyDown, Keyboard!KeyUp
  <2>2. /\ Keyboard!VkOf[k] \in SidedNames
        /\ Keyboard!UnifiedOf(k) = {u \in Sideless : k \in Keyboard!Unified[u]}
    BY NamesDiffer, KeyTables DEF Keyboard!UnifiedOf
  <2>3. CASE Keyboard!Dropping
    <3>1. /\ told' = told /\ missed' = missed \cup {k}
          /\ held' \subseteq Keys /\ held' \ {k} = held \ {k}
      BY <1>1, <2>3 DEF Keyboard!KeyDown, Keyboard!KeyUp
    <3>2. Keyboard!TypeOK'
      BY <2>1, <3>1
    <3>3. Keyboard!ToldWhatIsHeld'
      BY <2>1, <3>1 DEF Keyboard!ToldWhatIsHeld
    <3>4. held' \cup missed' = held \cup missed \cup {k}
      BY <3>1
    <3>5. Explained'
      BY <2>1, <3>1, <3>4 DEF Explained
    <3> QED
      BY <3>2, <3>3, <3>5
  <2>4. CASE ~Keyboard!Dropping /\ Keyboard!KeyDown(k)
    <3>1. /\ told' = told \cup Keyboard!Names(k) /\ missed' = missed \ {k}
          /\ held' = held \cup {k}
      BY <2>4 DEF Keyboard!KeyDown
    <3>2. Keyboard!TypeOK'
      BY <2>1, <3>1
    <3>3. Keyboard!ToldWhatIsHeld'
      <4>1. ASSUME NEW l \in Keys \ missed' PROVE Keyboard!VkOf[l] \in told' <=> l \in held'
        BY <2>2, <3>1, NamesDiffer DEF Keyboard!ToldWhatIsHeld, Keyboard!Names
      <4>2. ASSUME NEW b \in Buttons \ missed' PROVE b \in told' <=> b \in mouse'
        BY <2>1, <2>2, <3>1, NamesDiffer DEF Keyboard!ToldWhatIsHeld, Keyboard!Names
      <4> QED
        BY <4>1, <4>2 DEF Keyboard!ToldWhatIsHeld
    <3>4. ASSUME NEW u \in Sideless \cap told'
          PROVE  (held' \cup missed') \cap Keyboard!Unified[u] # {}
      BY <2>2, <3>1, NamesDiffer DEF Explained, Keyboard!Names
    <3>5. "PAD1" \in told' => padHeld' # {}
      BY <2>1, <2>2, <3>1, NamesDiffer DEF Explained, Keyboard!Names
    <3> QED
      BY <3>2, <3>3, <3>4, <3>5 DEF Explained
  <2>5. CASE ~Keyboard!Dropping /\ Keyboard!KeyUp(k)
    <3>1. /\ told' = told \ Keyboard!Names(k) /\ missed' = missed \ {k}
          /\ held' = held \ {k}
      BY <2>5 DEF Keyboard!KeyUp, Keyboard!UpNames
    <3>2. Keyboard!TypeOK'
      BY <2>1, <3>1
    <3>3. Keyboard!ToldWhatIsHeld'
      <4>1. ASSUME NEW l \in Keys \ missed' PROVE Keyboard!VkOf[l] \in told' <=> l \in held'
        BY <2>2, <3>1, NamesDiffer DEF Keyboard!ToldWhatIsHeld, Keyboard!Names
      <4>2. ASSUME NEW b \in Buttons \ missed' PROVE b \in told' <=> b \in mouse'
        BY <2>1, <2>2, <3>1, NamesDiffer DEF Keyboard!ToldWhatIsHeld, Keyboard!Names
      <4> QED
        BY <4>1, <4>2 DEF Keyboard!ToldWhatIsHeld
    <3>4. ASSUME NEW u \in Sideless \cap told'
          PROVE  (held' \cup missed') \cap Keyboard!Unified[u] # {}
      BY <2>2, <3>1, NamesDiffer DEF Explained, Keyboard!Names
    <3>5. "PAD1" \in told' => padHeld' # {}
      BY <2>1, <2>2, <3>1, NamesDiffer DEF Explained, Keyboard!Names
    <3> QED
      BY <3>2, <3>3, <3>4, <3>5 DEF Explained
  <2> QED
    BY <1>1, <2>3, <2>4, <2>5
<1>2. ASSUME NEW b \in Buttons, Keyboard!ButtonDown(b) \/ Keyboard!ButtonUp(b)
      PROVE  Keyboard!TypeOK' /\ Keyboard!ToldWhatIsHeld' /\ Explained'
  <2>1. /\ held' = held /\ opened' = opened /\ padHeld' = padHeld
        /\ imeActive' = imeActive /\ imeComposing' = imeComposing
    BY <1>2 DEF Keyboard!ButtonDown, Keyboard!ButtonUp
  <2>2. /\ told' \ {b} = told \ {b} /\ missed' \ {b} = missed \ {b} /\ mouse' \ {b} = mouse \ {b}
        /\ b \in missed' \/ (b \in told' <=> b \in mouse')
        /\ mouse' \subseteq Buttons
    BY <1>2 DEF Keyboard!ButtonDown, Keyboard!ButtonUp
  <2>3. b \notin Keys /\ b \notin SidedNames /\ b \notin Sideless /\ b # "PAD1"
    BY NamesDiffer
  <2>4. Keyboard!TypeOK'
    BY <2>1, <2>2
  <2>5. Keyboard!ToldWhatIsHeld'
    <3>1. ASSUME NEW l \in Keys \ missed' PROVE Keyboard!VkOf[l] \in told' <=> l \in held'
      BY <2>1, <2>2, <2>3, NamesDiffer DEF Keyboard!ToldWhatIsHeld
    <3>2. ASSUME NEW c \in Buttons \ missed' PROVE c \in told' <=> c \in mouse'
      BY <2>1, <2>2 DEF Keyboard!ToldWhatIsHeld
    <3> QED
      BY <3>1, <3>2 DEF Keyboard!ToldWhatIsHeld
  <2>6. ASSUME NEW u \in Sideless \cap told'
        PROVE  (held' \cup missed') \cap Keyboard!Unified[u] # {}
    <3>1. u \in told
      BY <2>2, <2>3
    <3>2. b \notin Keyboard!Unified[u]
      <4>1. Keyboard!Unified[u] \subseteq SidedKeys
        BY KeyTables DEF Sideless, SidedKeys
      <4>2. b \notin SidedKeys
        BY KeysAssumption DEF SidedKeys
      <4> QED
        BY <4>1, <4>2
    <3> QED
      BY <2>1, <2>2, <3>1, <3>2 DEF Explained
  <2>7. "PAD1" \in told' => padHeld' # {}
    BY <2>1, <2>2, <2>3 DEF Explained
  <2> QED
    BY <2>4, <2>5, <2>6, <2>7 DEF Explained
<1>3. ASSUME NEW c \in Controllers, Keyboard!PadDown(c) \/ Keyboard!PadUp(c)
      PROVE  Keyboard!TypeOK' /\ Keyboard!ToldWhatIsHeld' /\ Explained'
  <2>1. /\ held' = held /\ mouse' = mouse /\ opened' = opened /\ missed' = missed
        /\ imeActive' = imeActive /\ imeComposing' = imeComposing
        /\ told' \ {"PAD1"} = told \ {"PAD1"} /\ padHeld' \subseteq opened
        /\ "PAD1" \in told' => padHeld' # {}
    BY <1>3 DEF Keyboard!PadDown, Keyboard!PadUp
  <2>2. Keyboard!TypeOK'
    BY <2>1
  <2>3. Keyboard!ToldWhatIsHeld'
    BY <2>1, NamesDiffer DEF Keyboard!ToldWhatIsHeld
  <2>4. Explained'
    BY <2>1, NamesDiffer DEF Explained
  <2> QED
    BY <2>2, <2>3, <2>4
<1>4. ASSUME NEW now \in SUBSET Controllers, Keyboard!RefreshControllers(now)
      PROVE  Keyboard!TypeOK' /\ Keyboard!ToldWhatIsHeld' /\ Explained'
  BY <1>4 DEF Keyboard!RefreshControllers, Keyboard!ToldWhatIsHeld, Explained
<1>5. ASSUME NEW a \in BOOLEAN, NEW c \in BOOLEAN, Keyboard!SetIme(a, c)
      PROVE  Keyboard!TypeOK' /\ Keyboard!ToldWhatIsHeld' /\ Explained'
  <2>1. /\ UNCHANGED <<held, mouse, opened, padHeld, told, missed>>
        /\ imeActive' = a /\ imeComposing' = c
    BY <1>5 DEF Keyboard!SetIme, Keyboard!deviceVars
  <2>2. imeActive' \in BOOLEAN /\ imeComposing' \in BOOLEAN
    BY <2>1, Zenon
  <2>3. Keyboard!TypeOK'
    BY <2>1, <2>2
  <2> QED
    BY <2>1, <2>3 DEF Keyboard!ToldWhatIsHeld, Explained
<1>6. CASE UNCHANGED Keyboard!vars
  BY <1>6 DEF Keyboard!vars, Keyboard!deviceVars, Keyboard!ToldWhatIsHeld, Explained
<1> QED
  BY <1>1, <1>2, <1>3, <1>4, <1>5, <1>6 DEF Keyboard!Next

\* What is asked is what was told, and so are the flags.
LEMMA KeysHold ==
  ASSUME KeyInv
  PROVE  /\ Keyboard!TypeOK /\ Keyboard!ToldWhatIsHeld /\ Keyboard!NoneStuck
         /\ Keyboard!AskedAsTold /\ Keyboard!FlagsAgree
<1>1. Keyboard!AskedAsTold
  BY StatesAre, KeyTables, NamesDiffer DEF KeyInv, Keyboard!AskedAsTold, Keyboard!ToldWhatIsHeld
<1>2. Keyboard!FlagsAgree
  <2> SUFFICES ASSUME "RCTRL" \notin held
               PROVE  Keyboard!CurrentFlags = Keyboard!EventFlags \ {"XBUTTON1", "XBUTTON2"}
    BY DEF Keyboard!FlagsAgree
  <2>1. ~Keyboard!AsyncState("RCONTROL")
    BY StatesAre, KeyTables DEF SidedNames
  <2>2. /\ "XBUTTON1" \notin Sideless /\ "XBUTTON2" \notin Sideless
        /\ Buttons \ {"XBUTTON1", "XBUTTON2"} = Buttons \cap {"LBUTTON", "RBUTTON", "MBUTTON"}
    BY KeysAssumption DEF Sideless
  <2> QED
    BY <2>1, <2>2 DEF Keyboard!CurrentFlags, Keyboard!EventFlags, Sideless
<1> QED
  BY <1>1, <1>2 DEF KeyInv

-----------------------------------------------------------------------------
(***************************************************************************)
(* The size of the picture.                                                *)
(***************************************************************************)
\* The sizes in pixels.
Positive == Nat \ {0}

\* The order of the naturals.
Earlier == {p \in Nat \X Nat : p[1] < p[2]}

\* Every set of numbers has a least one.
LEMMA EarlierWellFounded == IsWellFoundedOn(Earlier, Nat)
<1>1. Earlier = OpToRel(<, Nat)
  BY Zenon DEF Earlier, OpToRel
<1> QED
  BY <1>1, NatLessThanWellFounded

\* A set of numbers with a bound has a greatest one.
LEMMA GreatestIs ==
  ASSUME NEW n \in Nat, NEW S \in SUBSET (0 .. n), S # {}
  PROVE  \E x \in S : \A y \in S : x >= y
<1> DEFINE T == {n - x : x \in S}
<1>1. T \subseteq Nat /\ T # {}
  <2>1. \A x \in S : n - x \in Nat
    OBVIOUS
  <2>2. PICK x \in S : TRUE
    OBVIOUS
  <2>3. n - x \in T
    BY <2>2
  <2> QED
    BY <2>1, <2>3
<1>2. PICK m \in T : \A y \in T : <<y, m>> \notin Earlier
  <2> HIDE DEF T
  <2> QED
    BY <1>1, EarlierWellFounded, WFMin
<1>3. PICK x \in S : m = n - x
  OBVIOUS
<1>4. ASSUME NEW y \in S PROVE x >= y
  <2>1. n - y \in T /\ n - y \in Nat /\ m \in Nat
    BY <1>1
  <2>2. ~(n - y < m)
    BY <1>2, <2>1 DEF Earlier
  <2> QED
    BY <1>3, <2>2
<1> QED
  BY <1>4

\* The greater of two numbers is one of them.
LEMMA Greater ==
  ASSUME NEW m \in Int, NEW n \in Int
  PROVE  Size!Max({m, n}) \in {m, n} /\ Size!Max({m, n}) >= m /\ Size!Max({m, n}) >= n
<1>1. \E x \in {m, n} : \A y \in {m, n} : x >= y
  <2>1. m >= n \/ n >= m
    OBVIOUS
  <2> QED
    BY <2>1
<1> QED
  BY <1>1 DEF Size!Max

\* Division rounds down.
LEMMA DivIs ==
  ASSUME NEW a \in Nat, NEW b \in Nat, b > 0
  PROVE  a \div b \in Nat /\ b * (a \div b) <= a /\ a < b * (a \div b) + b
OBVIOUS

\* A quotient below a bound.
LEMMA DivLess ==
  ASSUME NEW a \in Nat, NEW b \in Nat, b > 0, NEW c \in Nat, a < b * c
  PROVE  a \div b < c
<1> DEFINE q == a \div b
<1>1. q \in Nat /\ b * q <= a
  BY DivIs
<1> HIDE DEF q
<1>2. ASSUME q >= c PROVE FALSE
  <2>1. b * q >= b * c
    BY <1>1, <1>2
  <2> QED
    BY <1>1, <2>1
<1> QED
  BY <1>1, <1>2 DEF q

\* Division of a multiple.
LEMMA DivExact ==
  ASSUME NEW c \in Nat, NEW b \in Nat, b > 0
  PROVE  (b * c) \div b = c
<1> DEFINE q == (b * c) \div b
<1>1. q \in Nat /\ b * q <= b * c /\ b * c < b * q + b
  BY DivIs
<1> HIDE DEF q
<1>2. ASSUME q > c PROVE FALSE
  <2>1. b * q >= b * (c + 1)
    BY <1>1, <1>2
  <2>2. b * (c + 1) = b * c + b
    OBVIOUS
  <2> QED
    BY <1>1, <2>1, <2>2
<1>3. ASSUME q < c PROVE FALSE
  <2>1. b * c >= b * (q + 1)
    BY <1>1, <1>3
  <2>2. b * (q + 1) = b * q + b
    BY <1>1
  <2> QED
    BY <1>1, <2>1, <2>2
<1> QED
  BY <1>1, <1>2, <1>3 DEF q

\* Reducing keeps the ratio.
LEMMA ReducedIs ==
  ASSUME NEW n \in Positive, NEW d \in Positive
  PROVE  \E a, p, q \in Positive : n = a * p /\ d = a * q /\ Size!Reduced(n, d) = <<p, q>>
<1> USE DEF Positive
<1> DEFINE S == {k \in 1 .. n : n % k = 0 /\ d % k = 0}
<1> DEFINE a == Size!Max(S)
<1>1. S \subseteq 0 .. n /\ S # {}
  <2>1. n % 1 = 0 /\ d % 1 = 0 /\ 1 \in 1 .. n
    OBVIOUS
  <2> QED
    BY <2>1
<1>2. \E x \in S : \A y \in S : x >= y
  <2> HIDE DEF S
  <2> QED
    BY <1>1, GreatestIs
<1>3. a \in S
  <2> HIDE DEF S
  <2> QED
    BY <1>2 DEF Size!Max
<1>4. a \in Nat /\ a > 0 /\ n % a = 0 /\ d % a = 0
  <2> HIDE DEF a
  <2> QED
    BY <1>3
<1>5. Size!Reduced(n, d) = <<n \div a, d \div a>>
  BY DEF Size!Reduced
<1> DEFINE p == n \div a
           q == d \div a
<1> HIDE DEF a, S
<1>6. n = a * p /\ d = a * q /\ p \in Nat /\ q \in Nat
  BY <1>4
<1> HIDE DEF p, q
<1>7. p # 0 /\ q # 0
  BY <1>4, <1>6
<1>8. Size!Reduced(n, d) = <<p, q>>
  BY <1>5 DEF p, q
<1> QED
  BY <1>4, <1>6, <1>7, <1>8

\* A side the ratio of which is taken fills the output, the other fits.
LEMMA Fits ==
  ASSUME NEW i \in Positive, NEW o \in Positive, NEW j \in Positive, NEW u \in Positive,
         i * u > o * j
  PROVE  LET z == Size!Reduced(o, i)
         IN  /\ Size!MulDiv(i, z[1], z[2]) = o
             /\ Size!MulDiv(j, z[1], z[2]) \in Nat /\ Size!MulDiv(j, z[1], z[2]) < u
<1> USE DEF Positive
<1>1. PICK a, p, q \in Positive : o = a * p /\ i = a * q /\ Size!Reduced(o, i) = <<p, q>>
  BY ReducedIs
<1>2. Size!MulDiv(i, p, q) = (i * p) \div q /\ Size!MulDiv(j, p, q) = (j * p) \div q
  BY DEF Size!MulDiv
<1>3. i * p = q * o
  <2>1. i * p = (a * q) * p /\ q * o = q * (a * p)
    BY <1>1
  <2>2. (a * q) * p = q * (a * p)
    OBVIOUS
  <2> QED
    BY <2>1, <2>2
<1>4. (i * p) \div q = o
  BY <1>3, DivExact
<1>5. j * p < q * u
  <2>1. a * (q * u) > a * (j * p)
    <3>1. i * u = a * (q * u) /\ o * j = a * (j * p)
      <4>1. (a * q) * u = a * (q * u) /\ (a * p) * j = a * (j * p)
        OBVIOUS
      <4> QED
        BY <1>1, <4>1
    <3> QED
      BY <3>1
  <2> DEFINE s == q * u
             t == j * p
  <2>2. s \in Nat /\ t \in Nat
    OBVIOUS
  <2>3. a * s > a * t
    BY <2>1
  <2> HIDE DEF s, t
  <2>4. ASSUME t >= s PROVE FALSE
    <3>1. a * t >= a * s
      BY <2>2, <2>4
    <3> QED
      BY <2>2, <2>3, <3>1
  <2>5. t < s
    BY <2>2, <2>4
  <2> QED
    BY <2>5 DEF s, t
<1>6. j * p \in Nat
  OBVIOUS
<1>7. (j * p) \div q \in Nat /\ (j * p) \div q < u
  BY <1>5, <1>6, DivIs, DivLess
<1> QED
  BY <1>1, <1>2, <1>4, <1>7

\* Width and height.
Sizes == Positive \X Positive

\* The rectangle of a picture of another aspect than the output's.
LEMMA DestFits ==
  ASSUME NEW in \in Sizes, NEW out \in Sizes, in[1] * out[2] # out[1] * in[2]
  PROVE  LET d == Size!DestOf(in, out)
         IN  /\ d \in Size!Rects /\ d.w >= 1 /\ d.h >= 1 /\ d.x >= 0 /\ d.y >= 0
             /\ d.x + d.w <= out[1] /\ d.y + d.h <= out[2] /\ (d.w = out[1] \/ d.h = out[2])
<1> DEFINE z == Size!Zoom(in, out)
           v == Size!MulDiv(in[1], z[1], z[2])
           g == Size!MulDiv(in[2], z[1], z[2])
           w == Size!Max({1, v})
           h == Size!Max({1, g})
           d == [x |-> (out[1] - w) \div 2, y |-> (out[2] - h) \div 2, w |-> w, h |-> h]
<1>0. /\ in[1] \in Positive /\ in[2] \in Positive /\ out[1] \in Positive /\ out[2] \in Positive
      /\ in[1] * out[2] \in Int /\ out[1] * in[2] \in Int
  BY DEF Sizes, Positive
<1>1. Size!DestOf(in, out) = d
  BY DEF Size!DestOf
<1>2. /\ v \in Nat /\ g \in Nat /\ v <= out[1] /\ g <= out[2] /\ (v = out[1] \/ g = out[2])
  <2>1. CASE in[1] * out[2] > out[1] * in[2]
    <3>1. z = Size!Reduced(out[1], in[1])
      BY <2>1 DEF Size!Zoom
    <3>2. v = out[1] /\ g \in Nat /\ g < out[2]
      BY <1>0, <2>1, <3>1, Fits
    <3> QED
      BY <1>0, <3>2 DEF Positive
  <2>2. CASE ~(in[1] * out[2] > out[1] * in[2])
    <3>1. z = Size!Reduced(out[2], in[2])
      BY <2>2 DEF Size!Zoom
    <3>2. in[2] * out[1] > out[2] * in[1]
      <4>1. in[2] * out[1] = out[1] * in[2] /\ out[2] * in[1] = in[1] * out[2]
        BY <1>0 DEF Positive
      <4> HIDE DEF z, v, g
      <4> QED
        BY <1>0, <2>2, <4>1
    <3>3. g = out[2] /\ v \in Nat /\ v < out[1]
      BY <1>0, <3>1, <3>2, Fits
    <3> QED
      BY <1>0, <3>3 DEF Positive
  <2> QED
    BY <2>1, <2>2
<1> HIDE DEF v, g, z
<1>3. /\ w \in Nat /\ h \in Nat /\ w >= 1 /\ h >= 1 /\ w <= out[1] /\ h <= out[2]
      /\ (w = out[1] \/ h = out[2])
  <2>1. w \in {1, v} /\ w >= 1 /\ w >= v
    BY <1>2, Greater
  <2>2. h \in {1, g} /\ h >= 1 /\ h >= g
    BY <1>2, Greater
  <2> HIDE DEF w, h
  <2> QED
    BY <1>0, <1>2, <2>1, <2>2 DEF Positive
<1> HIDE DEF w, h
<1> DEFINE x == (out[1] - w) \div 2
           y == (out[2] - h) \div 2
<1>4. out[1] - w \in Nat /\ out[2] - h \in Nat
  BY <1>0, <1>3 DEF Positive
<1>5. /\ x \in Nat /\ y \in Nat /\ x + w <= out[1] /\ y + h <= out[2]
  BY <1>0, <1>3, <1>4 DEF Positive
<1>6. d = [x |-> x, y |-> y, w |-> w, h |-> h]
  OBVIOUS
<1> HIDE DEF x, y, d
<1>7. d \in Size!Rects /\ d.x = x /\ d.y = y /\ d.w = w /\ d.h = h
  BY <1>3, <1>5, <1>6 DEF Size!Rects
<1> QED
  BY <1>1, <1>3, <1>5, <1>7

\* The rectangle is in the middle of the output.
LEMMA DestIs ==
  ASSUME NEW in \in Sizes, NEW out \in Sizes
  PROVE  /\ Size!DestOf(in, out) \in Size!Rects
         /\ Size!DestOf(in, out).w >= 1 /\ Size!DestOf(in, out).h >= 1
<1>1. CASE in[1] * out[2] # out[1] * in[2]
  BY <1>1, DestFits
<1>2. CASE in[1] * out[2] = out[1] * in[2]
  <2> DEFINE v == Size!MulDiv(in[1], 1, 1)
             g == Size!MulDiv(in[2], 1, 1)
             w == Size!Max({1, v})
             h == Size!Max({1, g})
  <2>0. in[1] \in Nat /\ in[2] \in Nat
    BY DEF Sizes, Positive
  <2>1. Size!Zoom(in, out) = <<1, 1>>
    BY <1>2 DEF Size!Zoom
  <2>2. Size!DestOf(in, out) = [x |-> 0, y |-> 0, w |-> w, h |-> h]
    BY <1>2, <2>1 DEF Size!DestOf
  <2>3. v = (in[1] * 1) \div 1 /\ g = (in[2] * 1) \div 1
    BY <2>0 DEF Size!MulDiv
  <2>4. v \in Nat /\ g \in Nat
    BY <2>0, <2>3
  <2> HIDE DEF v, g
  <2>5. w \in {1, v} /\ w >= 1 /\ h \in {1, g} /\ h >= 1
    <3>1. 1 \in Int /\ v \in Int /\ g \in Int
      BY <2>4
    <3> QED
      BY <3>1, Greater
  <2> HIDE DEF w, h
  <2>6. w \in Nat /\ h \in Nat
    BY <2>4, <2>5
  <2> QED
    BY <2>2, <2>5, <2>6 DEF Size!Rects
<1> QED
  BY <1>1, <1>2

\* Nothing is drawn or shown before the rectangle is known; unless a size is
\* on its way it is that of the present sizes, and what is shown is in it.
SizeInv ==
  /\ Size!TypeOK
  /\ dest = Size!Unset \/ (dest.w >= 1 /\ dest.h >= 1)
  /\ needs = TRUE => layer = TRUE
  /\ presented # Size!Unset => layer = TRUE
  /\ layer = TRUE => dest # Size!Unset
  /\ news = "seen" /\ layer = TRUE => dest = Size!DestOf(inner, Size!Output)
  /\ presented # Size!Unset /\ needs # TRUE => presented = dest

\* Every size is positive on both sides.
LEMMA SizesAre ==
  /\ Inner \cup {<<2, 2>>} \subseteq Sizes /\ WindowSizes \cup Inner \subseteq Sizes
  /\ Desktop \in Sizes
<1>1. <<2, 2>> \in Sizes
  BY DEF Sizes, Positive
<1> QED
  BY <1>1, SizeAssumption DEF Sizes, Positive

\* The output has a size of the window or of the desktop.
LEMMA OutputIs ==
  ASSUME Size!TypeOK PROVE inner \in Sizes /\ Size!Output \in Sizes
BY SizesAre DEF Size!TypeOK, Size!Output

\* The size is not known at first.
LEMMA SizeStart == ASSUME Size!Init PROVE SizeInv
<1>1. Size!Unset \in Size!Rects
  BY DEF Size!Unset, Size!Rects
<1>2. {full, layer, needs} \subseteq BOOLEAN
  BY DEF Size!Init
<1>3. Size!TypeOK
  BY <1>1, <1>2 DEF Size!Init, Size!TypeOK
<1> QED
  BY <1>3 DEF Size!Init, SizeInv

\* The rectangle is set to that of the output.
LEMMA Fitted ==
  ASSUME SizeInv, Size!TypeOK', dest' = Size!DestOf(inner', Size!Output')
  PROVE  dest'.w >= 1 /\ dest'.h >= 1 /\ dest' # Size!Unset
<1>1. inner' \in Sizes /\ Size!Output' \in Sizes
  BY SizesAre DEF Size!TypeOK, Size!Output
<1>2. dest'.w >= 1 /\ dest'.h >= 1
  BY <1>1, DestIs
<1> QED
  BY <1>2 DEF Size!Unset

\* UpdateActualZoom keeps the invariant, whatever the change of size was.
LEMMA Zoomed ==
  ASSUME SizeInv, Size!UpdateActualZoom, Size!TypeOK', UNCHANGED <<layer, presented>>
  PROVE  SizeInv'
<1>1. dest' = Size!DestOf(inner', Size!Output') /\ needs' = Size!Redraws(inner', Size!Output')
  BY DEF Size!UpdateActualZoom
<1>2. dest'.w >= 1 /\ dest'.h >= 1 /\ dest' # Size!Unset
  BY <1>1, Fitted
<1>3. needs' = TRUE => layer' = TRUE
  BY <1>1 DEF Size!Redraws
<1>4. ASSUME layer' = TRUE, needs' # TRUE PROVE needs # TRUE /\ dest' = dest
  BY <1>1, <1>4 DEF Size!Redraws
<1>5. presented' # Size!Unset /\ needs' # TRUE => presented' = dest'
  BY <1>4 DEF SizeInv
<1> QED
  BY <1>1, <1>2, <1>3, <1>5 DEF SizeInv

\* Every step keeps the types.
LEMMA SizeTyped ==
  ASSUME SizeInv, Size!Next PROVE Size!TypeOK'
<1> USE DEF SizeInv
<1>0. /\ inner \in Sizes /\ Size!Output \in Sizes
  BY OutputIs
<1>1. ASSUME NEW in \in Sizes, NEW out \in Sizes PROVE Size!DestOf(in, out) \in Size!Rects
  BY DestIs
<1>2. CASE Size!SetPaintBoxSize
  <2>1. dest' \in Size!Rects
    BY <1>0, <1>1, <1>2 DEF Size!SetPaintBoxSize, Size!Refitted
  <2>2. {full', layer', needs'} \subseteq BOOLEAN
    BY <1>2 DEF Size!SetPaintBoxSize, Size!TypeOK
  <2> QED
    BY <1>2, <2>1, <2>2 DEF Size!SetPaintBoxSize, Size!TypeOK
<1>3. ASSUME Size!UpdateActualZoom, inner' \in Inner \cup {<<2, 2>>},
             windowed' \in WindowSizes \cup Inner, UNCHANGED <<full, layer, presented>>,
             news' \in {"queued", "seen", "dropped"}
      PROVE  Size!TypeOK'
  <2>1. inner' \in Sizes /\ Size!Output' \in Sizes
    BY <1>3, SizesAre DEF Size!Output
  <2>2. dest' \in Size!Rects
    BY <1>1, <1>3, <2>1 DEF Size!UpdateActualZoom
  <2>3. {full', layer', needs'} \subseteq BOOLEAN
    <3>1. needs' \in BOOLEAN
      BY <1>3 DEF Size!UpdateActualZoom, Size!Redraws
    <3> QED
      BY <1>3, <3>1 DEF Size!TypeOK
  <2> QED
    BY <1>3, <2>2, <2>3 DEF Size!TypeOK
<1>4. ASSUME NEW s \in WindowSizes, Size!SetSize(s) PROVE Size!TypeOK'
  BY <1>3, <1>4 DEF Size!SetSize, Size!TypeOK
<1>5. ASSUME NEW s \in Inner, Size!SetInnerSize(s) PROVE Size!TypeOK'
  BY <1>3, <1>5 DEF Size!SetInnerSize, Size!TypeOK
<1>6. ASSUME NEW s \in WindowSizes, Size!UserResizes(s) PROVE Size!TypeOK'
  BY <1>6 DEF Size!UserResizes, Size!TypeOK
<1>7. ASSUME NEW b \in BOOLEAN, Size!SetFullScreenMode(b) PROVE Size!TypeOK'
  <2>1. {full', layer', needs'} \subseteq BOOLEAN
    BY <1>7, Zenon DEF Size!SetFullScreenMode, Size!TypeOK
  <2> QED
    BY <1>7, <2>1 DEF Size!SetFullScreenMode, Size!TypeOK
<1>8. CASE Size!SizeEvent
  <2>1. CASE presented # Size!Unset
    BY <1>3, <1>8, <2>1 DEF Size!SizeEvent, Size!SizeKnown, Size!TypeOK
  <2>2. CASE presented = Size!Unset
    BY <1>8, <2>2 DEF Size!SizeEvent, Size!TypeOK
  <2> QED
    BY <2>1, <2>2
<1>9. CASE Size!Exposed
  BY <1>9 DEF Size!Exposed, Size!TypeOK
<1>10. CASE Size!TickBeat
  BY <1>10 DEF Size!TickBeat, Size!TypeOK
<1> QED
  BY <1>2, <1>4, <1>5, <1>6, <1>7, <1>8, <1>9, <1>10 DEF Size!Next

\* Every step keeps the rectangle that of the size the window was told of.
LEMMA SizeStays == ASSUME SizeInv, [Size!Next]_(Size!vars) PROVE SizeInv'
<1>t. CASE UNCHANGED Size!vars
  BY <1>t DEF Size!vars, SizeInv, Size!TypeOK, Size!Output
<1> SUFFICES ASSUME Size!Next PROVE SizeInv'
  BY <1>t
<1>0. Size!TypeOK'
  BY SizeTyped
<1>b. full \in BOOLEAN /\ layer \in BOOLEAN /\ needs \in BOOLEAN
  BY DEF SizeInv, Size!TypeOK
<1>1. CASE Size!SetPaintBoxSize
  <2>1. dest' = Size!DestOf(inner', Size!Output')
    BY <1>1 DEF Size!SetPaintBoxSize, Size!Refitted, Size!Output
  <2> QED
    BY <1>0, <1>1, <2>1, Fitted DEF Size!SetPaintBoxSize, SizeInv
<1>2. ASSUME NEW s \in WindowSizes, Size!SetSize(s) PROVE SizeInv'
  BY <1>0, <1>2, Zoomed DEF Size!SetSize
<1>3. ASSUME NEW s \in Inner, Size!SetInnerSize(s) PROVE SizeInv'
  BY <1>0, <1>3, Zoomed DEF Size!SetInnerSize
<1>4. ASSUME NEW s \in WindowSizes, Size!UserResizes(s) PROVE SizeInv'
  BY <1>0, <1>4 DEF Size!UserResizes, SizeInv
<1>5. ASSUME NEW b \in BOOLEAN, Size!SetFullScreenMode(b) PROVE SizeInv'
  <2>1. /\ full' = b /\ UNCHANGED <<inner, windowed, layer, dest, presented>>
        /\ news' = IF b = full THEN news ELSE "queued"
    BY <1>5 DEF Size!SetFullScreenMode
  <2>2. needs' = TRUE <=> (needs = TRUE \/ layer = TRUE)
    BY <1>5, <1>b DEF Size!SetFullScreenMode
  <2>3. news' = "seen" => news = "seen" /\ Size!Output' = Size!Output
    BY <2>1 DEF Size!Output
  <2> QED
    BY <1>0, <2>1, <2>2, <2>3 DEF SizeInv
<1>6. CASE Size!SizeEvent
  <2>1. CASE presented # Size!Unset
    BY <1>0, <1>6, <2>1, Zoomed DEF Size!SizeEvent, Size!SizeKnown
  <2>2. CASE presented = Size!Unset
    BY <1>0, <1>6, <2>2 DEF Size!SizeEvent, SizeInv
  <2> QED
    BY <2>1, <2>2
<1>7. CASE Size!Exposed
  <2>1. UNCHANGED <<inner, windowed, full, news, layer, dest, presented, Size!Output>>
    BY <1>7 DEF Size!Exposed, Size!Output
  <2>2. needs' = TRUE /\ layer = TRUE
    BY <1>7, <1>b DEF Size!Exposed, SizeInv
  <2> QED
    BY <1>0, <2>1, <2>2 DEF SizeInv
<1>8. CASE Size!TickBeat
  <2>1. UNCHANGED <<inner, windowed, full, news, layer, dest, Size!Output>>
    BY <1>8 DEF Size!TickBeat, Size!Output
  <2>2. needs = TRUE /\ needs' = FALSE /\ presented' = dest
    BY <1>8, <1>b DEF Size!TickBeat
  <2> QED
    BY <1>0, <2>1, <2>2 DEF SizeInv
<1> QED
  BY <1>1, <1>2, <1>3, <1>4, <1>5, <1>6, <1>7, <1>8 DEF Size!Next

\* The mouse over a picture of w pixels for i of the layers.
LEMMA CursorInside ==
  ASSUME NEW i \in Positive, NEW w \in Positive, NEW y \in 0 .. w - 1
  PROVE  Size!MulDiv(y, i, w) \in 0 .. i - 1
<1> USE DEF Positive
<1>1. Size!MulDiv(y, i, w) = (y * i) \div w
  BY DEF Size!MulDiv
<1>2. y * i \in Nat /\ y * i < w * i
  <2>1. y * i <= (w - 1) * i
    OBVIOUS
  <2>2. (w - 1) * i = w * i - i
    OBVIOUS
  <2> QED
    BY <2>1, <2>2
<1>3. (y * i) \div w \in Nat /\ (y * i) \div w < i
  BY <1>2, DivIs, DivLess
<1> QED
  BY <1>1, <1>3

\* A position that goes to the window and back is off by one at most.
LEMMA CursorBack ==
  ASSUME NEW i \in Positive, NEW w \in Positive, w >= i, NEW p \in 0 .. i - 1
  PROVE  Size!MulDiv(Size!MulDiv(p, w, i), i, w) \in {p - 1, p}
<1> USE DEF Positive
<1> DEFINE q == (p * w) \div i
<1>1. Size!MulDiv(p, w, i) = q
  BY DEF Size!MulDiv
<1>2. q \in Nat /\ i * q <= p * w /\ p * w < i * q + i
  <2>1. p * w \in Nat
    OBVIOUS
  <2> QED
    BY <2>1, DivIs
<1> HIDE DEF q
<1> DEFINE r == (q * i) \div w
<1>3. Size!MulDiv(q, i, w) = r
  BY <1>2 DEF Size!MulDiv
<1>4. r \in Nat /\ w * r <= q * i /\ q * i < w * r + w
  <2>1. q * i \in Nat
    BY <1>2
  <2> QED
    BY <2>1, DivIs
<1> HIDE DEF r
<1>5. q * i = i * q /\ p * w = w * p
  BY <1>2
<1>6. ASSUME r > p PROVE FALSE
  <2>1. w * r >= w * (p + 1) /\ w * (p + 1) = w * p + w
    BY <1>4, <1>6
  <2> QED
    BY <1>2, <1>4, <1>5, <2>1
<1>7. ASSUME r < p - 1 PROVE FALSE
  <2>1. w * (r + 2) <= w * p /\ w * (r + 2) = w * r + w + w
    BY <1>4, <1>7
  <2> QED
    BY <1>2, <1>4, <1>5, <2>1
<1> QED
  BY <1>1, <1>3, <1>4, <1>6, <1>7

\* The rectangle keeps the proportion, and the cursor stays in the picture.
LEMMA SizeHolds ==
  ASSUME SizeInv
  PROVE  /\ Size!TypeOK /\ Size!KnownBeforeInput /\ Size!DestFollows /\ Size!ShownWhereAsked
         /\ Size!Letterboxed /\ Size!CursorAgrees
<1>0. inner \in Sizes /\ Size!Output \in Sizes
  BY OutputIs DEF SizeInv
<1>1. Size!KnownBeforeInput
  BY DEF SizeInv, Size!KnownBeforeInput
<1>2. Size!DestFollows
  BY DEF SizeInv, Size!DestFollows
<1>3. Size!ShownWhereAsked
  BY DEF SizeInv, Size!ShownWhereAsked
<1>4. Size!Letterboxed
  BY <1>0, DestFits DEF Size!Letterboxed
<1>5. Size!CursorAgrees
  <2> SUFFICES ASSUME dest # Size!Unset
               PROVE  /\ \A x \in dest.x .. dest.x + dest.w - 1 :
                           Size!ToDrawArea(x, dest.x, inner[1], dest.w) \in 0 .. inner[1] - 1
                      /\ dest.w >= inner[1] => \A p \in 0 .. inner[1] - 1 :
                           Size!ToDrawArea(Size!ToWindow(p, dest.x, inner[1], dest.w),
                                           dest.x, inner[1], dest.w) \in {p - 1, p}
    BY DEF Size!CursorAgrees
  <2>1. dest.x \in Int /\ dest.w \in Positive /\ inner[1] \in Positive
    BY <1>0 DEF SizeInv, Size!TypeOK, Size!Rects, Sizes, Positive
  <2>2. ASSUME NEW x \in dest.x .. dest.x + dest.w - 1
        PROVE  Size!ToDrawArea(x, dest.x, inner[1], dest.w) \in 0 .. inner[1] - 1
    <3>1. x - dest.x \in 0 .. dest.w - 1
      BY <2>1 DEF Positive
    <3> QED
      BY <2>1, <3>1, CursorInside DEF Size!ToDrawArea
  <2>3. ASSUME dest.w >= inner[1], NEW p \in 0 .. inner[1] - 1
        PROVE  Size!ToDrawArea(Size!ToWindow(p, dest.x, inner[1], dest.w),
                               dest.x, inner[1], dest.w) \in {p - 1, p}
    <3> DEFINE q == Size!MulDiv(p, dest.w, inner[1])
    <3>1. q \in Int
      <4>1. q = (p * dest.w) \div inner[1]
        BY <2>1 DEF Size!MulDiv, Positive
      <4> QED
        BY <2>1, <4>1 DEF Positive
    <3>2. Size!MulDiv(q, inner[1], dest.w) \in {p - 1, p}
      BY <2>1, <2>3, CursorBack
    <3> HIDE DEF q
    <3>3. (q + dest.x) - dest.x = q
      BY <2>1, <3>1
    <3>4. Size!ToWindow(p, dest.x, inner[1], dest.w) = q + dest.x
      BY DEF Size!ToWindow, q
    <3> QED
      BY <3>2, <3>3, <3>4 DEF Size!ToDrawArea
  <2> QED
    BY <2>2, <2>3
<1> QED
  BY <1>1, <1>2, <1>3, <1>4, <1>5 DEF SizeInv

-----------------------------------------------------------------------------
(***************************************************************************)
(* The windows and the methods that wait.                                  *)
(***************************************************************************)
\* A window of the list is at its place.
LEMMA PlaceIs ==
  ASSUME list \in Seq(Window), NEW w \in ToSet(list)
  PROVE  Place(w) \in 1 .. Len(list) /\ list[Place(w)] = w
<1>1. \E i \in DOMAIN list : list[i] = w
  BY DEF ToSet
<1>2. Place(w) \in DOMAIN list /\ list[Place(w)] = w
  BY <1>1 DEF Place
<1> QED
  BY <1>2

\* The list without one of its windows.
LEMMA WithoutIs ==
  ASSUME list \in Seq(Window), IsInjective(list), NEW w \in ToSet(list)
  PROVE  /\ Without(w) \in Seq(Window) /\ IsInjective(Without(w))
         /\ ToSet(Without(w)) = ToSet(list) \ {w}
<1> DEFINE p == Place(w)
           n == Len(list)
           s == Without(w)
<1>1. p \in 1 .. n /\ n \in Nat /\ list[p] = w
  BY PlaceIs
<1>2. s = SubSeq(list, 1, p - 1) \o SubSeq(list, p + 1, n)
  BY DEF Without, RemoveAt
<1> HIDE DEF p
<1>3. /\ s \in Seq(Window) /\ Len(s) = n - 1
      /\ \A i \in 1 .. n - 1 : s[i] = list[IF i < p THEN i ELSE i + 1]
  <2> DEFINE l == SubSeq(list, 1, p - 1)
             r == SubSeq(list, p + 1, n)
  <2> HIDE DEF n, s
  <2>0. n = Len(list)
    BY DEF n
  <2>1. /\ l \in Seq(Window) /\ Len(l) = p - 1
        /\ \A i \in 1 .. p - 1 : l[i] = list[i]
    BY <1>1, <2>0
  <2>2. /\ r \in Seq(Window) /\ Len(r) = n - p
        /\ \A i \in 1 .. n - p : r[i] = list[i + p]
    BY <1>1, <2>0
  <2>3. s = l \o r
    BY <1>2
  <2> HIDE DEF l, r
  <2>4. s \in Seq(Window) /\ Len(s) = n - 1
    BY <1>1, <2>1, <2>2, <2>3
  <2>5. ASSUME NEW i \in 1 .. n - 1 PROVE s[i] = list[IF i < p THEN i ELSE i + 1]
    <3>1. CASE i < p
      BY <1>1, <2>1, <2>2, <2>3, <3>1
    <3>2. CASE i >= p
      <4>1. s[i] = r[i - Len(l)]
        BY <1>1, <2>1, <2>2, <2>3, <3>2
      <4>2. i - Len(l) \in 1 .. n - p /\ (i - Len(l)) + p = i + 1
        BY <1>1, <2>1, <3>2
      <4>3. s[i] = list[i + 1]
        BY <2>2, <4>1, <4>2
      <4> QED
        BY <1>1, <3>2, <4>3
    <3> QED
      BY <1>1, <3>1, <3>2
  <2> QED
    BY <2>4, <2>5
<1>4. \A i, j \in 1 .. n : list[i] = list[j] => i = j
  <2>1. DOMAIN list = 1 .. n
    OBVIOUS
  <2> QED
    BY <2>1 DEF IsInjective
<1> HIDE DEF s
<1>5. DOMAIN s = 1 .. n - 1
  BY <1>3
<1>6. IsInjective(s)
  <2> SUFFICES ASSUME NEW i \in 1 .. n - 1, NEW j \in 1 .. n - 1, s[i] = s[j] PROVE i = j
    BY <1>5 DEF IsInjective
  <2> DEFINE k == IF i < p THEN i ELSE i + 1
             l == IF j < p THEN j ELSE j + 1
  <2>1. k \in 1 .. n /\ l \in 1 .. n /\ list[k] = list[l]
    BY <1>1, <1>3
  <2>2. k = l
    BY <1>4, <2>1
  <2> QED
    BY <1>1, <2>2
<1>7. ASSUME NEW i \in 1 .. n - 1 PROVE s[i] \in ToSet(list) \ {w}
  <2> DEFINE k == IF i < p THEN i ELSE i + 1
  <2>1. k \in 1 .. n /\ k # p /\ s[i] = list[k]
    BY <1>1, <1>3
  <2>2. list[k] # w
    BY <1>1, <1>4, <2>1
  <2> QED
    BY <2>1, <2>2 DEF ToSet
<1>8. ASSUME NEW v \in ToSet(list) \ {w} PROVE v \in ToSet(s)
  <2>1. PICK k \in 1 .. n : list[k] = v
    BY DEF ToSet
  <2>2. k # p
    BY <1>1, <2>1
  <2> DEFINE i == IF k < p THEN k ELSE k - 1
  <2>3. i \in 1 .. n - 1 /\ (IF i < p THEN i ELSE i + 1) = k
    BY <1>1, <2>2
  <2>4. s[i] = v
    BY <1>3, <2>1, <2>3
  <2> QED
    BY <1>5, <2>3, <2>4 DEF ToSet
<1>9. ToSet(s) = ToSet(list) \ {w}
  BY <1>5, <1>7, <1>8 DEF ToSet
<1> QED
  BY <1>3, <1>6, <1>9 DEF s

\* The list with a new window behind.
LEMMA AppendIs ==
  ASSUME list \in Seq(Window), IsInjective(list), NEW w \in Window \ ToSet(list)
  PROVE  /\ Append(list, w) \in Seq(Window) /\ IsInjective(Append(list, w))
         /\ ToSet(Append(list, w)) = ToSet(list) \cup {w}
<1> DEFINE n == Len(list)
           s == Append(list, w)
<1>1. /\ s \in Seq(Window) /\ DOMAIN s = 1 .. n + 1 /\ DOMAIN list = 1 .. n /\ n \in Nat
      /\ \A i \in 1 .. n : s[i] = list[i]
      /\ s[n + 1] = w
  OBVIOUS
<1> HIDE DEF s, n
<1>2. \A i \in 1 .. n : s[i] \in ToSet(list) /\ s[i] # w
  BY <1>1 DEF ToSet
<1>3. IsInjective(s)
  <2> SUFFICES ASSUME NEW i \in 1 .. n + 1, NEW j \in 1 .. n + 1, s[i] = s[j] PROVE i = j
    BY <1>1 DEF IsInjective
  <2>1. (i = n + 1) <=> (j = n + 1)
    BY <1>1, <1>2
  <2> QED
    BY <1>1, <2>1 DEF IsInjective
<1>4. ToSet(s) \subseteq ToSet(list) \cup {w}
  BY <1>1, <1>2 DEF ToSet
<1>5. n + 1 \in 1 .. n + 1 /\ 1 .. n \subseteq 1 .. n + 1
  BY <1>1
<1>6. ToSet(list) \cup {w} \subseteq ToSet(s)
  BY <1>1, <1>5 DEF ToSet
<1> QED
  BY <1>1, <1>3, <1>4, <1>6 DEF s

\* The window next to one is another one of the list, or none.
LEMMA BesideIs ==
  ASSUME list \in Seq(Window), IsInjective(list), NEW w \in ToSet(list)
  PROVE  Beside(w) \in (ToSet(list) \ {w}) \cup {None}
<1> DEFINE p == Place(w)
<1>1. p \in 1 .. Len(list) /\ Len(list) \in Nat /\ list[p] = w
  BY PlaceIs
<1>2. ASSUME NEW k \in 1 .. Len(list), k # p PROVE list[k] \in ToSet(list) \ {w}
  BY <1>1, <1>2 DEF IsInjective, ToSet
<1>3. CASE p > 1
  <2>1. p - 1 \in 1 .. Len(list) /\ p - 1 # p
    BY <1>1, <1>3
  <2> QED
    BY <1>2, <1>3, <2>1 DEF Beside
<1>4. CASE ~(p > 1) /\ p < Len(list)
  <2>1. p + 1 \in 1 .. Len(list) /\ p + 1 # p
    BY <1>1, <1>4
  <2> QED
    BY <1>2, <1>4, <2>1 DEF Beside
<1> QED
  BY <1>3, <1>4 DEF Beside

\* What may be the current window.
Current == ToSet(list) \cup {None}

\* The window that is current when one is hidden.
LEMMA HiddenIs ==
  ASSUME list \in Seq(Window), IsInjective(list), current \in Current, NEW w \in Window
  PROVE  Hidden(w) \in Current /\ Hidden(w) # w
<1>1. CASE current = w /\ w \in ToSet(list)
  BY <1>1, BesideIs, LayersAssumption DEF Hidden, Current
<1>2. CASE current # w
  BY <1>2 DEF Hidden, Current
<1> QED
  BY <1>1, <1>2, LayersAssumption DEF Current

\* The window that is current when one is deleted.
LEMMA AfterDeleteIs ==
  ASSUME list \in Seq(Window), IsInjective(list), NEW cur \in Current, NEW w \in ToSet(list)
  PROVE  AfterDelete(w, cur) \in ToSet(Without(w)) \cup {None}
<1>1. Without(w) \in Seq(Window) /\ ToSet(Without(w)) = ToSet(list) \ {w}
  BY WithoutIs
<1>2. CASE cur # w
  BY <1>1, <1>2 DEF AfterDelete, Current
<1>3. CASE cur = w /\ Without(w) # <<>>
  <2> DEFINE s == Without(w)
  <2> HIDE DEF s
  <2>1. s \in Seq(Window) /\ s # <<>>
    BY <1>1, <1>3 DEF s
  <2>2. Len(s) \in DOMAIN s
    BY <2>1
  <2>3. Last(s) \in ToSet(s)
    BY <2>2 DEF Last, ToSet
  <2> QED
    BY <1>3, <2>3 DEF AfterDelete, s
<1>4. CASE cur = w /\ Without(w) = <<>>
  BY <1>4 DEF AfterDelete
<1> QED
  BY <1>2, <1>3, <1>4

\* The types, and what the layers and objects are to each other, whatever the
\* script does.
LayersInv ==
  /\ TypeOK /\ NoOrphan /\ MainOrTerminated /\ ClicksOfOpen
  /\ deleting \cap open = {} /\ inMode \subseteq Window \ fresh

\* There is no window at first.
LEMMA LayersStart == ASSUME Init PROVE LayersInv
<1>1. list \in Seq(Window) /\ DOMAIN list = {} /\ frames \in Seq({"modal", "query"} \X Window)
      /\ Len(frames) = 0
  BY DEF Init
<1>2. ToSet(list) = {} /\ IsInjective(list)
  BY <1>1 DEF ToSet, IsInjective
<1>3. /\ canClose \in [Window -> BOOLEAN] /\ terminated \in BOOLEAN
      /\ result \in [Window -> {"none", "cancel", "accepted"}]
  BY DEF Init
<1>4. /\ current = None /\ main = None /\ open = {} /\ deleting = {} /\ inMode = {} /\ clicked = {}
      /\ fresh = Window
  BY DEF Init
<1>5. TypeOK
  BY <1>1, <1>2, <1>3, <1>4, LayersAssumption DEF TypeOK
<1> QED
  BY <1>2, <1>4, <1>5 DEF LayersInv, NoOrphan, MainOrTerminated, ClicksOfOpen

\* What the invariant says of the layers, one fact each.
LEMMA LayersAre ==
  ASSUME LayersInv
  PROVE  /\ list \in Seq(Window) /\ IsInjective(list) /\ current \in Current
         /\ main \in open \cup {None} /\ open \subseteq ToSet(list)
            /\ deleting \subseteq ToSet(list)
         /\ ToSet(list) \subseteq Window \ fresh /\ ToSet(list) \subseteq Window
         /\ ToSet(list) \ open \subseteq deleting \/ terminated = TRUE
         /\ open # {} => main \in open \/ terminated = TRUE
         /\ clicked \subseteq open /\ deleting \cap open = {} /\ inMode \subseteq Window \ fresh
BY DEF LayersInv, TypeOK, NoOrphan, MainOrTerminated, ClicksOfOpen, Current

\* The values that go with the methods.
Methods ==
  /\ result \in [Window -> {"none", "cancel", "accepted"}]
  /\ canClose \in [Window -> BOOLEAN]
  /\ frames \in Seq({"modal", "query"} \X Window) /\ Len(frames) <= MaxFrames
\* The list, the objects and the windows that the variables name.
Picked ==
  /\ list \in Seq(Window) /\ IsInjective(list) /\ current \in Current
  /\ main \in open \cup {None} /\ open \subseteq ToSet(list) /\ deleting \subseteq ToSet(list)
  /\ ToSet(list) \subseteq Window \ fresh
  /\ ToSet(list) \ open \subseteq deleting \/ terminated = TRUE
  /\ open # {} => main \in open \/ terminated = TRUE
  /\ clicked \subseteq open /\ deleting \cap open = {} /\ inMode \subseteq Window \ fresh

\* The invariant, in the two halves that steps keep apart.
LEMMA LayersInvIs == LayersInv <=> Picked /\ Methods /\ terminated \in BOOLEAN
BY DEF LayersInv, Picked, Methods, TypeOK, NoOrphan, MainOrTerminated, ClicksOfOpen, Current

\* The call stack without the last method.
LEMMA FrontIs ==
  ASSUME NEW S, NEW s \in Seq(S), s # <<>>
  PROVE  /\ Front(s) \in Seq(S) /\ Len(Front(s)) = Len(s) - 1 /\ Len(s) \in DOMAIN s
         /\ \A i \in DOMAIN Front(s) : i \in DOMAIN s /\ i # Len(s) /\ Front(s)[i] = s[i]
<1>1. Len(s) \in Nat /\ Len(s) > 0 /\ DOMAIN s = 1 .. Len(s)
  BY EmptySeq, LenProperties
<1>2. Front(s) = SubSeq(s, 1, Len(s) - 1)
  BY DEF Front
<1>3. /\ Front(s) \in Seq(S) /\ Len(Front(s)) = Len(s) - 1
      /\ \A i \in 1 .. Len(s) - 1 : Front(s)[i] = s[i]
  BY <1>1, <1>2
<1>4. DOMAIN Front(s) = 1 .. Len(s) - 1
  BY <1>3
<1> QED
  BY <1>1, <1>3, <1>4

\* The last method waits for a window.
LEMMA LastFrame ==
  ASSUME Methods, frames # <<>>
  PROVE  /\ Last(frames)[2] \in Window /\ Front(frames) \in Seq({"modal", "query"} \X Window)
         /\ Len(Front(frames)) <= MaxFrames
<1>1. Len(frames) \in DOMAIN frames /\ Len(frames) \in Nat
  BY FrontIs DEF Methods
<1>2. Last(frames) \in {"modal", "query"} \X Window
  BY <1>1 DEF Methods, Last
<1> QED
  BY <1>1, <1>2, FrontIs, LayersAssumption DEF Methods

\* A window object that goes: its layer is deleted, or it is hidden and waits.
LEMMA WindowGoes ==
  ASSUME Picked, NEW w \in open, (Released(w) /\ Deleted(w)) \/ ObjectCloses(w),
         UNCHANGED <<inMode, fresh>>, terminated \in BOOLEAN
  PROVE  Picked' /\ terminated' \in BOOLEAN
         /\ (terminated' = TRUE <=> terminated = TRUE \/ main = w)
<1>0. w \in ToSet(list) /\ w \in Window /\ w \notin deleting /\ w # None
  BY LayersAssumption DEF Picked
<1>1. /\ open' = open \ {w} /\ clicked' = clicked \ {w}
      /\ main' = IF main = w THEN None ELSE main
      /\ terminated' \in BOOLEAN
  BY DEF ObjectCloses, Released, EventsWithout, EndsApplication
<1>2. terminated' = TRUE <=> terminated = TRUE \/ main = w
  BY DEF ObjectCloses, Released, EndsApplication
<1>3. Hidden(w) \in Current
  BY <1>0, HiddenIs DEF Picked
<1>4. CASE Deleted(w)
  <2>1. list' = Without(w) /\ current' = AfterDelete(w, Hidden(w)) /\ deleting' = deleting \ {w}
    BY <1>4 DEF Deleted
  <2>2. /\ list' \in Seq(Window) /\ IsInjective(list') /\ ToSet(list') = ToSet(list) \ {w}
    BY <1>0, <2>1, WithoutIs DEF Picked
  <2>3. current' \in Current'
    BY <1>0, <1>3, <2>1, AfterDeleteIs DEF Picked, Current
  <2> QED
    BY <1>0, <1>1, <1>2, <2>1, <2>2, <2>3 DEF Picked
<1>5. CASE ObjectCloses(w)
  <2>1. list' = list /\ current' = Hidden(w)
        /\ deleting' = IF w # main THEN deleting \cup {w} ELSE deleting
    BY <1>5 DEF ObjectCloses, MarksDeleted
  <2>2. current' \in Current'
    BY <1>3, <2>1 DEF Current
  <2> QED
    BY <1>0, <1>1, <1>2, <2>1, <2>2 DEF Picked
<1> QED
  BY <1>1, <1>2, <1>4, <1>5

\* An event: the current window, one behind it, or the deletion of one.
LEMMA EventKeeps ==
  ASSUME Picked, NEW t, NEW c, Event(t, c)
  PROVE  Picked'
<1> DEFINE w == Receiver(t)
<1>0. UNCHANGED <<open, main, terminated, fresh, inMode>>
  BY DEF Event, modeVars
<1>1. CASE w \in deleting /\ list' = Without(w) /\ current' = AfterDelete(w, current)
           /\ deleting' = deleting \ {w} /\ UNCHANGED <<shown, clicked>>
  <2> HIDE DEF w
  <2>1. w \in ToSet(list) /\ w \notin open
    BY <1>1 DEF Picked
  <2>2. /\ list' \in Seq(Window) /\ IsInjective(list') /\ ToSet(list') = ToSet(list) \ {w}
    BY <1>1, <2>1, WithoutIs DEF Picked
  <2>3. current' \in Current'
    BY <1>1, <2>1, AfterDeleteIs DEF Picked, Current
  <2> QED
    BY <1>0, <1>1, <2>1, <2>2, <2>3 DEF Picked
<1>2. CASE w \in open /\ clicked' \subseteq clicked \cup {w} /\ UNCHANGED layerVars
  <2> HIDE DEF w
  <2> QED
    BY <1>0, <1>2 DEF Picked, layerVars, Current
<1> QED
  BY <1>1, <1>2 DEF Event

\* An event leaves the methods alone.
LEMMA EventLeaves ==
  ASSUME Methods, NEW t, NEW c, Event(t, c)
  PROVE  Methods' /\ UNCHANGED <<terminated, frames, main, closing, inMode, open>>
BY DEF Event, Methods, modeVars

\* Every step keeps the methods.
LEMMA MethodsStay ==
  ASSUME LayersInv, Next PROVE Methods'
<1>0. Methods
  BY LayersInvIs
<1>1. CASE ModalEnds
  <2>1. result' \in [Window -> {"none", "cancel", "accepted"}]
    BY <1>0, <1>1, LastFrame DEF ModalEnds, Methods
  <2> QED
    BY <1>0, <1>1, <2>1, LastFrame DEF ModalEnds, Methods
<1>2. CASE QueryEnds
  BY <1>0, <1>2, LastFrame DEF QueryEnds, Methods
<1>3. CASE Quit
  <2>1. CASE Event(current, TRUE)
    BY <1>0, <2>1, EventLeaves
  <2> QED
    BY <1>0, <1>3, <2>1 DEF Quit, Methods, modeVars
<1>4. ASSUME NEW w \in Window,
             Construct(w) \/ Show(w) \/ Hide(w) \/ BringToFront(w) \/ Invalidate(w)
      PROVE  Methods'
  BY <1>0, <1>4 DEF Construct, Show, Hide, BringToFront, Invalidate, modeVars, Methods
<1>5. ASSUME NEW w \in Window, ShowModal(w) \/ (\E b \in BOOLEAN : CloseAsks(w, b)) PROVE Methods'
  <2>1. ASSUME NEW k \in {"modal", "query"}, Len(frames) < MaxFrames
        PROVE  /\ Append(frames, <<k, w>>) \in Seq({"modal", "query"} \X Window)
               /\ Len(Append(frames, <<k, w>>)) <= MaxFrames
    <3>1. <<k, w>> \in {"modal", "query"} \X Window
      OBVIOUS
    <3> QED
      BY <1>0, <2>1, <3>1, LayersAssumption DEF Methods
  <2>2. CASE ShowModal(w)
    BY <1>0, <2>1, <2>2 DEF ShowModal, Methods
  <2>3. ASSUME NEW b \in BOOLEAN, CloseAsks(w, b) PROVE Methods'
    <3>1. canClose' \in [Window -> BOOLEAN]
      BY <1>0, <2>3 DEF CloseAsks, Methods
    <3> QED
      BY <1>0, <2>1, <2>3, <3>1 DEF CloseAsks, Methods
  <2> QED
    BY <1>5, <2>2, <2>3
<1>6. ASSUME NEW w \in Window, CloseModal(w) \/ CloseUnasked(w) PROVE Methods'
  BY <1>0, <1>6 DEF CloseModal, CloseUnasked, Methods
<1>7. ASSUME NEW w \in Window, NEW b \in BOOLEAN, UserCloses(w, b) PROVE Methods'
  <2>1. canClose' \in [Window -> BOOLEAN]
    BY <1>0, <1>7 DEF UserCloses, Methods
  <2>2. result' \in [Window -> {"none", "cancel", "accepted"}]
    BY <1>0, <1>7 DEF UserCloses, Methods
  <2> QED
    BY <1>0, <1>7, <2>1, <2>2 DEF UserCloses, Methods
<1>8. ASSUME NEW w \in Window, NEW c \in BOOLEAN, Event(w, c) PROVE Methods'
  BY <1>0, <1>8, EventLeaves
<1> QED
  BY <1>1, <1>2, <1>3, <1>4, <1>5, <1>6, <1>7, <1>8 DEF Next

\* The current window becomes another one that is listed; the rest stays.
LEMMA Turns ==
  ASSUME Picked, current' \in Current, inMode' \subseteq Window \ fresh, clicked' \subseteq clicked,
         UNCHANGED <<list, main, open, deleting, fresh, terminated>>
  PROVE  Picked'
BY DEF Picked, Current

\* Every step of any script keeps the list, the objects and the clicks in agreement.
LEMMA LayersStay ==
  ASSUME LayersInv, [Next]_vars PROVE LayersInv'
<1>t. CASE UNCHANGED vars
  <2>1. UNCHANGED <<list, current, main, open, deleting, fresh, terminated, clicked, inMode, result,
                    canClose, frames, shown, closing>>
    BY <1>t DEF vars, layerVars, modeVars, appVars
  <2> QED
    BY <2>1 DEF LayersInv, TypeOK, NoOrphan, MainOrTerminated, ClicksOfOpen
<1> SUFFICES ASSUME Next PROVE LayersInv'
  BY <1>t
<1>m. Methods'
  BY MethodsStay
<1>0. Picked /\ Methods /\ terminated \in BOOLEAN
  BY LayersInvIs
<1>s. LayersInv' <=> Picked' /\ Methods' /\ terminated' \in BOOLEAN
  BY DEF LayersInv, Picked, Methods, TypeOK, NoOrphan, MainOrTerminated, ClicksOfOpen, Current
<1> SUFFICES Picked' /\ terminated' \in BOOLEAN
  BY <1>m, <1>s
<1>h. ASSUME NEW w \in Window PROVE Hidden(w) \in Current
  BY <1>0, HiddenIs DEF Picked
<1>o. ASSUME NEW w \in open PROVE w \in ToSet(list) /\ w \in Window /\ w \in Window \ fresh
  BY <1>0 DEF Picked
<1>1. CASE ModalEnds
  <2>1. inMode' \subseteq inMode
        /\ UNCHANGED <<list, current, main, open, deleting, fresh, terminated, clicked>>
    BY <1>1 DEF ModalEnds, layerVars, appVars
  <2> QED
    BY <1>0, <2>1, Turns DEF Picked
<1>2. CASE QueryEnds
  <2> DEFINE w == Last(frames)[2]
  <2>1. w \in Window /\ UNCHANGED <<inMode, fresh>>
    BY <1>0, <1>2, LastFrame DEF QueryEnds
  <2>2. CASE w \in open /\ ObjectCloses(w)
    <3> HIDE DEF w
    <3> QED
      BY <1>0, <2>1, <2>2, WindowGoes
  <2>3. CASE /\ current' \in {current, Hidden(w)}
             /\ UNCHANGED <<list, main, open, deleting, terminated, clicked>>
    <3> HIDE DEF w
    <3>1. current' \in Current
      BY <1>0, <1>h, <2>1, <2>3 DEF Picked
    <3> QED
      BY <1>0, <2>1, <2>3, <3>1, Turns DEF Picked
  <2> QED
    BY <1>2, <2>2, <2>3 DEF QueryEnds, appVars
<1>3. ASSUME NEW t, NEW c, Event(t, c) PROVE Picked' /\ terminated' \in BOOLEAN
  BY <1>0, <1>3, EventKeeps, EventLeaves
<1>4. CASE Quit
  <2>1. CASE Event(current, TRUE)
    BY <1>3, <2>1
  <2>2. CASE /\ terminated' = TRUE
             /\ UNCHANGED <<layerVars, modeVars, open, clicked, main, frames, fresh>>
    BY <1>0, <2>2 DEF Picked, Current, layerVars, modeVars
  <2> QED
    BY <1>4, <2>1, <2>2 DEF Quit
<1>5. ASSUME NEW w \in Window, Construct(w) PROVE Picked' /\ terminated' \in BOOLEAN
  <2>1. /\ w \in fresh /\ fresh' = fresh \ {w} /\ list' = Append(list, w)
        /\ current' = IF current = None THEN w ELSE current
        /\ open' = open \cup {w}
        /\ main' = IF main = None /\ open = {} THEN w ELSE main
        /\ UNCHANGED <<deleting, inMode, clicked, terminated>>
    BY <1>5 DEF Construct, modeVars
  <2>2. w \notin ToSet(list) /\ w \notin deleting /\ w \notin inMode
    BY <1>0, <2>1 DEF Picked
  <2>3. list' \in Seq(Window) /\ IsInjective(list') /\ ToSet(list') = ToSet(list) \cup {w}
    BY <1>0, <2>1, <2>2, AppendIs DEF Picked
  <2>4. current' \in Current'
    BY <1>0, <2>1, <2>3 DEF Picked, Current
  <2>5. (open' # {} => main' \in open' \/ terminated' = TRUE) /\ main' \in open' \cup {None}
    BY <1>0, <2>1 DEF Picked
  <2> QED
    BY <1>0, <2>1, <2>2, <2>3, <2>4, <2>5 DEF Picked
<1>6. ASSUME NEW w \in Window, Show(w) \/ Hide(w) \/ BringToFront(w)
      PROVE  Picked' /\ terminated' \in BOOLEAN
  <2>1. w \in open /\ current' \in {w, Hidden(w)}
        /\ UNCHANGED <<list, main, open, deleting, fresh, terminated, clicked, inMode>>
    BY <1>6 DEF Show, Hide, BringToFront, MayTouch, modeVars, appVars
  <2>2. current' \in Current
    BY <1>h, <1>o, <2>1 DEF Current
  <2> QED
    BY <1>0, <2>1, <2>2, Turns DEF Picked
<1>7. ASSUME NEW w \in Window, ShowModal(w) PROVE Picked' /\ terminated' \in BOOLEAN
  <2>1. w \in open /\ current' = w /\ clicked' = {} /\ inMode' = inMode \cup {w}
        /\ UNCHANGED <<list, main, open, deleting, fresh, terminated>>
    BY <1>7 DEF ShowModal, MayTouch
  <2>2. current' \in Current /\ inMode' \subseteq Window \ fresh /\ clicked' \subseteq clicked
    BY <1>0, <1>o, <2>1 DEF Current, Picked
  <2> QED
    BY <1>0, <2>1, <2>2, Turns
<1>8. ASSUME NEW w \in Window, CloseModal(w) \/ \E b \in BOOLEAN : CloseAsks(w, b)
      PROVE  Picked' /\ terminated' \in BOOLEAN
  <2>1. UNCHANGED <<list, current, main, open, deleting, fresh, terminated, clicked, inMode>>
    BY <1>8 DEF CloseModal, CloseAsks, layerVars, appVars
  <2> QED
    BY <1>0, <2>1, Turns DEF Picked
<1>9. ASSUME NEW w \in Window, CloseUnasked(w) \/ Invalidate(w)
      PROVE  Picked' /\ terminated' \in BOOLEAN
  <2>1. w \in open /\ ((Released(w) /\ Deleted(w)) \/ ObjectCloses(w))
        /\ UNCHANGED <<inMode, fresh>>
    BY <1>9 DEF CloseUnasked, Invalidate, MayTouch, modeVars
  <2> QED
    BY <1>0, <2>1, WindowGoes
<1>10. ASSUME NEW w \in Window, NEW b \in BOOLEAN, UserCloses(w, b)
       PROVE  Picked' /\ terminated' \in BOOLEAN
  <2>1. w \in open /\ UNCHANGED <<inMode, fresh>>
    BY <1>0, <1>10 DEF UserCloses, Picked
  <2>2. CASE Released(w) /\ Deleted(w)
    BY <1>0, <2>1, <2>2, WindowGoes
  <2>3. CASE /\ clicked' = clicked \ {w} /\ current' \in {current, Hidden(w)}
             /\ UNCHANGED <<list, deleting, open, main, terminated>>
    <3>1. current' \in Current
      BY <1>0, <1>h, <2>3 DEF Picked
    <3> QED
      BY <1>0, <2>1, <2>3, <3>1, Turns DEF Picked
  <2> QED
    BY <1>10, <2>2, <2>3 DEF UserCloses, layerVars
<1> QED
  BY <1>1, <1>2, <1>3, <1>4, <1>5, <1>6, <1>7, <1>8, <1>9, <1>10 DEF Next

\* The methods that wait, when the script is orderly: each of a window of its
\* own, which is listed and not to be deleted; a modal loop is one of a window
\* in its mode, which is not the main one, a query is known as one.
Calls ==
  /\ main \notin inMode
  /\ \A i, j \in DOMAIN frames : frames[i][2] = frames[j][2] => i = j
  /\ \A i \in DOMAIN frames :
       /\ frames[i][2] \in ToSet(list) \ deleting
       /\ frames[i][1] = "modal" => frames[i][2] \in inMode
       /\ frames[i][1] = "query" => frames[i][2] \in closing \ inMode

\* A method begins to wait.
LEMMA Pushed ==
  ASSUME Calls, Methods, NEW w \in Window, ~Waiting(w), NEW k \in {"modal", "query"},
         frames' = Append(frames, <<k, w>>), w \in ToSet(list) \ deleting,
         UNCHANGED <<list, deleting, main>>,
         inMode' = (IF k = "modal" THEN inMode \cup {w} ELSE inMode),
         closing' = (IF k = "query" THEN closing \cup {w} ELSE closing),
         k = "modal" => w # main, k = "query" => w \notin inMode
  PROVE  Calls'
<1> DEFINE n == Len(frames)
<1>1. /\ n \in Nat /\ DOMAIN frames = 1 .. n /\ DOMAIN frames' = 1 .. n + 1
      /\ \A i \in 1 .. n : frames'[i] = frames[i]
      /\ frames'[n + 1] = <<k, w>>
  BY DEF Methods
<1> HIDE DEF n
<1>2. \A i \in 1 .. n : frames[i][2] # w
  BY <1>1 DEF Waiting
<1>3. <<k, w>>[1] = k /\ <<k, w>>[2] = w
  OBVIOUS
<1>4. \A i, j \in DOMAIN frames' : frames'[i][2] = frames'[j][2] => i = j
  <2> SUFFICES ASSUME NEW i \in 1 .. n + 1, NEW j \in 1 .. n + 1, frames'[i][2] = frames'[j][2]
               PROVE  i = j
    BY <1>1
  <2>1. (i = n + 1) <=> (j = n + 1)
    BY <1>1, <1>2, <1>3
  <2> QED
    BY <1>1, <2>1 DEF Calls
<1>5. ASSUME NEW i \in DOMAIN frames'
      PROVE  /\ frames'[i][2] \in ToSet(list') \ deleting'
             /\ frames'[i][1] = "modal" => frames'[i][2] \in inMode'
             /\ frames'[i][1] = "query" => frames'[i][2] \in closing' \ inMode'
  <2>1. CASE i = n + 1
    BY <1>1, <1>3, <2>1
  <2>2. CASE i # n + 1
    <3>1. i \in 1 .. n /\ frames'[i] = frames[i]
      BY <1>1, <2>2
    <3>2. frames[i][2] # w
      BY <1>2, <3>1
    <3> QED
      BY <1>1, <3>1, <3>2 DEF Calls
  <2> QED
    BY <2>1, <2>2
<1> QED
  BY <1>4, <1>5 DEF Calls

\* What the other steps may change: they leave the windows that wait alone.
LEMMA CallsKept ==
  ASSUME Calls, \A i \in DOMAIN frames' : i \in DOMAIN frames /\ frames'[i] = frames[i],
         NEW w,
         \A i \in DOMAIN frames' : frames[i][2] # w,
         ToSet(list) \ {w} \subseteq ToSet(list'), deleting' \subseteq deleting \cup {w},
         inMode' \subseteq inMode, inMode \ {w} \subseteq inMode', closing \ {w} \subseteq closing',
         main' \notin inMode
  PROVE  Calls'
<1>1. \A i, j \in DOMAIN frames' : frames'[i][2] = frames'[j][2] => i = j
  BY DEF Calls
<1>2. ASSUME NEW i \in DOMAIN frames'
      PROVE  /\ frames'[i][2] \in ToSet(list') \ deleting'
             /\ frames'[i][1] = "modal" => frames'[i][2] \in inMode'
             /\ frames'[i][1] = "query" => frames'[i][2] \in closing' \ inMode'
  BY <1>2 DEF Calls
<1> QED
  BY <1>1, <1>2 DEF Calls

\* The method that waits innermost ends.
LEMMA Popped ==
  ASSUME Calls, Methods, frames # <<>>, frames' = Front(frames)
  PROVE  /\ \A i \in DOMAIN frames' : i \in DOMAIN frames /\ frames'[i] = frames[i]
         /\ \A i \in DOMAIN frames' : frames[i][2] # Last(frames)[2]
<1>1. /\ Len(frames) \in DOMAIN frames
      /\ \A i \in DOMAIN frames' : i \in DOMAIN frames /\ i # Len(frames) /\ frames'[i] = frames[i]
  BY FrontIs DEF Methods
<1> QED
  BY <1>1 DEF Calls, Last

\* What a deletion or a release leaves.
LEMMA Leaves ==
  ASSUME Picked, NEW w \in ToSet(list), list' = Without(w)
  PROVE  ToSet(list) \ {w} \subseteq ToSet(list')
BY WithoutIs DEF Picked

\* Every step of an orderly script keeps the windows of the methods that wait.
LEMMA CallsStay ==
  ASSUME Orderly, LayersInv, Calls, [Next]_vars PROVE Calls'
<1>0. Picked /\ Methods /\ terminated \in BOOLEAN /\ None \notin inMode
  BY LayersInvIs, LayersAssumption DEF Picked
<1>t. CASE UNCHANGED vars
  <2>1. UNCHANGED <<frames, list, deleting, inMode, closing, main>>
    BY <1>t DEF vars, layerVars, modeVars, appVars
  <2> QED
    BY <2>1 DEF Calls
<1> SUFFICES ASSUME Next PROVE Calls'
  BY <1>t
<1>o. ASSUME NEW w \in open PROVE w \in ToSet(list) \ deleting /\ w \in Window
  BY <1>0 DEF Picked
<1>a. main \notin inMode
  BY DEF Calls
<1>w. ASSUME UNCHANGED frames, NEW w, ~Waiting(w)
      PROVE  /\ \A i \in DOMAIN frames' : i \in DOMAIN frames /\ frames'[i] = frames[i]
             /\ \A i \in DOMAIN frames' : frames[i][2] # w
  BY <1>w DEF Waiting
<1>g. ASSUME NEW w \in open, (Released(w) /\ Deleted(w)) \/ ObjectCloses(w)
      PROVE  /\ ToSet(list) \ {w} \subseteq ToSet(list') /\ deleting' \subseteq deleting \cup {w}
             /\ main' \notin inMode
  <2>1. main' \in {main, None}
    BY <1>g DEF Released, ObjectCloses
  <2>2. CASE Deleted(w)
    <3>1. list' = Without(w) /\ deleting' \subseteq deleting
      BY <2>2 DEF Deleted
    <3> QED
      BY <1>0, <1>a, <1>o, <2>1, <3>1, Leaves
  <2>3. CASE ObjectCloses(w)
    BY <1>0, <1>a, <2>1, <2>3 DEF ObjectCloses
  <2> QED
    BY <1>g, <2>2, <2>3
<1>1. CASE ModalEnds
  <2> DEFINE w == Last(frames)[2]
  <2>1. /\ frames # <<>> /\ frames' = Front(frames) /\ inMode' = inMode \ {w}
        /\ UNCHANGED <<list, deleting, closing, main>>
    BY <1>1 DEF ModalEnds, layerVars, appVars
  <2>2. /\ \A i \in DOMAIN frames' : i \in DOMAIN frames /\ frames'[i] = frames[i]
        /\ \A i \in DOMAIN frames' : frames[i][2] # w
    BY <1>0, <2>1, Popped
  <2> HIDE DEF w
  <2> QED
    BY <1>a, <2>1, <2>2, CallsKept
<1>2. CASE QueryEnds
  <2> DEFINE w == Last(frames)[2]
  <2>1. /\ frames # <<>> /\ frames' = Front(frames) /\ inMode' = inMode /\ closing' = closing \ {w}
    BY <1>2 DEF QueryEnds
  <2>2. /\ \A i \in DOMAIN frames' : i \in DOMAIN frames /\ frames'[i] = frames[i]
        /\ \A i \in DOMAIN frames' : frames[i][2] # w
    BY <1>0, <2>1, Popped
  <2>3. \/ w \in open /\ ObjectCloses(w)
        \/ UNCHANGED <<list, deleting, main>>
    BY <1>2 DEF QueryEnds, appVars
  <2> HIDE DEF w
  <2>4. /\ ToSet(list) \ {w} \subseteq ToSet(list') /\ deleting' \subseteq deleting \cup {w}
        /\ main' \notin inMode
    BY <1>a, <1>g, <2>3
  <2> QED
    BY <2>1, <2>2, <2>4, CallsKept
<1>3. ASSUME NEW t, NEW c, Event(t, c) PROVE Calls'
  <2> DEFINE w == Receiver(t)
  <2>1. UNCHANGED <<frames, main, closing, inMode>>
    BY <1>3 DEF Event, modeVars
  <2>2. CASE w \in deleting /\ list' = Without(w) /\ deleting' = deleting \ {w}
    <3> HIDE DEF w
    <3>1. w \in ToSet(list) /\ ~Waiting(w)
      BY <1>0, <2>2 DEF Picked, Calls, Waiting
    <3>2. ToSet(list) \ {w} \subseteq ToSet(list')
      BY <1>0, <2>2, <3>1, Leaves
    <3>3. /\ \A i \in DOMAIN frames' : i \in DOMAIN frames /\ frames'[i] = frames[i]
          /\ \A i \in DOMAIN frames' : frames[i][2] # w
      BY <1>w, <2>1, <3>1
    <3> QED
      BY <1>a, <2>1, <2>2, <3>2, <3>3, CallsKept
  <2>3. CASE UNCHANGED layerVars
    BY <2>1, <2>3 DEF layerVars, Calls
  <2> QED
    BY <1>3, <2>2, <2>3 DEF Event
<1>4. CASE Quit
  <2>1. CASE Event(current, TRUE)
    BY <1>3, <2>1
  <2>2. CASE UNCHANGED <<layerVars, modeVars, open, clicked, main, frames, fresh>>
    BY <2>2 DEF layerVars, modeVars, Calls
  <2> QED
    BY <1>4, <2>1, <2>2 DEF Quit
<1>5. ASSUME NEW w \in Window, Construct(w) PROVE Calls'
  <2>1. /\ w \in fresh /\ list' = Append(list, w) /\ main' \in {main, w}
        /\ UNCHANGED <<deleting, inMode, closing, frames>>
    BY <1>5 DEF Construct, modeVars
  <2>2. w \notin ToSet(list) /\ w \notin inMode
    BY <1>0, <2>1 DEF Picked
  <2>3. ToSet(list') = ToSet(list) \cup {w}
    BY <1>0, <2>1, <2>2, AppendIs DEF Picked
  <2> QED
    BY <2>1, <2>2, <2>3 DEF Calls
<1>6. ASSUME NEW w \in Window, Show(w) \/ Hide(w) \/ BringToFront(w) PROVE Calls'
  <2>1. UNCHANGED <<frames, list, deleting, inMode, closing, main>>
    BY <1>6 DEF Show, Hide, BringToFront, modeVars, appVars
  <2> QED
    BY <2>1 DEF Calls
<1>7. ASSUME NEW w \in Window, ShowModal(w) PROVE Calls'
  <2>1. w \in open /\ ~Waiting(w) /\ w # main
    BY <1>7 DEF ShowModal, MayTouch
  <2>2. /\ inMode' = inMode \cup {w} /\ frames' = Append(frames, <<"modal", w>>)
        /\ UNCHANGED <<list, deleting, closing, main>>
    BY <1>7 DEF ShowModal
  <2>3. w \in ToSet(list) \ deleting
    BY <1>o, <2>1
  <2>4. "modal" \in {"modal", "query"} /\ "modal" # "query"
    OBVIOUS
  <2> QED
    BY <1>0, <2>1, <2>2, <2>3, <2>4, Pushed
<1>8. ASSUME NEW w \in Window, NEW b \in BOOLEAN, CloseAsks(w, b) PROVE Calls'
  <2>1. w \in open /\ ~Waiting(w) /\ w \notin inMode
    BY <1>8 DEF CloseAsks, MayTouch
  <2>2. /\ inMode' = inMode /\ frames' = Append(frames, <<"query", w>>)
        /\ closing' = closing \cup {w} /\ UNCHANGED <<list, deleting, main>>
    BY <1>8 DEF CloseAsks, layerVars, appVars
  <2>3. w \in ToSet(list) \ deleting
    BY <1>o, <2>1
  <2>4. "query" \in {"modal", "query"} /\ "modal" # "query"
    OBVIOUS
  <2> QED
    BY <1>0, <2>1, <2>2, <2>3, <2>4, Pushed
<1>9. ASSUME NEW w \in Window, CloseModal(w) PROVE Calls'
  <2>1. w \in inMode /\ closing' = closing \ {w}
        /\ UNCHANGED <<frames, list, deleting, inMode, main>>
    BY <1>9 DEF CloseModal, layerVars, appVars
  <2>2. ASSUME NEW i \in DOMAIN frames, frames[i][1] = "query" PROVE frames[i][2] # w
    BY <2>1, <2>2 DEF Calls
  <2> QED
    BY <2>1, <2>2 DEF Calls
<1>10. ASSUME NEW w \in Window, CloseUnasked(w) \/ Invalidate(w) PROVE Calls'
  <2>1. /\ w \in open /\ ~Waiting(w) /\ ((Released(w) /\ Deleted(w)) \/ ObjectCloses(w))
        /\ UNCHANGED <<frames, inMode>> /\ closing' \in {closing, closing \ {w}}
    BY <1>10 DEF CloseUnasked, Invalidate, MayTouch, modeVars
  <2>2. /\ \A i \in DOMAIN frames' : i \in DOMAIN frames /\ frames'[i] = frames[i]
        /\ \A i \in DOMAIN frames' : frames[i][2] # w
    BY <1>w, <2>1
  <2>3. /\ ToSet(list) \ {w} \subseteq ToSet(list') /\ deleting' \subseteq deleting \cup {w}
        /\ main' \notin inMode
    BY <1>g, <2>1
  <2> QED
    BY <2>1, <2>2, <2>3, CallsKept
<1>11. ASSUME NEW w \in Window, NEW b \in BOOLEAN, UserCloses(w, b) PROVE Calls'
  <2>1. w \in open /\ UNCHANGED <<inMode, closing, frames>>
    BY <1>0, <1>11 DEF UserCloses, Picked
  <2>2. CASE w \notin closing /\ w = main /\ Released(w) /\ Deleted(w)
    <3>1. ~Waiting(w)
      <4> SUFFICES ASSUME NEW i \in DOMAIN frames, frames[i][2] = w PROVE FALSE
        BY DEF Waiting
      <4>1. frames[i] \in {"modal", "query"} \X Window
        BY <1>0 DEF Methods
      <4>2. frames[i][1] = "modal" \/ frames[i][1] = "query"
        BY <4>1
      <4> QED
        BY <2>2, <4>2 DEF Calls
    <3>2. /\ \A i \in DOMAIN frames' : i \in DOMAIN frames /\ frames'[i] = frames[i]
          /\ \A i \in DOMAIN frames' : frames[i][2] # w
      BY <1>w, <2>1, <3>1
    <3>3. /\ ToSet(list) \ {w} \subseteq ToSet(list') /\ deleting' \subseteq deleting \cup {w}
          /\ main' \notin inMode
      BY <1>g, <2>1, <2>2
    <3> QED
      BY <2>1, <3>2, <3>3, CallsKept
  <2>3. CASE UNCHANGED <<list, deleting, main>>
    BY <2>1, <2>3 DEF Calls
  <2> QED
    BY <1>11, <2>2, <2>3 DEF UserCloses, layerVars, InvalidatedByUser
<1> QED
  BY <1>1, <1>2, <1>3, <1>4, <1>5, <1>6, <1>7, <1>8, <1>9, <1>10, <1>11 DEF Next

\* No method waits at first.
LEMMA CallsStart == ASSUME Init PROVE Calls
<1>1. DOMAIN frames = {} /\ inMode = {}
  BY DEF Init
<1> QED
  BY <1>1 DEF Calls

\* With the two invariants the windows are whole.
LEMMA LayersHold ==
  ASSUME LayersInv, Calls PROVE TypeOK /\ WindowsWhole
BY DEF LayersInv, Calls, WindowsWhole, WaitingExists

\* A modal window that is the current one receives every event.
LEMMA ModalReceives ==
  ASSUME LayersInv, current \in inMode, NEW t
  PROVE  Receiver(t) = current
<1>1. current \in ToSet(list) /\ list \in Seq(Window)
  BY LayersAre, LayersAssumption DEF Current
<1> DEFINE p == Place(current)
           S == {i \in 1 .. p : i = 1 \/ list[i] = t \/ Keeps(list[i])}
<1>2. p \in 1 .. Len(list) /\ list[p] = current /\ p \in Nat
  BY <1>1, PlaceIs
<1> HIDE DEF p
<1>3. p \in S /\ \A i \in S : i \in Nat /\ p >= i
  BY <1>2 DEF Keeps
<1> HIDE DEF S
<1>4. \E x \in S : \A y \in S : x >= y
  BY <1>3
<1>5. Max(S) \in S /\ \A y \in S : Max(S) >= y
  BY <1>4 DEF Max
<1>6. Max(S) = p
  <2> DEFINE m == Max(S)
  <2>1. m \in Nat /\ p >= m /\ m >= p
    BY <1>3, <1>5
  <2> HIDE DEF m
  <2>2. m = p
    BY <1>2, <2>1
  <2> QED
    BY <2>2 DEF m
<1>7. Receiver(t) = list[Max(S)]
  BY DEF Receiver, S, p
<1> QED
  BY <1>2, <1>6, <1>7

\* No step asks a click of a window that a modal one covers.
LEMMA ModalCovering ==
  ASSUME LayersInv, [Next]_vars, NEW w \in inMode, current = w
  PROVE  clicked' \subseteq clicked \cup {w}
<1>1. ASSUME NEW t, NEW c, Event(t, c) PROVE clicked' \subseteq clicked \cup {w}
  BY <1>1, ModalReceives DEF Event, layerVars
<1>2. CASE Quit
  BY <1>1, <1>2 DEF Quit
<1>3. CASE ModalEnds
  BY <1>3 DEF ModalEnds, appVars
<1>4. CASE QueryEnds
  BY <1>4 DEF QueryEnds, appVars, ObjectCloses, Released, EventsWithout
<1>5. ASSUME NEW v \in Window, Construct(v) \/ Show(v) \/ Hide(v) \/ BringToFront(v) \/ ShowModal(v)
      PROVE  clicked' \subseteq clicked \cup {w}
  BY <1>5 DEF Construct, Show, Hide, BringToFront, ShowModal, appVars
<1>6. ASSUME NEW v \in Window, NEW b \in BOOLEAN,
             CloseModal(v) \/ CloseUnasked(v) \/ Invalidate(v) \/ CloseAsks(v, b)
             \/ UserCloses(v, b)
      PROVE  clicked' \subseteq clicked \cup {w}
  BY <1>6 DEF CloseModal, CloseUnasked, Invalidate, CloseAsks, UserCloses, ObjectCloses, Released,
     EventsWithout, appVars
<1>7. CASE UNCHANGED vars
  BY <1>7 DEF vars, appVars
<1> QED
  BY <1>1, <1>2, <1>3, <1>4, <1>5, <1>6, <1>7 DEF Next

-----------------------------------------------------------------------------
\* Induction over a set of numbers.
LEMMA EveryNumber ==
  ASSUME NEW S, 0 \in S, \A n \in S \cap Nat : n + 1 \in S PROVE Nat \subseteq S
<1> DEFINE T == Nat \ S
<1>1. ASSUME NEW m \in T, \A n \in T : <<n, m>> \notin Earlier PROVE FALSE
  <2>1. m \in Nat /\ m # 0 /\ m - 1 \in Nat /\ m = (m - 1) + 1
    BY <1>1
  <2>2. <<m - 1, m>> \in Earlier
    BY <2>1 DEF Earlier
  <2>3. m - 1 \notin T
    BY <1>1, <2>2
  <2> QED
    BY <2>1, <2>3
<1>2. T \subseteq Nat
  OBVIOUS
<1> HIDE DEF T
<1>3. T = {}
  BY <1>1, <1>2, EarlierWellFounded, WFMin
<1> QED
  BY <1>3 DEF T

-----------------------------------------------------------------------------
(***************************************************************************)
(* The text field.                                                         *)
(***************************************************************************)
\* The keys turn one field into the other, over those in between.
Goes(f, keys, e) ==
  \E h : /\ h[0] = f /\ h[Len(keys)] = e
         /\ \A i \in 1 .. Len(keys) : h[i] = TextPart!Pressed(h[i - 1], keys[i])

\* What is typed is where the keys lead.
LEMMA TypedIs ==
  ASSUME NEW S, NEW keys \in Seq(S), NEW e, Goes(field, keys, e)
  PROVE  TextPart!Typed(keys) = e
<1> DEFINE n == Len(keys)
<1>0. n \in Nat
  OBVIOUS
<1>1. PICK h : /\ h[0] = field /\ h[n] = e
               /\ \A i \in 1 .. n : h[i] = TextPart!Pressed(h[i - 1], keys[i])
  BY DEF Goes
<1> DEFINE r == [i \in 0 .. n |-> h[i]]
           g == CHOOSE f : f = [i \in 0 .. n |-> IF i = 0 THEN field
                                                 ELSE TextPart!Pressed(f[i - 1], keys[i])]
<1>2. TextPart!Typed(keys) = g[n]
  BY DEF TextPart!Typed
<1> HIDE DEF n
<1>3. r = [i \in 0 .. n |-> IF i = 0 THEN field ELSE TextPart!Pressed(r[i - 1], keys[i])]
  <2>1. \A i \in 0 .. n : r[i] = IF i = 0 THEN field ELSE TextPart!Pressed(r[i - 1], keys[i])
    <3> TAKE i \in 0 .. n
    <3>1. CASE i = 0
      BY <1>1, <3>1
    <3>2. CASE i # 0
      <4>1. i \in 1 .. n /\ i - 1 \in 0 .. n
        BY <1>0, <3>2
      <4>2. r[i] = h[i] /\ r[i - 1] = h[i - 1]
        BY <4>1
      <4> QED
        BY <1>1, <3>2, <4>1, <4>2
    <3> QED
      BY <3>1, <3>2
  <2>2. r = [i \in 0 .. n |-> r[i]]
    OBVIOUS
  <2> HIDE DEF r
  <2> QED
    BY <2>1, <2>2
<1> HIDE DEF r
<1>4. g = [i \in 0 .. n |-> IF i = 0 THEN field ELSE TextPart!Pressed(g[i - 1], keys[i])]
  BY <1>3
<1> HIDE DEF g
<1>5. g[0] = field
  BY <1>0, <1>4
<1>6. \A i \in 1 .. n : g[i] = TextPart!Pressed(g[i - 1], keys[i])
  <2> TAKE i \in 1 .. n
  <2>1. i \in 0 .. n /\ i # 0
    BY <1>0
  <2> QED
    BY <1>4, <2>1
<1> DEFINE N == {i \in Nat : i <= n => g[i] = h[i]}
<1>7. 0 \in N
  BY <1>1, <1>5
<1>8. ASSUME NEW i \in N \cap Nat PROVE i + 1 \in N
  <2>1. CASE i + 1 <= n
    <3>1. i + 1 \in 1 .. n /\ (i + 1) - 1 = i /\ i <= n
      BY <1>0, <2>1
    <3>2. g[i + 1] = h[i + 1]
      BY <1>1, <1>6, <3>1
    <3> QED
      BY <3>2
  <2> QED
    BY <2>1
<1> HIDE DEF N
<1>9. Nat \subseteq N
  BY <1>7, <1>8, EveryNumber
<1>10. g[n] = h[n]
  BY <1>0, <1>9 DEF N
<1> QED
  BY <1>1, <1>2, <1>10

\* No keys lead nowhere.
LEMMA GoesNowhere == ASSUME NEW f, NEW k, Len(k) = 0 PROVE Goes(f, k, f)
<1> DEFINE h == [i \in {0} |-> f]
<1>1. h[0] = f /\ 1 .. 0 = {}
  OBVIOUS
<1> HIDE DEF h
<1> QED
  BY <1>1 DEF Goes

\* Keys behind keys lead on.
LEMMA GoesThrough ==
  ASSUME NEW S, NEW k \in Seq(S), NEW l \in Seq(S), NEW f, NEW e, NEW d,
         Goes(f, k, e), Goes(e, l, d)
  PROVE  Goes(f, k \o l, d)
<1> DEFINE m == Len(k)
           n == Len(l)
           q == k \o l
<1>1. /\ m \in Nat /\ n \in Nat /\ Len(q) = m + n
      /\ \A i \in 1 .. m : q[i] = k[i]
      /\ \A i \in m + 1 .. m + n : q[i] = l[i - m]
  BY ConcatProperties
<1>2. PICK g : /\ g[0] = f /\ g[m] = e
               /\ \A i \in 1 .. m : g[i] = TextPart!Pressed(g[i - 1], k[i])
  BY DEF Goes
<1>3. PICK h : /\ h[0] = e /\ h[n] = d
               /\ \A i \in 1 .. n : h[i] = TextPart!Pressed(h[i - 1], l[i])
  BY DEF Goes
<1> HIDE DEF m, n, q
<1> DEFINE b == [i \in 0 .. m + n |-> IF i <= m THEN g[i] ELSE h[i - m]]
<1>4. \A i \in 0 .. m + n : b[i] = IF i <= m THEN g[i] ELSE h[i - m]
  OBVIOUS
<1> HIDE DEF b
<1>5. b[0] = f
  BY <1>1, <1>2, <1>4
<1>6. \A i \in 0 .. n : b[i + m] = h[i]
  <2> TAKE i \in 0 .. n
  <2>1. i + m \in 0 .. m + n /\ (i + m) - m = i
    BY <1>1
  <2>2. CASE i = 0
    BY <1>1, <1>2, <1>3, <1>4, <2>1, <2>2
  <2>3. CASE i # 0
    BY <1>1, <1>4, <2>1, <2>3
  <2> QED
    BY <2>2, <2>3
<1>7. b[m + n] = d
  BY <1>1, <1>3, <1>6
<1>8. ASSUME NEW i \in 1 .. m + n PROVE b[i] = TextPart!Pressed(b[i - 1], q[i])
  <2>1. CASE i <= m
    <3>1. i \in 1 .. m /\ i \in 0 .. m + n /\ i - 1 \in 0 .. m + n /\ i - 1 <= m
      BY <1>1, <2>1
    <3>2. b[i] = g[i] /\ b[i - 1] = g[i - 1] /\ q[i] = k[i]
      BY <1>1, <1>4, <2>1, <3>1
    <3> QED
      BY <1>2, <3>1, <3>2
  <2>2. CASE i > m
    <3> DEFINE j == i - m
    <3>1. j \in 1 .. n /\ j \in 0 .. n /\ j - 1 \in 0 .. n /\ j + m = i /\ (j - 1) + m = i - 1
          /\ i \in m + 1 .. m + n
      BY <1>1, <2>2
    <3>2. b[i] = h[j] /\ b[i - 1] = h[j - 1] /\ q[i] = l[j]
      BY <1>1, <1>6, <3>1
    <3> HIDE DEF j
    <3> QED
      BY <1>3, <3>1, <3>2
  <2> QED
    BY <1>1, <2>1, <2>2
<1> QED
  BY <1>1, <1>5, <1>7, <1>8 DEF Goes, q

-----------------------------------------------------------------------------
\* The fields of a script, and the keys besides characters.
Fields == {f \in [text : Seq(Char), caret : Nat, anchor : Nat] :
             f.caret <= Len(f.text) /\ f.anchor <= Len(f.text)}
KeyNames == {"left", "right", "shift left", "shift right", "back"}

\* The same key several times.
LEMMA TimesIs ==
  ASSUME NEW n \in Nat, NEW k
  PROVE  /\ TextPart!Times(n, k) \in Seq({k}) /\ Len(TextPart!Times(n, k)) = n
         /\ \A i \in 1 .. n : TextPart!Times(n, k)[i] = k
BY DEF TextPart!Times

\* What a key does to a field.
LEMMA KeysAre ==
  ASSUME NEW f \in Fields
  PROVE  /\ f.caret > 0 =>
              TextPart!Pressed(f, "left")
                = [text |-> f.text, caret |-> f.caret - 1, anchor |-> f.caret - 1]
         /\ f.caret = 0 =>
              TextPart!Pressed(f, "left") = [text |-> f.text, caret |-> 0, anchor |-> 0]
         /\ f.caret < Len(f.text) =>
              TextPart!Pressed(f, "right")
                = [text |-> f.text, caret |-> f.caret + 1, anchor |-> f.caret + 1]
         /\ f.caret = Len(f.text) =>
              TextPart!Pressed(f, "right")
                = [text |-> f.text, caret |-> f.caret, anchor |-> f.caret]
         /\ f.caret > 0 =>
              TextPart!Pressed(f, "shift left")
                = [text |-> f.text, caret |-> f.caret - 1, anchor |-> f.anchor]
         /\ f.caret < Len(f.text) =>
              TextPart!Pressed(f, "shift right")
                = [text |-> f.text, caret |-> f.caret + 1, anchor |-> f.anchor]
<1>1. /\ f = [text |-> f.text, caret |-> f.caret, anchor |-> f.anchor]
      /\ f.text \in Seq(Char) /\ f.caret \in Nat /\ f.anchor \in Nat /\ Len(f.text) \in Nat
      /\ f.caret <= Len(f.text) /\ f.anchor <= Len(f.text)
  BY DEF Fields
<1>2. /\ TextPart!Pressed(f, "left") = TextPart!At(f, TextPart!Back(f))
      /\ TextPart!Pressed(f, "right") = TextPart!At(f, TextPart!Ahead(f))
      /\ TextPart!Pressed(f, "shift left") = [f EXCEPT !.caret = TextPart!Back(f)]
      /\ TextPart!Pressed(f, "shift right") = [f EXCEPT !.caret = TextPart!Ahead(f)]
  BY DEF TextPart!Pressed
<1>3. /\ f.caret > 0 => TextPart!Back(f) = f.caret - 1
      /\ f.caret = 0 => TextPart!Back(f) = 0
      /\ f.caret < Len(f.text) => TextPart!Ahead(f) = f.caret + 1
      /\ f.caret = Len(f.text) => TextPart!Ahead(f) = f.caret
  <2> DEFINE c == f.caret
             n == Len(f.text)
  <2>1. /\ TextPart!Back(f) = (IF c <= 1 THEN 1 ELSE c) - 1
        /\ TextPart!Ahead(f) = IF c + 1 <= n THEN c + 1 ELSE n
    BY DEF TextPart!Back, TextPart!Ahead, TextPart!Most, TextPart!Least
  <2>2. c \in Nat /\ n \in Nat
    BY <1>1
  <2> HIDE DEF c, n
  <2>3. /\ c > 0 => TextPart!Back(f) = c - 1
        /\ c = 0 => TextPart!Back(f) = 0
        /\ c < n => TextPart!Ahead(f) = c + 1
        /\ c = n => TextPart!Ahead(f) = c
    BY <2>1, <2>2
  <2> QED
    BY <2>3 DEF c, n
<1>4. ASSUME NEW c
      PROVE  /\ TextPart!At(f, c) = [text |-> f.text, caret |-> c, anchor |-> c]
             /\ [f EXCEPT !.caret = c] = [text |-> f.text, caret |-> c, anchor |-> f.anchor]
  <2>1. f \in [text : Seq(Char), caret : Nat, anchor : Nat]
    BY DEF Fields
  <2>2. TextPart!At(f, c) = [text |-> f.text, caret |-> c, anchor |-> c]
    <3>1. TextPart!At(f, c) = [f EXCEPT !.caret = c, !.anchor = c]
      BY DEF TextPart!At
    <3> DEFINE g == [f EXCEPT !.caret = c, !.anchor = c]
    <3>2. DOMAIN g = {"text", "caret", "anchor"} /\ g = [x \in DOMAIN g |-> g[x]]
      BY <2>1
    <3>3. g.text = f.text /\ g.caret = c /\ g.anchor = c
      BY <2>1
    <3> HIDE DEF g
    <3>4. g = [text |-> f.text, caret |-> c, anchor |-> c]
      BY <3>2, <3>3
    <3> QED
      BY <3>1, <3>4 DEF g
  <2>3. [f EXCEPT !.caret = c] = [text |-> f.text, caret |-> c, anchor |-> f.anchor]
    BY <2>1
  <2> QED
    BY <2>2, <2>3
<1> QED
  BY <1>2, <1>3, <1>4

-----------------------------------------------------------------------------
\* A text with the characters from a + 1 to b replaced.
Cut(x, a, b, t) == SubSeq(x, 1, a) \o t \o SubSeq(x, b + 1, Len(x))

\* z is x with t, of k characters, for those from a + 1 to b.
Placed(z, x, t, a, b, k, n) ==
  /\ z \in Seq(Char) /\ Len(z) = a + k + (n - b)
  /\ \A i \in 1 .. a : z[i] = x[i]
  /\ \A i \in 1 .. k : z[a + i] = t[i]
  /\ \A i \in 1 .. n - b : z[a + k + i] = x[b + i]

\* Two sequences behind each other.
LEMMA ConcatIs ==
  ASSUME NEW S, NEW u \in Seq(S), NEW v \in Seq(S), NEW m, NEW n, m = Len(u), n = Len(v)
  PROVE  /\ m \in Nat /\ n \in Nat /\ u \o v \in Seq(S) /\ Len(u \o v) = m + n
         /\ \A i \in 1 .. m : (u \o v)[i] = u[i]
         /\ \A i \in 1 .. n : (u \o v)[m + i] = v[i]
<1> DEFINE s == u \o v
<1>1. m \in Nat /\ n \in Nat
  OBVIOUS
<1>2. s \in Seq(S) /\ Len(s) = m + n
  BY ConcatProperties
<1>3. \A i \in 1 .. m + n : s[i] = IF i <= m THEN u[i] ELSE v[i - m]
  BY ConcatProperties
<1> HIDE DEF s
<1>4. ASSUME NEW i \in 1 .. m PROVE s[i] = u[i]
  <2>1. i \in 1 .. m + n /\ i <= m
    BY <1>1
  <2> QED
    BY <1>3, <2>1
<1>5. ASSUME NEW i \in 1 .. n PROVE s[m + i] = v[i]
  <2>1. m + i \in 1 .. m + n /\ ~(m + i <= m) /\ (m + i) - m = i
    BY <1>1
  <2> QED
    BY <1>3, <2>1
<1> QED
  BY <1>1, <1>2, <1>4, <1>5 DEF s

\* The characters of a text in which some were replaced.
LEMMA CutIs ==
  ASSUME NEW x \in Seq(Char), NEW t \in Seq(Char), NEW a \in Nat, NEW b \in Nat,
         NEW k, k = Len(t), NEW n, n = Len(x), a <= b, b <= n
  PROVE  Placed(Cut(x, a, b, t), x, t, a, b, k, n) /\ k \in Nat /\ n \in Nat
<1> DEFINE p == SubSeq(x, 1, a)
           q == SubSeq(x, b + 1, n)
<1>0. n \in Nat /\ k \in Nat
  OBVIOUS
<1>1. p \in Seq(Char) /\ Len(p) = a /\ \A i \in 1 .. a : p[i] = x[i]
  BY <1>0
<1>2. q \in Seq(Char) /\ Len(q) = n - b /\ \A i \in 1 .. n - b : q[i] = x[b + i]
  BY <1>0
<1>c. Cut(x, a, b, t) = (p \o t) \o q
  BY DEF Cut
<1> HIDE DEF p, q
<1> DEFINE r == p \o t
           s == r \o q
<1>3. /\ r \in Seq(Char) /\ Len(r) = a + k
      /\ \A i \in 1 .. a : r[i] = p[i]
      /\ \A i \in 1 .. k : r[a + i] = t[i]
  <2>1. a = Len(p) /\ k = Len(t) /\ p \in Seq(Char)
    BY <1>1
  <2> QED
    BY <2>1, ConcatIs
<1> HIDE DEF r
<1>4. /\ s \in Seq(Char) /\ Len(s) = (a + k) + (n - b)
      /\ \A i \in 1 .. a + k : s[i] = r[i]
      /\ \A i \in 1 .. n - b : s[(a + k) + i] = q[i]
  <2> DEFINE d == a + k
             e == n - b
  <2>1. d = Len(r) /\ e = Len(q) /\ r \in Seq(Char) /\ q \in Seq(Char)
    BY <1>2, <1>3
  <2> HIDE DEF d, e
  <2>2. /\ s \in Seq(Char) /\ Len(s) = d + e
        /\ \A i \in 1 .. d : s[i] = r[i]
        /\ \A i \in 1 .. e : s[d + i] = q[i]
    BY <2>1, ConcatIs
  <2> HIDE DEF s
  <2> QED
    BY <2>2 DEF d, e
<1>5. s = Cut(x, a, b, t)
  BY <1>c DEF r
<1> HIDE DEF s
<1>6. ASSUME NEW i \in 1 .. a PROVE s[i] = x[i]
  <2>1. i \in 1 .. a + k
    BY <1>0
  <2> QED
    BY <1>1, <1>3, <1>4, <2>1
<1>7. ASSUME NEW i \in 1 .. k PROVE s[a + i] = t[i]
  <2>1. a + i \in 1 .. a + k
    BY <1>0
  <2> QED
    BY <1>3, <1>4, <2>1
<1>8. \A i \in 1 .. n - b : s[a + k + i] = x[b + i]
  BY <1>2, <1>4
<1> QED
  BY <1>0, <1>4, <1>5, <1>6, <1>7, <1>8 DEF Placed

\* There is one such text.
LEMMA PlacedOnce ==
  ASSUME NEW a \in Nat, NEW b \in Nat, NEW k \in Nat, NEW n \in Nat, b <= n,
         NEW x, NEW t, NEW y, NEW z, Placed(y, x, t, a, b, k, n), Placed(z, x, t, a, b, k, n)
  PROVE  y = z
<1>1. y \in Seq(Char) /\ z \in Seq(Char) /\ Len(y) = a + k + (n - b) /\ Len(z) = a + k + (n - b)
  BY DEF Placed
<1>2. ASSUME NEW i \in 1 .. a + k + (n - b) PROVE y[i] = z[i]
  <2>1. CASE i \in 1 .. a
    BY <2>1 DEF Placed
  <2>2. CASE i - a \in 1 .. k
    <3> DEFINE j == i - a
    <3>1. i = a + j /\ j \in 1 .. k
      BY <2>2
    <3> HIDE DEF j
    <3> QED
      BY <3>1 DEF Placed
  <2>3. CASE i - (a + k) \in 1 .. n - b
    <3> DEFINE j == i - (a + k)
    <3>1. i = a + k + j /\ j \in 1 .. n - b
      BY <2>3
    <3> HIDE DEF j
    <3> QED
      BY <3>1 DEF Placed
  <2> QED
    BY <2>1, <2>2, <2>3
<1> QED
  BY <1>1, <1>2, SeqEqual

\* Nothing for nothing.
LEMMA CutNothing ==
  ASSUME NEW x \in Seq(Char), NEW a \in Nat, a <= Len(x) PROVE Cut(x, a, a, <<>>) = x
<1> DEFINE n == Len(x)
<1>1. <<>> \in Seq(Char) /\ 0 = Len(<<>>) /\ n = Len(x) /\ n \in Nat /\ a <= a
  BY EmptySeq
<1>2. Placed(Cut(x, a, a, <<>>), x, <<>>, a, a, 0, n)
  BY <1>1, CutIs
<1>3. Placed(x, x, <<>>, a, a, 0, n)
  <2>1. n = a + 0 + (n - a) /\ 1 .. 0 = {}
    BY <1>1
  <2>2. ASSUME NEW i \in 1 .. n - a PROVE a + 0 + i = a + i
    BY <1>1
  <2> QED
    BY <1>1, <2>1, <2>2 DEF Placed
<1> QED
  BY <1>1, <1>2, <1>3, PlacedOnce

\* A second cut that begins before the first.
LEMMA CutMore ==
  ASSUME NEW x \in Seq(Char), NEW a \in Nat, NEW b \in Nat, NEW c \in Nat,
         c <= a, a <= b, b <= Len(x)
  PROVE  Cut(Cut(x, a, b, <<>>), c, a, <<>>) = Cut(x, c, b, <<>>)
<1> DEFINE n == Len(x)
           y == Cut(x, a, b, <<>>)
           z == Cut(y, c, a, <<>>)
<1>0. <<>> \in Seq(Char) /\ 0 = Len(<<>>) /\ n = Len(x) /\ n \in Nat /\ c <= b /\ 1 .. 0 = {}
  BY EmptySeq
<1>1. Placed(y, x, <<>>, a, b, 0, n)
  BY <1>0, CutIs
<1>2. Placed(Cut(x, c, b, <<>>), x, <<>>, c, b, 0, n)
  BY <1>0, CutIs
<1> HIDE DEF y
<1>3. y \in Seq(Char) /\ a <= Len(y) /\ Len(y) \in Nat /\ Len(y) - a = n - b
  BY <1>0, <1>1 DEF Placed
<1> DEFINE m == Len(y)
<1>m. m = Len(y) /\ m \in Nat /\ a <= m /\ m - a = n - b
  BY <1>3
<1>4. Placed(z, y, <<>>, c, a, 0, m)
  BY <1>0, <1>3, <1>m, CutIs
<1> HIDE DEF z, m, n
<1>5. Placed(z, x, <<>>, c, b, 0, n)
  <2>1. z \in Seq(Char) /\ Len(z) = c + 0 + (n - b)
    BY <1>4, <1>m DEF Placed
  <2>2. ASSUME NEW i \in 1 .. c PROVE z[i] = x[i]
    <3>1. i \in 1 .. a
      OBVIOUS
    <3> QED
      BY <1>1, <1>4, <3>1 DEF Placed
  <2>3. ASSUME NEW i \in 1 .. n - b PROVE z[c + 0 + i] = x[b + i]
    <3>1. z[c + 0 + i] = y[a + i]
      BY <1>4, <1>m DEF Placed
    <3>2. y[a + 0 + i] = x[b + i] /\ a + 0 + i = a + i
      BY <1>0, <1>1 DEF Placed
    <3> QED
      BY <3>1, <3>2
  <2> QED
    BY <1>0, <2>1, <2>2, <2>3 DEF Placed
<1>6. z = Cut(x, c, b, <<>>)
  BY <1>0, <1>2, <1>5, PlacedOnce DEF n
<1> QED
  BY <1>6 DEF z, y

\* More characters after those that were put in.
LEMMA CutLonger ==
  ASSUME NEW x \in Seq(Char), NEW t \in Seq(Char), NEW u \in Seq(Char), NEW a \in Nat,
         NEW b \in Nat,
         a <= b, b <= Len(x)
  PROVE  Cut(Cut(x, a, b, t), a + Len(t), a + Len(t), u) = Cut(x, a, b, t \o u)
<1> DEFINE n == Len(x)
           k == Len(t)
           l == Len(u)
           c == a + k
           y == Cut(x, a, b, t)
           v == t \o u
           z == Cut(y, c, c, u)
           m == Len(y)
<1>0. n = Len(x) /\ k = Len(t) /\ l = Len(u) /\ m = Len(y) /\ n \in Nat /\ k \in Nat /\ l \in Nat
  OBVIOUS
<1>v. /\ v \in Seq(Char) /\ k + l = Len(v)
      /\ \A i \in 1 .. k : v[i] = t[i]
      /\ \A i \in 1 .. l : v[k + i] = u[i]
  BY ConcatIs
<1> HIDE DEF n, k, l, v
<1>1. Placed(y, x, t, a, b, k, n)
  BY <1>0, CutIs
<1>2. Placed(Cut(x, a, b, v), x, v, a, b, k + l, n)
  BY <1>0, <1>v, CutIs
<1> HIDE DEF y
<1>3. y \in Seq(Char) /\ m = a + k + (n - b)
  BY <1>0, <1>1 DEF Placed
<1>c. c = a + k /\ c \in Nat /\ m \in Nat /\ c <= c /\ c <= m /\ m - c = n - b
  BY <1>0, <1>3
<1> HIDE DEF c, m
<1>4. Placed(z, y, u, c, c, l, m)
  BY <1>0, <1>3, <1>c, CutIs
<1> HIDE DEF z
<1>5. Placed(z, x, v, a, b, k + l, n)
  <2>1. z \in Seq(Char) /\ Len(z) = a + (k + l) + (n - b)
    <3>1. z \in Seq(Char) /\ Len(z) = c + l + (m - c)
      BY <1>4 DEF Placed
    <3>2. c + l + (m - c) = a + (k + l) + (n - b)
      BY <1>0, <1>c
    <3> QED
      BY <3>1, <3>2
  <2>2. ASSUME NEW i \in 1 .. a PROVE z[i] = x[i]
    <3>1. i \in 1 .. c
      BY <1>0, <1>c
    <3> QED
      BY <1>1, <1>4, <3>1 DEF Placed
  <2>3. ASSUME NEW i \in 1 .. k + l PROVE z[a + i] = v[i]
    <3>1. CASE i \in 1 .. k
      <4>1. a + i \in 1 .. c
        BY <1>0, <1>c, <3>1
      <4>2. z[a + i] = y[a + i]
        BY <1>4, <4>1 DEF Placed
      <4> QED
        BY <1>1, <1>v, <3>1, <4>2 DEF Placed
    <3>2. CASE i \notin 1 .. k
      <4> DEFINE j == i - k
      <4>1. j \in 1 .. l /\ c + j = a + i /\ i = k + j
        BY <1>0, <1>c, <3>2
      <4> HIDE DEF j
      <4>2. z[c + j] = u[j]
        BY <1>4, <4>1 DEF Placed
      <4> QED
        BY <1>v, <4>1, <4>2
    <3> QED
      BY <3>1, <3>2
  <2>4. ASSUME NEW i \in 1 .. n - b PROVE z[a + (k + l) + i] = x[b + i]
    <3>1. a + (k + l) + i = c + l + i /\ a + k + i = c + i
      BY <1>0, <1>c
    <3>2. z[c + l + i] = y[c + i]
      BY <1>4, <1>c DEF Placed
    <3>3. y[a + k + i] = x[b + i]
      BY <1>1 DEF Placed
    <3> QED
      BY <3>1, <3>2, <3>3
  <2> QED
    BY <2>1, <2>2, <2>3, <2>4 DEF Placed
<1>6. k + l \in Nat /\ b <= n
  BY <1>0
<1>7. z = Cut(x, a, b, v)
  BY <1>0, <1>2, <1>5, <1>6, PlacedOnce
<1> QED
  BY <1>7 DEF z, y, v, k, c

-----------------------------------------------------------------------------
\* A field without a selection, and one with its text from a to c selected.
Plain(x, c) == [text |-> x, caret |-> c, anchor |-> c]
Marked(x, a, c) == [text |-> x, caret |-> c, anchor |-> a]

\* A text with a selection is a field.
LEMMA MarkedIs ==
  ASSUME NEW x \in Seq(Char), NEW a \in 0 .. Len(x), NEW c \in 0 .. Len(x)
  PROVE  /\ Marked(x, a, c) \in Fields /\ Marked(x, a, c).text = x
         /\ Marked(x, a, c).caret = c /\ Marked(x, a, c).anchor = a /\ Plain(x, a) = Marked(x, a, a)
<1>1. a \in Nat /\ c \in Nat /\ a <= Len(x) /\ c <= Len(x)
  OBVIOUS
<1> QED
  BY <1>1 DEF Marked, Plain, Fields

\* Arrows that do not leave the text.
LEMMA LeftOnce ==
  ASSUME NEW x \in Seq(Char), NEW c \in 1 .. Len(x), NEW a \in 0 .. Len(x)
  PROVE  /\ TextPart!Pressed(Plain(x, c), "left") = Plain(x, c - 1)
         /\ TextPart!Pressed(Marked(x, a, c), "shift left") = Marked(x, a, c - 1)
<1>1. Marked(x, a, c) \in Fields /\ Plain(x, c) \in Fields /\ c > 0
  BY MarkedIs
<1> QED
  BY <1>1, KeysAre DEF Plain, Marked

\* Arrows to the right.
LEMMA RightOnce ==
  ASSUME NEW x \in Seq(Char), NEW c \in 0 .. Len(x) - 1, NEW a \in 0 .. Len(x)
  PROVE  /\ TextPart!Pressed(Plain(x, c), "right") = Plain(x, c + 1)
         /\ TextPart!Pressed(Marked(x, a, c), "shift right") = Marked(x, a, c + 1)
<1>0. c \in 0 .. Len(x) /\ c < Len(x)
  OBVIOUS
<1>1. Marked(x, a, c) \in Fields /\ Plain(x, c) \in Fields
  BY <1>0, MarkedIs
<1> QED
  BY <1>0, <1>1, KeysAre DEF Plain, Marked

\* Several arrows, without and with shift.
LEMMA Lefts ==
  ASSUME NEW x \in Seq(Char), NEW c \in 0 .. Len(x), NEW n \in 0 .. c
  PROVE  Goes(Plain(x, c), TextPart!Times(n, "left"), Plain(x, c - n))
<1> DEFINE k == TextPart!Times(n, "left")
           h == [i \in 0 .. n |-> Plain(x, c - i)]
<1>0. n \in Nat /\ c \in Nat /\ Len(x) \in Nat
  OBVIOUS
<1>1. Len(k) = n /\ \A i \in 1 .. n : k[i] = "left"
  BY <1>0, TimesIs
<1>2. h[0] = Plain(x, c) /\ h[n] = Plain(x, c - n)
  BY <1>0
<1>3. ASSUME NEW i \in 1 .. n PROVE h[i] = TextPart!Pressed(h[i - 1], k[i])
  <2>1. i \in 0 .. n /\ i - 1 \in 0 .. n /\ c - (i - 1) \in 1 .. Len(x) /\ (c - (i - 1)) - 1 = c - i
    BY <1>0
  <2>2. h[i] = Plain(x, c - i) /\ h[i - 1] = Plain(x, c - (i - 1))
    BY <2>1
  <2>3. 0 \in 0 .. Len(x)
    BY <1>0
  <2>4. TextPart!Pressed(Plain(x, c - (i - 1)), "left") = Plain(x, (c - (i - 1)) - 1)
    BY <2>1, <2>3, LeftOnce
  <2> QED
    BY <1>1, <2>1, <2>2, <2>4
<1> HIDE DEF h, k
<1>4. Goes(Plain(x, c), k, Plain(x, c - n))
  BY <1>1, <1>2, <1>3 DEF Goes
<1> QED
  BY <1>4 DEF k

LEMMA ShiftLefts ==
  ASSUME NEW x \in Seq(Char), NEW a \in 0 .. Len(x), NEW c \in 0 .. Len(x), NEW n \in 0 .. c
  PROVE  Goes(Marked(x, a, c), TextPart!Times(n, "shift left"), Marked(x, a, c - n))
<1> DEFINE k == TextPart!Times(n, "shift left")
           h == [i \in 0 .. n |-> Marked(x, a, c - i)]
<1>0. n \in Nat /\ c \in Nat /\ Len(x) \in Nat
  OBVIOUS
<1>1. Len(k) = n /\ \A i \in 1 .. n : k[i] = "shift left"
  BY <1>0, TimesIs
<1>2. h[0] = Marked(x, a, c) /\ h[n] = Marked(x, a, c - n)
  BY <1>0
<1>3. ASSUME NEW i \in 1 .. n PROVE h[i] = TextPart!Pressed(h[i - 1], k[i])
  <2>1. i \in 0 .. n /\ i - 1 \in 0 .. n /\ c - (i - 1) \in 1 .. Len(x) /\ (c - (i - 1)) - 1 = c - i
    BY <1>0
  <2>2. h[i] = Marked(x, a, c - i) /\ h[i - 1] = Marked(x, a, c - (i - 1))
    BY <2>1
  <2>3. TextPart!Pressed(Marked(x, a, c - (i - 1)), "shift left") = Marked(x, a, (c - (i - 1)) - 1)
    BY <2>1, LeftOnce
  <2> QED
    BY <1>1, <2>1, <2>2, <2>3
<1> HIDE DEF h, k
<1>4. Goes(Marked(x, a, c), k, Marked(x, a, c - n))
  BY <1>1, <1>2, <1>3 DEF Goes
<1> QED
  BY <1>4 DEF k

LEMMA Rights ==
  ASSUME NEW x \in Seq(Char), NEW c \in 0 .. Len(x), NEW n \in 0 .. Len(x) - c
  PROVE  Goes(Plain(x, c), TextPart!Times(n, "right"), Plain(x, c + n))
<1> DEFINE k == TextPart!Times(n, "right")
           h == [i \in 0 .. n |-> Plain(x, c + i)]
<1>0. n \in Nat /\ c \in Nat /\ Len(x) \in Nat
  OBVIOUS
<1>1. Len(k) = n /\ \A i \in 1 .. n : k[i] = "right"
  BY <1>0, TimesIs
<1>2. h[0] = Plain(x, c) /\ h[n] = Plain(x, c + n)
  BY <1>0
<1>3. ASSUME NEW i \in 1 .. n PROVE h[i] = TextPart!Pressed(h[i - 1], k[i])
  <2>1. /\ i \in 0 .. n /\ i - 1 \in 0 .. n /\ c + (i - 1) \in 0 .. Len(x) - 1
        /\ (c + (i - 1)) + 1 = c + i
    BY <1>0
  <2>2. h[i] = Plain(x, c + i) /\ h[i - 1] = Plain(x, c + (i - 1))
    BY <2>1
  <2>3. 0 \in 0 .. Len(x)
    BY <1>0
  <2>4. TextPart!Pressed(Plain(x, c + (i - 1)), "right") = Plain(x, (c + (i - 1)) + 1)
    BY <2>1, <2>3, RightOnce
  <2> QED
    BY <1>1, <2>1, <2>2, <2>4
<1> HIDE DEF h, k
<1>4. Goes(Plain(x, c), k, Plain(x, c + n))
  BY <1>1, <1>2, <1>3 DEF Goes
<1> QED
  BY <1>4 DEF k

LEMMA ShiftRights ==
  ASSUME NEW x \in Seq(Char), NEW a \in 0 .. Len(x), NEW c \in 0 .. Len(x),
         NEW n \in 0 .. Len(x) - c
  PROVE  Goes(Marked(x, a, c), TextPart!Times(n, "shift right"), Marked(x, a, c + n))
<1> DEFINE k == TextPart!Times(n, "shift right")
           h == [i \in 0 .. n |-> Marked(x, a, c + i)]
<1>0. n \in Nat /\ c \in Nat /\ Len(x) \in Nat
  OBVIOUS
<1>1. Len(k) = n /\ \A i \in 1 .. n : k[i] = "shift right"
  BY <1>0, TimesIs
<1>2. h[0] = Marked(x, a, c) /\ h[n] = Marked(x, a, c + n)
  BY <1>0
<1>3. ASSUME NEW i \in 1 .. n PROVE h[i] = TextPart!Pressed(h[i - 1], k[i])
  <2>1. /\ i \in 0 .. n /\ i - 1 \in 0 .. n /\ c + (i - 1) \in 0 .. Len(x) - 1
        /\ (c + (i - 1)) + 1 = c + i
    BY <1>0
  <2>2. h[i] = Marked(x, a, c + i) /\ h[i - 1] = Marked(x, a, c + (i - 1))
    BY <2>1
  <2>3. TextPart!Pressed(Marked(x, a, c + (i - 1)), "shift right") = Marked(x, a, (c + (i - 1)) + 1)
    BY <2>1, RightOnce
  <2> QED
    BY <1>1, <2>1, <2>2, <2>3
<1> HIDE DEF h, k
<1>4. Goes(Marked(x, a, c), k, Marked(x, a, c + n))
  BY <1>1, <1>2, <1>3 DEF Goes
<1> QED
  BY <1>4 DEF k

\* Characters, and backspace over a selection.
LEMMA OverMarked ==
  ASSUME NEW x \in Seq(Char), NEW a \in 0 .. Len(x), NEW c \in a .. Len(x), NEW t \in Seq(Char)
  PROVE  TextPart!OverSelection(Marked(x, a, c), t) = Plain(Cut(x, a, c, t), a + Len(t))
<1>0. a \in Nat /\ c \in Nat /\ a <= c /\ c \in 0 .. Len(x)
  OBVIOUS
<1>1. Marked(x, a, c).text = x /\ Marked(x, a, c).caret = c /\ Marked(x, a, c).anchor = a
  BY <1>0, MarkedIs
<1>2. TextPart!Least(c, a) = a /\ TextPart!Most(c, a) = c
  BY <1>0 DEF TextPart!Least, TextPart!Most
<1> QED
  BY <1>1, <1>2 DEF TextPart!OverSelection, TextPart!Replaced, Cut, Plain

\* A character is none of the other keys.
LEMMA CharacterTyped ==
  ASSUME NEW f, NEW y \in Char PROVE TextPart!Pressed(f, y) = TextPart!OverSelection(f, <<y>>)
<1>1. y # "left" /\ y # "right" /\ y # "shift left" /\ y # "shift right" /\ y # "back"
  BY TextAssumption
<1> QED
  BY <1>1 DEF TextPart!Pressed

\* Backspace without a selection, once and several times.
LEMMA BackOnce ==
  ASSUME NEW x \in Seq(Char), NEW c \in 1 .. Len(x)
  PROVE  TextPart!Pressed(Plain(x, c), "back") = Plain(Cut(x, c - 1, c, <<>>), c - 1)
<1>1. Plain(x, c).text = x /\ Plain(x, c).caret = c /\ Plain(x, c).anchor = c
  BY DEF Plain
<1>2. TextPart!Back(Plain(x, c)) = c - 1
  BY <1>1 DEF TextPart!Back, TextPart!Most
<1>3. TextPart!Pressed(Plain(x, c), "back") = TextPart!Replaced(Plain(x, c), c - 1, c, <<>>)
  BY <1>1, <1>2 DEF TextPart!Pressed
<1>4. (c - 1) + Len(<<>>) = c - 1
  OBVIOUS
<1> QED
  BY <1>1, <1>3, <1>4 DEF TextPart!Replaced, Cut, Plain

LEMMA Backs ==
  ASSUME NEW x \in Seq(Char), NEW c \in 0 .. Len(x), NEW n \in 0 .. c
  PROVE  Goes(Plain(x, c), TextPart!Times(n, "back"), Plain(Cut(x, c - n, c, <<>>), c - n))
<1> DEFINE k == TextPart!Times(n, "back")
           h == [i \in 0 .. n |-> Plain(Cut(x, c - i, c, <<>>), c - i)]
<1>0. n \in Nat /\ c \in Nat /\ Len(x) \in Nat /\ c <= Len(x)
  OBVIOUS
<1>1. Len(k) = n /\ \A i \in 1 .. n : k[i] = "back"
  BY <1>0, TimesIs
<1>2. h[0] = Plain(x, c)
  <2>1. h[0] = Plain(Cut(x, c - 0, c, <<>>), c - 0) /\ c - 0 = c
    BY <1>0
  <2>2. Cut(x, c, c, <<>>) = x
    BY <1>0, CutNothing
  <2> HIDE DEF h
  <2> QED
    BY <2>1, <2>2
<1>3. h[n] = Plain(Cut(x, c - n, c, <<>>), c - n)
  BY <1>0
<1>4. ASSUME NEW i \in 1 .. n PROVE h[i] = TextPart!Pressed(h[i - 1], k[i])
  <2> DEFINE a == c - (i - 1)
             y == Cut(x, a, c, <<>>)
  <2>1. /\ i \in 0 .. n /\ i - 1 \in 0 .. n /\ a \in Nat /\ a >= 1 /\ a - 1 = c - i
        /\ a <= c /\ a - 1 \in Nat /\ a - 1 <= a
    BY <1>0
  <2>2. h[i] = Plain(Cut(x, c - i, c, <<>>), c - i) /\ h[i - 1] = Plain(y, a)
    BY <2>1
  <2> HIDE DEF h, a
  <2>3. y \in Seq(Char) /\ Len(y) = a + 0 + (Len(x) - c)
    <3>1. <<>> \in Seq(Char) /\ 0 = Len(<<>>)
      BY EmptySeq
    <3> HIDE DEF y
    <3>2. Placed(y, x, <<>>, a, c, 0, Len(x))
      BY <1>0, <2>1, <3>1, CutIs DEF y
    <3> QED
      BY <3>2 DEF Placed
  <2>4. Cut(y, a - 1, a, <<>>) = Cut(x, a - 1, c, <<>>)
    BY <1>0, <2>1, CutMore
  <2> HIDE DEF y
  <2>5. a \in 1 .. Len(y)
    BY <1>0, <2>1, <2>3
  <2>6. TextPart!Pressed(Plain(y, a), "back") = Plain(Cut(y, a - 1, a, <<>>), a - 1)
    BY <2>3, <2>5, BackOnce
  <2> QED
    BY <1>1, <2>1, <2>2, <2>4, <2>6
<1> HIDE DEF h, k
<1>5. Goes(Plain(x, c), k, Plain(Cut(x, c - n, c, <<>>), c - n))
  BY <1>1, <1>2, <1>3, <1>4 DEF Goes
<1> QED
  BY <1>5 DEF k

\* Characters replace the selection and follow each other.
LEMMA Characters ==
  ASSUME NEW x \in Seq(Char), NEW a \in 0 .. Len(x), NEW c \in a .. Len(x), NEW t \in Seq(Char),
         t # <<>>
  PROVE  Goes(Marked(x, a, c), t, Plain(Cut(x, a, c, t), a + Len(t)))
<1> DEFINE n == Len(t)
           T(i) == SubSeq(t, 1, i)
           h == [i \in 0 .. n |-> IF i = 0 THEN Marked(x, a, c)
                                  ELSE Plain(Cut(x, a, c, T(i)), a + i)]
<1>0. /\ n \in Nat /\ n > 0 /\ a \in Nat /\ c \in Nat /\ Len(x) \in Nat /\ a <= c /\ c <= Len(x)
      /\ \A i \in 1 .. n : t[i] \in Char
  BY EmptySeq
<1>t. ASSUME NEW i \in 0 .. n PROVE T(i) \in Seq(Char) /\ Len(T(i)) = i
  OBVIOUS
<1>1. h[0] = Marked(x, a, c)
  BY <1>0
<1>2. h[n] = Plain(Cut(x, a, c, t), a + n)
  <2>1. T(n) = t
    BY <1>0
  <2>2. h[n] = Plain(Cut(x, a, c, T(n)), a + n)
    BY <1>0
  <2> QED
    BY <2>1, <2>2
<1>3. ASSUME NEW i \in 1 .. n PROVE h[i] = TextPart!Pressed(h[i - 1], t[i])
  <2> DEFINE u == <<t[i]>>
  <2>0. /\ i \in 0 .. n /\ i - 1 \in 0 .. n /\ i # 0 /\ t[i] \in Char /\ u \in Seq(Char)
        /\ Len(u) = 1
    BY <1>0
  <2>1. h[i] = Plain(Cut(x, a, c, T(i)), a + i)
    BY <2>0
  <2>2. TextPart!Pressed(h[i - 1], t[i]) = TextPart!OverSelection(h[i - 1], u)
    BY <2>0, CharacterTyped
  <2>3. CASE i = 1
    <3>1. h[i - 1] = Marked(x, a, c)
      BY <1>0, <2>3
    <3>2. T(1) = u
      <4>1. T(1) \in Seq(Char) /\ Len(T(1)) = 1 /\ T(1)[1] = t[1] /\ u[1] = t[1]
        BY <1>0, <2>3
      <4> HIDE DEF T, u
      <4>2. \A k \in 1 .. 1 : T(1)[k] = u[k]
        BY <4>1
      <4> QED
        BY <2>0, <4>1, <4>2, SeqEqual
    <3> HIDE DEF h
    <3>3. TextPart!OverSelection(Marked(x, a, c), u) = Plain(Cut(x, a, c, u), a + Len(u))
      BY <2>0, OverMarked
    <3> QED
      BY <2>0, <2>1, <2>2, <2>3, <3>1, <3>2, <3>3
  <2>4. CASE i # 1
    <3> DEFINE j == i - 1
               p == T(j)
               y == Cut(x, a, c, p)
               d == a + j
    <3>1. j \in 0 .. n /\ j # 0 /\ j \in Nat /\ j + 1 = i /\ d \in Nat /\ d + 1 = a + i
      BY <1>0, <2>4
    <3>2. h[i - 1] = Plain(y, d)
      BY <3>1
    <3> HIDE DEF h
    <3>3. p \in Seq(Char) /\ Len(p) = j
      BY <1>t, <3>1
    <3>4. T(i) = p \o u
      BY <1>0, <2>0, <3>1
    <3> HIDE DEF T, j, p, u
    <3>5. y \in Seq(Char) /\ Len(y) = d + (Len(x) - c)
      <4>1. j = Len(p)
        BY <3>3
      <4> HIDE DEF y
      <4>2. Placed(y, x, p, a, c, j, Len(x))
        BY <1>0, <3>3, <4>1, CutIs DEF y
      <4> QED
        BY <4>2 DEF Placed
    <3>6. Cut(y, d, d, u) = Cut(x, a, c, p \o u)
      <4>0. a \in Nat /\ c \in Nat /\ a <= c /\ c <= Len(x) /\ p \in Seq(Char) /\ u \in Seq(Char)
        BY <1>0, <2>0, <3>3
      <4>1. Cut(Cut(x, a, c, p), a + Len(p), a + Len(p), u) = Cut(x, a, c, p \o u)
        BY <4>0, CutLonger
      <4>2. d = a + Len(p)
        BY <3>3
      <4> QED
        BY <4>1, <4>2
    <3> HIDE DEF y, d
    <3>7. d \in 0 .. Len(y) /\ d \in d .. Len(y)
      BY <1>0, <3>1, <3>5
    <3>8. TextPart!OverSelection(Marked(y, d, d), u) = Plain(Cut(y, d, d, u), d + Len(u))
      BY <2>0, <3>5, <3>7, OverMarked
    <3>9. Plain(y, d) = Marked(y, d, d)
      BY DEF Plain, Marked
    <3> QED
      BY <2>0, <2>1, <2>2, <3>1, <3>2, <3>4, <3>6, <3>8, <3>9
  <2> QED
    BY <2>3, <2>4
<1> HIDE DEF h
<1> QED
  BY <1>1, <1>2, <1>3 DEF Goes

-----------------------------------------------------------------------------
\* The characters from a + 1 to b.
LEMMA StretchIs ==
  ASSUME NEW x \in Seq(Char), NEW a \in Nat, NEW b \in Nat, a <= b, b <= Len(x)
  PROVE  /\ SubSeq(x, a + 1, b) \in Seq(Char) /\ Len(SubSeq(x, a + 1, b)) = b - a
         /\ \A i \in 1 .. b - a : SubSeq(x, a + 1, b)[i] = x[a + i]
<1>1. Len(x) \in Nat
  OBVIOUS
<1> QED
  BY <1>1

\* A stretch of a stretch, and two that touch.
LEMMA StretchOf ==
  ASSUME NEW x \in Seq(Char), NEW a \in Nat, NEW b \in Nat, a <= b, b <= Len(x),
         NEW c \in Nat, NEW d \in Nat, c <= d, d <= b - a
  PROVE  SubSeq(SubSeq(x, a + 1, b), c + 1, d) = SubSeq(x, a + c + 1, a + d)
<1> DEFINE y == SubSeq(x, a + 1, b)
           z == SubSeq(y, c + 1, d)
           e == a + c
           f == a + d
           s == SubSeq(x, e + 1, f)
<1>0. Len(x) \in Nat
  OBVIOUS
<1>1. y \in Seq(Char) /\ Len(y) = b - a /\ \A i \in 1 .. b - a : y[i] = x[a + i]
  BY StretchIs
<1> HIDE DEF y
<1>2. d <= Len(y)
  BY <1>1
<1>3. z \in Seq(Char) /\ Len(z) = d - c /\ \A i \in 1 .. d - c : z[i] = y[c + i]
  BY <1>1, <1>2, StretchIs
<1>4. e \in Nat /\ f \in Nat /\ e <= f /\ f <= Len(x) /\ f - e = d - c /\ e = a + c /\ f = a + d
  BY <1>0
<1> HIDE DEF e, f
<1>5. s \in Seq(Char) /\ Len(s) = f - e /\ \A i \in 1 .. f - e : s[i] = x[e + i]
  BY <1>4, StretchIs
<1> HIDE DEF z, s
<1>6. ASSUME NEW i \in 1 .. d - c PROVE z[i] = s[i]
  <2>1. c + i \in 1 .. b - a /\ a + (c + i) = e + i
    BY <1>4
  <2>2. z[i] = x[a + (c + i)]
    BY <1>1, <1>3, <2>1
  <2>3. s[i] = x[e + i]
    BY <1>4, <1>5
  <2> QED
    BY <2>1, <2>2, <2>3
<1>7. z = s
  BY <1>3, <1>4, <1>5, <1>6, SeqEqual
<1> QED
  BY <1>7 DEF z, s, y, e, f

LEMMA StretchesJoin ==
  ASSUME NEW x \in Seq(Char), NEW a \in Nat, NEW b \in Nat,
         NEW c \in Nat, a <= b, b <= c, c <= Len(x)
  PROVE  SubSeq(x, a + 1, b) \o SubSeq(x, b + 1, c) = SubSeq(x, a + 1, c)
<1> DEFINE p == SubSeq(x, a + 1, b)
           q == SubSeq(x, b + 1, c)
           s == SubSeq(x, a + 1, c)
           m == b - a
           n == c - b
           r == p \o q
<1>0. b <= Len(x) /\ a <= c /\ m \in Nat /\ n \in Nat /\ Len(x) \in Nat /\ m = b - a /\ n = c - b
  OBVIOUS
<1>1. p \in Seq(Char) /\ Len(p) = m /\ \A i \in 1 .. m : p[i] = x[a + i]
  BY <1>0, StretchIs
<1>2. q \in Seq(Char) /\ Len(q) = n /\ \A i \in 1 .. n : q[i] = x[b + i]
  BY <1>0, StretchIs
<1>3. s \in Seq(Char) /\ Len(s) = c - a /\ \A i \in 1 .. c - a : s[i] = x[a + i]
  BY <1>0, StretchIs
<1> HIDE DEF p, q, s, m, n
<1>4. m = Len(p) /\ n = Len(q)
  BY <1>1, <1>2
<1>5. /\ r \in Seq(Char) /\ Len(r) = m + n
      /\ \A i \in 1 .. m : r[i] = p[i]
      /\ \A i \in 1 .. n : r[m + i] = q[i]
  BY <1>1, <1>2, <1>4, ConcatIs
<1> HIDE DEF r
<1>6. m + n = c - a
  BY <1>0
<1>7. ASSUME NEW i \in 1 .. c - a PROVE r[i] = s[i]
  <2>1. CASE i \in 1 .. m
    BY <1>1, <1>3, <1>5, <2>1
  <2>2. CASE i \notin 1 .. m
    <3> DEFINE j == i - m
    <3>1. j \in 1 .. n /\ m + j = i /\ a + i = b + j
      BY <1>0, <1>6, <2>2
    <3> HIDE DEF j
    <3>2. r[i] = x[b + j]
      BY <1>2, <1>5, <3>1
    <3> QED
      BY <1>3, <3>1, <3>2
  <2> QED
    BY <2>1, <2>2
<1>8. r = s
  BY <1>3, <1>5, <1>6, <1>7, SeqEqual
<1> QED
  BY <1>8 DEF r, p, q, s

\* The parts of a text in which characters were replaced.
CutApart(z, x, t, a, b) ==
  /\ z \in Seq(Char) /\ Len(z) = a + Len(t) + (Len(x) - b)
  /\ SubSeq(z, 1, a) = SubSeq(x, 1, a)
  /\ SubSeq(z, a + 1, a + Len(t)) = t
  /\ SubSeq(z, 1, a + Len(t)) = SubSeq(x, 1, a) \o t
  /\ SubSeq(z, a + Len(t) + 1, Len(z)) = SubSeq(x, b + 1, Len(x))

LEMMA CutParts ==
  ASSUME NEW x \in Seq(Char), NEW t \in Seq(Char), NEW a \in Nat,
         NEW b \in Nat, a <= b, b <= Len(x),
         NEW z, z = Cut(x, a, b, t)
  PROVE  CutApart(z, x, t, a, b)
<1> DEFINE k == Len(t)
           n == Len(x)
           c == a + k
<1>0. k = Len(t) /\ n = Len(x) /\ k \in Nat /\ n \in Nat /\ c \in Nat /\ c = a + k /\ a <= c
      /\ a <= n
  OBVIOUS
<1>1. Placed(z, x, t, a, b, k, n)
  BY <1>0, CutIs
<1> HIDE DEF k, n, c
<1>2. z \in Seq(Char) /\ Len(z) = c + (n - b) /\ Len(z) \in Nat /\ c <= Len(z) /\ a <= Len(z)
  <2>1. z \in Seq(Char) /\ Len(z) = a + k + (n - b)
    BY <1>1 DEF Placed
  <2> QED
    BY <1>0, <2>1
<1>3. SubSeq(z, 0 + 1, a) = SubSeq(x, 0 + 1, a)
  <2> DEFINE p == SubSeq(z, 0 + 1, a)
             q == SubSeq(x, 0 + 1, a)
  <2>0. 0 \in Nat /\ 0 <= a /\ a - 0 = a
    OBVIOUS
  <2>1. p \in Seq(Char) /\ Len(p) = a - 0 /\ \A i \in 1 .. a - 0 : p[i] = z[0 + i]
    BY <1>2, <2>0, StretchIs
  <2>2. q \in Seq(Char) /\ Len(q) = a - 0 /\ \A i \in 1 .. a - 0 : q[i] = x[0 + i]
    BY <1>0, <2>0, StretchIs
  <2> HIDE DEF p, q
  <2>3. ASSUME NEW i \in 1 .. a PROVE p[i] = q[i]
    <3>1. 0 + i = i /\ i \in 1 .. a - 0
      BY <2>0
    <3>2. z[i] = x[i]
      BY <1>1 DEF Placed
    <3> QED
      BY <2>1, <2>2, <3>1, <3>2
  <2>4. p = q
    BY <2>0, <2>1, <2>2, <2>3, SeqEqual
  <2> QED
    BY <2>4 DEF p, q
<1>4. SubSeq(z, a + 1, c) = t
  <2> DEFINE p == SubSeq(z, a + 1, c)
  <2>1. p \in Seq(Char) /\ Len(p) = c - a /\ \A i \in 1 .. c - a : p[i] = z[a + i]
    BY <1>0, <1>2, StretchIs
  <2> HIDE DEF p
  <2>2. c - a = k
    BY <1>0
  <2>3. ASSUME NEW i \in 1 .. k PROVE p[i] = t[i]
    BY <1>1, <2>1, <2>2 DEF Placed
  <2>4. p = t
    BY <1>0, <2>1, <2>2, <2>3, SeqEqual
  <2> QED
    BY <2>4 DEF p
<1>5. SubSeq(z, c + 1, Len(z)) = SubSeq(x, b + 1, n)
  <2> DEFINE p == SubSeq(z, c + 1, Len(z))
             q == SubSeq(x, b + 1, n)
  <2>1. p \in Seq(Char) /\ Len(p) = Len(z) - c /\ \A i \in 1 .. Len(z) - c : p[i] = z[c + i]
    <3> DEFINE m == Len(z)
    <3>1. z \in Seq(Char) /\ c \in Nat /\ m \in Nat /\ c <= m /\ m <= Len(z)
      BY <1>0, <1>2
    <3> HIDE DEF m
    <3>2. /\ SubSeq(z, c + 1, m) \in Seq(Char) /\ Len(SubSeq(z, c + 1, m)) = m - c
          /\ \A i \in 1 .. m - c : SubSeq(z, c + 1, m)[i] = z[c + i]
      BY <3>1, StretchIs
    <3> QED
      BY <3>2 DEF m
  <2>2. q \in Seq(Char) /\ Len(q) = n - b /\ \A i \in 1 .. n - b : q[i] = x[b + i]
    <3>1. n <= Len(x) /\ b <= n
      BY <1>0
    <3> QED
      BY <1>0, <3>1, StretchIs
  <2> HIDE DEF p, q
  <2>3. Len(z) - c = n - b
    BY <1>0, <1>2
  <2>4. ASSUME NEW i \in 1 .. n - b PROVE p[i] = q[i]
    <3>1. z[a + k + i] = x[b + i] /\ a + k + i = c + i
      BY <1>0, <1>1 DEF Placed
    <3> QED
      BY <2>1, <2>2, <2>3, <3>1
  <2>5. p = q
    BY <2>1, <2>2, <2>3, <2>4, SeqEqual
  <2> QED
    BY <2>5 DEF p, q
<1>6. SubSeq(z, 0 + 1, a) \o SubSeq(z, a + 1, c) = SubSeq(z, 0 + 1, c)
  <2>1. /\ z \in Seq(Char) /\ 0 \in Nat /\ a \in Nat /\ c \in Nat
        /\ 0 <= a /\ a <= c /\ c <= Len(z)
    BY <1>0, <1>2
  <2> QED
    BY ONLY <2>1, StretchesJoin
<1>7. 0 + 1 = 1
  OBVIOUS
<1>8. SubSeq(z, 1, c) = SubSeq(x, 1, a) \o t
  BY <1>3, <1>4, <1>6, <1>7
<1>9. SubSeq(z, 1, a) = SubSeq(x, 1, a)
  BY <1>3, <1>7
<1> QED
  BY <1>2, <1>4, <1>5, <1>8, <1>9 DEF CutApart, k, n, c

(***************************************************************************)
(* The composition in the text field.                                      *)
(***************************************************************************)
\* The field holds the composition, with the caret behind the selection in it;
\* outside a composition there is no length left.
TextInv ==
  /\ field \in Fields /\ field.anchor <= field.caret
  /\ active \in BOOLEAN /\ composing \in BOOLEAN
  /\ cursor \in 0 .. MaxComp /\ len \in 0 .. MaxComp /\ selection \in 0 .. MaxComp
  /\ composing = TRUE =>
       /\ active = TRUE /\ len > 0 /\ cursor + selection <= len
       /\ cursor <= field.anchor /\ field.caret = field.anchor + selection
       /\ (field.anchor - cursor) + len <= Len(field.text)
  /\ composing # TRUE => len = 0 /\ cursor = 0 /\ selection = 0

\* What is selected outside a composition, and the end of what the next text
\* replaces.
Chosen == IF composing = TRUE THEN 0 ELSE field.caret - field.anchor
End == TextPart!Start + len + Chosen

LEMMA TextBounds == MaxComp \in Nat /\ MaxText \in Nat
BY TextAssumption

\* Where the composition is in the text.
LEMMA TextSituation ==
  ASSUME TextInv
  PROVE  /\ field.text \in Seq(Char) /\ Len(field.text) \in Nat
         /\ field = Marked(field.text, field.anchor, field.caret)
         /\ {field.anchor, field.caret, TextPart!Start, Chosen, End} \subseteq Nat
         /\ {cursor, len, selection} \subseteq Nat
         /\ TextPart!Start + cursor = field.anchor /\ End = TextPart!Start + len + Chosen
         /\ TextPart!Start + len <= End /\ End <= Len(field.text)
         /\ field.anchor <= field.caret /\ field.caret <= Len(field.text) /\ cursor <= len
         /\ composing = TRUE => Chosen = 0 /\ field.caret = field.anchor + selection /\ len > 0
         /\ composing # TRUE => /\ TextPart!Start = field.anchor /\ End = field.caret
                                /\ Chosen = field.caret - field.anchor
                                /\ len = 0 /\ cursor = 0 /\ selection = 0
<1> DEFINE x == field.text
           a == field.anchor
           c == field.caret
           n == Len(x)
           b == TextPart!Start
<1>1. /\ x \in Seq(Char) /\ a \in Nat /\ c \in Nat /\ c <= n /\ a <= n /\ n \in Nat /\ a <= c
      /\ field = Marked(x, a, c)
  BY DEF TextInv, Fields, Marked
<1>2. cursor \in Nat /\ len \in Nat /\ selection \in Nat
  <2>1. cursor \in 0 .. MaxComp /\ len \in 0 .. MaxComp /\ selection \in 0 .. MaxComp
    BY DEF TextInv
  <2> QED
    BY <2>1, TextBounds
<1>3. b = a - cursor /\ End = b + len + Chosen
      /\ Chosen = IF composing = TRUE THEN 0 ELSE c - a
  BY DEF TextPart!Start, End, Chosen
<1>4. /\ composing = TRUE => /\ len > 0 /\ cursor + selection <= len
                             /\ cursor <= a /\ c = a + selection /\ (a - cursor) + len <= n
      /\ composing # TRUE => len = 0 /\ cursor = 0 /\ selection = 0
  BY DEF TextInv
<1> HIDE DEF x, a, c, n, b
<1>5. /\ a \in Nat /\ c \in Nat /\ b \in Nat /\ Chosen \in Nat /\ End \in Nat
      /\ b + cursor = a /\ b + len <= End /\ End <= n /\ cursor <= len
  <2>1. CASE composing = TRUE
    <3>1. Chosen = 0 /\ b \in Nat /\ b + cursor = a /\ End = b + len /\ b + len <= n
          /\ cursor <= len
      BY <1>1, <1>2, <1>3, <1>4, <2>1
    <3> QED
      BY <1>1, <1>2, <3>1
  <2>2. CASE composing # TRUE
    <3>1. len = 0 /\ cursor = 0 /\ selection = 0
      BY <1>4, <2>2
    <3>2. Chosen = c - a
      BY <1>3, <2>2
    <3> QED
      BY <1>1, <1>2, <1>3, <3>1, <3>2
  <2> QED
    BY <2>1, <2>2
<1>6. ASSUME composing = TRUE PROVE Chosen = 0 /\ c = a + selection /\ len > 0
  BY <1>3, <1>4, <1>6
<1>7. ASSUME composing # TRUE
      PROVE  b = a /\ End = c /\ Chosen = c - a /\ len = 0 /\ cursor = 0 /\ selection = 0
  <2>1. len = 0 /\ cursor = 0 /\ selection = 0
    BY <1>4, <1>7
  <2>2. Chosen = c - a
    BY <1>3, <1>7
  <2> QED
    BY <1>1, <1>2, <1>3, <2>1, <2>2
<1>8. field.text = x /\ field.anchor = a /\ field.caret = c /\ TextPart!Start = b
      /\ Len(field.text) = n
  BY DEF x, a, c, n, b
<1> QED
  BY Zenon, <1>1, <1>2, <1>3, <1>5, <1>6, <1>7, <1>8

LEMMA TimesIn ==
  ASSUME NEW S, NEW n \in Nat, NEW k \in S
  PROVE  TextPart!Times(n, k) \in Seq(S) /\ Len(TextPart!Times(n, k)) = n
BY DEF TextPart!Times

\* All keys.
AnyKey == Char \cup KeyNames

\* The keys before the text take the composition out.
Uncomposed == IF composing = TRUE
            THEN Plain(Cut(field.text, TextPart!Start, End, <<>>), TextPart!Start) ELSE field

LEMMA Undone ==
  ASSUME TextInv PROVE Goes(field, TextPart!Undo, Uncomposed) /\ TextPart!Undo \in Seq(AnyKey)
<1> DEFINE x == field.text
           a == field.anchor
           c == field.caret
           b == TextPart!Start
           k == TextPart!Times(selection, "shift left")
           l == TextPart!Times(len - cursor, "right")
           m == TextPart!Times(len, "back")
<1>1. /\ x \in Seq(Char) /\ Len(x) \in Nat /\ field = Marked(x, a, c)
      /\ a \in Nat /\ c \in Nat /\ b \in Nat /\ cursor \in Nat /\ len \in Nat /\ selection \in Nat
      /\ b + cursor = a /\ End = b + len + Chosen /\ End <= Len(x) /\ a <= c /\ c <= Len(x)
      /\ cursor <= len
      /\ composing = TRUE => Chosen = 0 /\ c = a + selection
      /\ composing # TRUE => len = 0 /\ cursor = 0 /\ selection = 0
  BY TextSituation
<1>2. len - cursor \in Nat
  BY <1>1
<1>3. {"shift left", "right", "back"} \subseteq AnyKey
  BY DEF AnyKey, KeyNames
<1>4. /\ k \in Seq(AnyKey) /\ Len(k) = selection /\ l \in Seq(AnyKey) /\ Len(l) = len - cursor
      /\ m \in Seq(AnyKey) /\ Len(m) = len
  <2>1. k \in Seq(AnyKey) /\ Len(k) = selection
    BY <1>1, <1>3, TimesIn
  <2>2. l \in Seq(AnyKey) /\ Len(l) = len - cursor
    BY <1>2, <1>3, TimesIn
  <2>3. m \in Seq(AnyKey) /\ Len(m) = len
    BY <1>1, <1>3, TimesIn
  <2> QED
    BY <2>1, <2>2, <2>3
<1>5. TextPart!Undo = (k \o l) \o m
  BY DEF TextPart!Undo
<1> HIDE DEF k, l, m
<1>6. k \o l \in Seq(AnyKey) /\ (k \o l) \o m \in Seq(AnyKey)
  <2>1. k \o l \in Seq(AnyKey)
    BY <1>4, ConcatProperties
  <2> QED
    BY <1>4, <2>1, ConcatProperties
<1>7. Goes(field, (k \o l) \o m, Uncomposed)
  <2>1. CASE composing = TRUE
    <3> DEFINE y == Plain(x, a)
               w == Plain(x, b + len)
               v == Plain(Cut(x, b, b + len, <<>>), b)
    <3>1. /\ selection \in 0 .. c /\ c - selection = a /\ len - cursor \in 0 .. Len(x) - a
          /\ a + (len - cursor) = b + len /\ b + len \in 0 .. Len(x) /\ len \in 0 .. b + len
          /\ (b + len) - len = b /\ a \in 0 .. Len(x) /\ c \in 0 .. Len(x) /\ End = b + len
      BY <1>1, <2>1
    <3>2. y = Marked(x, a, a)
      BY DEF Plain, Marked
    <3> HIDE DEF x, a, c, b, k, l, m
    <3>3. Goes(Marked(x, a, c), k, Marked(x, a, c - selection))
      BY <1>1, <3>1, ShiftLefts DEF k
    <3>4. Goes(field, k, y)
      BY <1>1, <3>1, <3>2, <3>3
    <3>5. Goes(y, l, Plain(x, a + (len - cursor)))
      BY <1>1, <3>1, Rights DEF l
    <3>6. Goes(y, l, w)
      BY <3>1, <3>5
    <3>7. Goes(w, m, Plain(Cut(x, (b + len) - len, b + len, <<>>), (b + len) - len))
      BY <1>1, <3>1, Backs DEF m
    <3>8. Goes(w, m, v)
      BY <3>1, <3>7
    <3>9. Uncomposed = v
      BY <2>1, <3>1 DEF Uncomposed, x, b
    <3> HIDE DEF y, w, v
    <3>10. Goes(field, k \o l, w)
      BY <1>4, <3>4, <3>6, GoesThrough
    <3>11. Goes(field, (k \o l) \o m, v)
      BY <1>4, <1>6, <3>8, <3>10, GoesThrough
    <3> QED
      BY <3>9, <3>11
  <2>2. CASE composing # TRUE
    <3>0. selection = 0 /\ len = 0 /\ cursor = 0
      BY <1>1, <2>2
    <3>1. Len(k) = 0 /\ Len(l) = 0 /\ Len(m) = 0
      BY <1>4, <3>0
    <3>2. Uncomposed = field
      BY <2>2 DEF Uncomposed
    <3> HIDE DEF x, a, c, b, k, l, m
    <3>3. Goes(field, k, field) /\ Goes(field, l, field) /\ Goes(field, m, field)
      BY <3>1, GoesNowhere
    <3>4. Goes(field, k \o l, field)
      BY <1>4, <3>3, GoesThrough
    <3>5. Goes(field, (k \o l) \o m, field)
      BY <1>4, <1>6, <3>3, <3>4, GoesThrough
    <3> QED
      BY <3>2, <3>5
  <2> QED
    BY <2>1, <2>2
<1> QED
  BY <1>5, <1>6, <1>7

\* The keys and the text replace it.
With(t) == Plain(Cut(field.text, TextPart!Start, End, t), TextPart!Start + Len(t))

LEMMA Retyped ==
  ASSUME TextInv, NEW t \in Seq(Char), t # <<>>
  PROVE  Goes(field, TextPart!Undo \o t, With(t)) /\ TextPart!Undo \o t \in Seq(AnyKey)
<1> DEFINE x == field.text
           a == field.anchor
           c == field.caret
           b == TextPart!Start
           u == TextPart!Undo
<1>1. /\ x \in Seq(Char) /\ Len(x) \in Nat /\ field = Marked(x, a, c)
      /\ a \in Nat /\ c \in Nat /\ b \in Nat /\ End \in Nat /\ len \in Nat /\ Chosen \in Nat
      /\ End = b + len + Chosen /\ End <= Len(x) /\ a <= c /\ c <= Len(x)
      /\ composing # TRUE => b = a /\ End = c
  BY TextSituation
<1>2. t \in Seq(AnyKey)
  BY DEF AnyKey
<1>3. Goes(field, u, Uncomposed) /\ u \in Seq(AnyKey)
  BY Undone
<1> HIDE DEF u
<1>4. u \o t \in Seq(AnyKey)
  BY <1>2, <1>3
<1>5. Goes(Uncomposed, t, With(t))
  <2>1. CASE composing = TRUE
    <3> DEFINE y == Cut(x, b, End, <<>>)
               e == End
    <3>0. <<>> \in Seq(Char) /\ Len(<<>>) = 0 /\ 0 = Len(<<>>) /\ <<>> \o t = t
      BY EmptySeq, ConcatEmptySeq
    <3>1. b <= e /\ e <= Len(x) /\ b \in Nat /\ e \in Nat /\ x \in Seq(Char)
      BY <1>1
    <3> HIDE DEF x, b, e
    <3>2. Placed(Cut(x, b, e, <<>>), x, <<>>, b, e, 0, Len(x))
      BY <3>0, <3>1, CutIs
    <3>3. y \in Seq(Char) /\ Len(y) = b + 0 + (Len(x) - e)
      BY <3>2 DEF Placed, e
    <3>4. b \in 0 .. Len(y) /\ b \in b .. Len(y)
      BY <1>1, <3>1, <3>3
    <3>5. Cut(Cut(x, b, e, <<>>), b + Len(<<>>), b + Len(<<>>), t) = Cut(x, b, e, <<>> \o t)
      <4> DEFINE o == <<>>
      <4>1. o \in Seq(Char)
        BY <3>0
      <4> HIDE DEF o
      <4>2. Cut(Cut(x, b, e, o), b + Len(o), b + Len(o), t) = Cut(x, b, e, o \o t)
        BY <3>1, <4>1, CutLonger
      <4> QED
        BY <4>2 DEF o
    <3>6. Cut(y, b, b, t) = Cut(x, b, e, t)
      <4>1. b + Len(<<>>) = b
        BY <3>0, <3>1
      <4> QED
        BY <3>0, <3>5, <4>1 DEF e
    <3> HIDE DEF y
    <3>7. Goes(Marked(y, b, b), t, Plain(Cut(y, b, b, t), b + Len(t)))
      BY <3>3, <3>4, Characters
    <3>8. Uncomposed = Marked(y, b, b)
      BY <2>1 DEF Uncomposed, Plain, Marked, y, x, b
    <3> QED
      BY <3>6, <3>7, <3>8 DEF With, x, b, e
  <2>2. CASE composing # TRUE
    <3>1. a \in 0 .. Len(x) /\ c \in a .. Len(x) /\ b = a /\ End = c
      BY <1>1, <2>2
    <3>2. Uncomposed = field
      BY <2>2 DEF Uncomposed
    <3>3. Goes(Marked(x, a, c), t, Plain(Cut(x, a, c, t), a + Len(t)))
      BY <1>1, <3>1, Characters
    <3> QED
      BY <1>1, <3>1, <3>2, <3>3 DEF With
  <2> QED
    BY <2>1, <2>2
<1>6. Goes(field, u \o t, With(t))
  BY <1>2, <1>3, <1>5, GoesThrough
<1> QED
  BY <1>4, <1>6 DEF u

\* The arrows behind it place caret and selection.
LEMMA Placing ==
  ASSUME NEW z \in Seq(Char), NEW b \in Nat, NEW n \in Nat, NEW s \in Nat, NEW l \in Nat,
         s + l <= n, b + n <= Len(z)
  PROVE  /\ Goes(Plain(z, b + n), TextPart!Place(n, s, l), Marked(z, b + s, b + s + l))
         /\ TextPart!Place(n, s, l) \in Seq(AnyKey)
<1> DEFINE k == TextPart!Times(n - s, "left")
           m == TextPart!Times(l, "shift right")
           c == b + n
           d == b + s
<1>1. /\ Len(z) \in Nat /\ n - s \in 0 .. c /\ n - s \in Nat /\ c - (n - s) = d /\ c \in 0 .. Len(z)
      /\ d \in 0 .. Len(z) /\ l \in 0 .. Len(z) - d
  OBVIOUS
<1>2. {"left", "shift right"} \subseteq AnyKey
  BY DEF AnyKey, KeyNames
<1>3. k \in Seq(AnyKey) /\ m \in Seq(AnyKey)
  <2>1. k \in Seq(AnyKey)
    BY <1>1, <1>2, TimesIn
  <2>2. m \in Seq(AnyKey)
    BY <1>2, TimesIn
  <2> QED
    BY <2>1, <2>2
<1> HIDE DEF c, d
<1>4. Goes(Plain(z, c), k, Plain(z, c - (n - s)))
  BY <1>1, Lefts
<1>5. Goes(Marked(z, d, d), m, Marked(z, d, d + l))
  BY <1>1, ShiftRights
<1>6. Plain(z, d) = Marked(z, d, d)
  BY DEF Plain, Marked
<1> HIDE DEF k, m
<1>7. Goes(Plain(z, c), k \o m, Marked(z, d, d + l))
  BY <1>1, <1>3, <1>4, <1>5, <1>6, GoesThrough
<1>8. k \o m \in Seq(AnyKey)
  BY <1>3
<1>9. TextPart!Place(n, s, l) = k \o m
  BY DEF TextPart!Place, k, m
<1> QED
  BY <1>7, <1>8, <1>9 DEF c, d

\* The texts of an event.
LEMMA TextsAre ==
  ASSUME NEW t \in TextPart!Text(MaxComp)
  PROVE  t \in Seq(Char) /\ Len(t) \in Nat /\ Len(t) <= MaxComp
<1>1. PICK k \in 0 .. MaxComp : t \in [1 .. k -> Char]
  BY DEF TextPart!Text
<1> QED
  BY <1>1, TextBounds

\* What the keys of an event leave in the field.
LEMMA Finished ==
  ASSUME TextInv, NEW t \in Seq(Char)
  PROVE  TextPart!Typed(TextPart!Undo \o t)
           = IF t # <<>> \/ composing = TRUE THEN With(t) ELSE field
<1> DEFINE u == TextPart!Undo
<1>1. CASE t # <<>>
  <2>1. Goes(field, u \o t, With(t)) /\ u \o t \in Seq(AnyKey)
    BY <1>1, Retyped
  <2>2. TextPart!Typed(u \o t) = With(t)
    BY <2>1, TypedIs
  <2> QED
    BY <1>1, <2>2
<1>2. CASE t = <<>>
  <2>1. Goes(field, u, Uncomposed) /\ u \in Seq(AnyKey)
    BY Undone
  <2>2. TextPart!Typed(u) = Uncomposed
    BY <2>1, TypedIs
  <2> HIDE DEF u
  <2>3. u \o t = u
    BY <1>2, <2>1, ConcatEmptySeq
  <2>4. With(t) = Plain(Cut(field.text, TextPart!Start, End, <<>>), TextPart!Start)
    <3>1. Len(t) = 0 /\ TextPart!Start \in Nat
      BY <1>2, TextSituation
    <3>2. TextPart!Start + Len(t) = TextPart!Start
      BY <3>1
    <3> QED
      BY <1>2, <3>2 DEF With
  <2>5. Uncomposed = IF composing = TRUE THEN With(t) ELSE field
    BY <2>4 DEF Uncomposed
  <2>6. TextPart!Typed(u \o t) = IF composing = TRUE THEN With(t) ELSE field
    BY <2>2, <2>3, <2>5
  <2> QED
    BY <1>2, <2>6 DEF u
<1> QED
  BY <1>1, <1>2

\* The text in its place, with l characters selected behind the first s.
Edited(t, s, l) ==
  Marked(Cut(field.text, TextPart!Start, End, t), TextPart!Start + s, TextPart!Start + s + l)

\* The keys of an editing event.
LEMMA Rewritten ==
  ASSUME TextInv, NEW t \in Seq(Char), NEW s \in Nat, NEW l \in Nat, s + l <= Len(t)
  PROVE  TextPart!Typed(TextPart!Undo \o t \o TextPart!Place(Len(t), s, l))
           = IF t # <<>> \/ composing = TRUE THEN Edited(t, s, l) ELSE field
<1> DEFINE u == TextPart!Undo
           p == TextPart!Place(Len(t), s, l)
           b == TextPart!Start
           z == Cut(field.text, b, End, t)
           n == Len(t)
<1>1. /\ field.text \in Seq(Char) /\ b \in Nat /\ End \in Nat /\ b <= End /\ End <= Len(field.text)
      /\ Len(field.text) \in Nat /\ n \in Nat
  <2>1. /\ field.text \in Seq(Char) /\ {b, End} \subseteq Nat /\ {len} \subseteq Nat
        /\ b + len <= End /\ End <= Len(field.text) /\ Len(field.text) \in Nat
    BY TextSituation
  <2> QED
    BY <2>1
<1>2. z \in Seq(Char) /\ b + n <= Len(z)
  <2>1. n = Len(t)
    OBVIOUS
  <2> HIDE DEF b, n, z
  <2>2. Placed(Cut(field.text, b, End, t), field.text, t, b, End, n, Len(field.text))
    BY <1>1, <2>1, CutIs
  <2>3. z \in Seq(Char) /\ Len(z) = b + n + (Len(field.text) - End)
    BY <2>2 DEF Placed, z
  <2> QED
    BY <1>1, <2>3
<1>3. s + l <= n
  OBVIOUS
<1>u. u \in Seq(AnyKey)
  BY Undone
<1>t. t \in Seq(AnyKey)
  BY DEF AnyKey
<1> HIDE DEF z, u, n
<1>4. Goes(Plain(z, b + n), TextPart!Place(n, s, l), Marked(z, b + s, b + s + l))
      /\ TextPart!Place(n, s, l) \in Seq(AnyKey)
  BY <1>1, <1>2, <1>3, Placing
<1>5. p \in Seq(AnyKey)
  BY <1>4 DEF n
<1>6. u \o t \in Seq(AnyKey)
  BY <1>u, <1>t, ConcatProperties
<1> HIDE DEF p
<1>7. (u \o t) \o p \in Seq(AnyKey)
  BY <1>5, <1>6, ConcatProperties
<1>8. CASE t # <<>> \/ composing = TRUE
  <2>1. Goes(field, u \o t, With(t))
    <3>1. CASE t # <<>>
      BY <3>1, Retyped DEF u
    <3>2. CASE t = <<>> /\ composing = TRUE
      <4>1. Goes(field, u, Uncomposed)
        BY Undone DEF u
      <4>2. u \o t = u
        BY <1>u, <3>2, ConcatEmptySeq
      <4>3. b + Len(t) = b
        BY <1>1, <3>2
      <4>4. Uncomposed = With(t)
        BY <3>2, <4>3 DEF Uncomposed, With, b
      <4> QED
        BY <4>1, <4>2, <4>4
    <3> QED
      BY <1>8, <3>1, <3>2
  <2>2. With(t) = Plain(z, b + n)
    BY DEF With, z, b, n
  <2>3. Goes(Plain(z, b + n), p, Edited(t, s, l))
    BY <1>4 DEF Edited, z, b, n, p
  <2>4. Goes(field, (u \o t) \o p, Edited(t, s, l))
    BY <1>5, <1>6, <2>1, <2>2, <2>3, GoesThrough
  <2>5. TextPart!Typed((u \o t) \o p) = Edited(t, s, l)
    BY <1>7, <2>4, TypedIs
  <2> QED
    BY <1>8, <2>5 DEF u, p
<1>9. CASE t = <<>> /\ composing # TRUE
  <2>1. Goes(field, u, field)
    BY <1>9, Undone DEF u, Uncomposed
  <2>2. n = 0 /\ s = 0 /\ l = 0
    BY <1>3, <1>9 DEF n
  <2>3. Len(p) = 0
    <3>1. /\ TextPart!Times(0, "left") \in Seq(AnyKey) /\ Len(TextPart!Times(0, "left")) = 0
          /\ TextPart!Times(0, "shift right") \in Seq(AnyKey)
          /\ Len(TextPart!Times(0, "shift right")) = 0
      <4>1. {"left", "shift right"} \subseteq AnyKey
        BY DEF AnyKey, KeyNames
      <4> QED
        BY <4>1, TimesIn
    <3>2. p = TextPart!Times(n - s, "left") \o TextPart!Times(l, "shift right") /\ n - s = 0
      BY <2>2 DEF p, n, TextPart!Place
    <3>3. p = TextPart!Times(0, "left") \o TextPart!Times(0, "shift right")
      BY <2>2, <3>2
    <3> DEFINE q == TextPart!Times(0, "left")
               r == TextPart!Times(0, "shift right")
    <3>4. q \in Seq(AnyKey) /\ r \in Seq(AnyKey) /\ 0 = Len(q) /\ 0 = Len(r) /\ p = q \o r
      BY <3>1, <3>3
    <3> HIDE DEF q, r
    <3>5. Len(q \o r) = 0 + 0
      BY <3>4, ConcatIs
    <3> QED
      BY <3>4, <3>5
  <2>4. Goes(field, p, field)
    BY <2>3, GoesNowhere
  <2>5. u \o t = u
    BY <1>u, <1>9, ConcatEmptySeq
  <2>6. Goes(field, (u \o t) \o p, field)
    BY <1>5, <1>u, <2>1, <2>4, <2>5, GoesThrough
  <2>7. TextPart!Typed((u \o t) \o p) = field
    BY <1>7, <2>6, TypedIs
  <2> QED
    BY <1>9, <2>7 DEF u, p
<1> QED
  BY <1>8, <1>9

-----------------------------------------------------------------------------
(***************************************************************************)
(* The text around the composition.                                        *)
(***************************************************************************)
\* Before the composition, the composition, and behind it.
Leading == SubSeq(field.text, 1, TextPart!Start)
Middle == SubSeq(field.text, TextPart!Start + 1, TextPart!Start + len)
Behind == SubSeq(field.text, TextPart!Start + len + 1, Len(field.text))

\* The parts are stretches of the text.
LEMMA PartsAre ==
  ASSUME TextInv
  PROVE  /\ Leading \in Seq(Char) /\ Len(Leading) = TextPart!Start
         /\ Middle \in Seq(Char) /\ Len(Middle) = len
         /\ Behind \in Seq(Char) /\ Len(Behind) = Len(field.text) - (TextPart!Start + len)
         /\ SubSeq(Behind, Chosen + 1, Len(Behind)) = SubSeq(field.text, End + 1, Len(field.text))
<1> DEFINE x == field.text
           n == Len(x)
           b == TextPart!Start
           c == b + len
           d == n - c
<1>1. /\ x \in Seq(Char) /\ n \in Nat /\ b \in Nat /\ len \in Nat /\ Chosen \in Nat /\ End \in Nat
      /\ End = b + len + Chosen /\ End <= n
  BY TextSituation
<1>n. n = Len(x)
  OBVIOUS
<1>d. c = b + len /\ d = n - c
  OBVIOUS
<1> HIDE DEF x, n, b, c, d
<1>2. /\ n = Len(x) /\ n <= Len(x) /\ c \in Nat /\ c <= n /\ d \in Nat /\ Chosen <= d /\ b <= c
      /\ 0 <= b /\ b <= Len(x) /\ c <= Len(x)
      /\ c - b = len /\ b - 0 = b /\ d = n - c /\ d <= n - c /\ c + Chosen = End /\ c + d = n
      /\ 0 \in Nat /\ 0 + 1 = 1
  BY <1>1, <1>n, <1>d
<1>3. SubSeq(x, 0 + 1, b) \in Seq(Char) /\ Len(SubSeq(x, 0 + 1, b)) = b - 0
  BY <1>1, <1>2, StretchIs
<1>4. SubSeq(x, b + 1, c) \in Seq(Char) /\ Len(SubSeq(x, b + 1, c)) = c - b
  BY <1>1, <1>2, StretchIs
<1>5. SubSeq(x, c + 1, n) \in Seq(Char) /\ Len(SubSeq(x, c + 1, n)) = n - c
  BY <1>1, <1>2, StretchIs
<1>6. SubSeq(SubSeq(x, c + 1, n), Chosen + 1, d) = SubSeq(x, c + Chosen + 1, c + d)
  BY <1>1, <1>2, StretchOf
<1>7. SubSeq(SubSeq(x, c + 1, n), Chosen + 1, d) = SubSeq(x, End + 1, n)
  BY <1>2, <1>6
<1>8. Leading = SubSeq(x, 1, b) /\ Middle = SubSeq(x, b + 1, c) /\ Behind = SubSeq(x, c + 1, n)
  BY DEF Leading, Middle, Behind, x, b, c, n
<1>9. Leading \in Seq(Char) /\ Len(Leading) = b
  BY <1>2, <1>3, <1>8
<1>10. Middle \in Seq(Char) /\ Len(Middle) = len
  BY <1>2, <1>4, <1>8
<1>11. Behind \in Seq(Char) /\ Len(Behind) = d
  BY <1>2, <1>5, <1>8
<1>12. SubSeq(Behind, Chosen + 1, Len(Behind)) = SubSeq(x, End + 1, n)
  BY <1>7, <1>8, <1>11
<1> QED
  BY <1>9, <1>10, <1>11, <1>12 DEF x, b, c, d, n

\* A text behind a stretch is empty if the stretch is.
LEMMA NoMiddle == ASSUME TextInv, len = 0 PROVE Middle = <<>>
BY PartsAre, EmptySeq

\* z has t for the composition, and for what is selected outside one.
NewParts(z, t, b, k) ==
  /\ z \in Seq(Char) /\ b \in Nat /\ k \in Nat /\ Len(z) \in Nat /\ b + k <= Len(z)
  /\ SubSeq(z, 1, b) = Leading /\ SubSeq(z, b + 1, b + k) = t
  /\ SubSeq(z, 1, b + k) = Leading \o t
  /\ SubSeq(z, b + k + 1, Len(z)) = SubSeq(Behind, Chosen + 1, Len(Behind))

\* The text with another composition, or a commit, in it.
LEMMA CutHere ==
  ASSUME TextInv, NEW t \in Seq(Char), NEW z, z = Cut(field.text, TextPart!Start, End, t),
         NEW b, b = TextPart!Start, NEW k, k = Len(t)
  PROVE  NewParts(z, t, b, k)
<1> DEFINE x == field.text
           e == End
           n == Len(x)
<1>1. /\ x \in Seq(Char) /\ b \in Nat /\ e \in Nat /\ b <= e /\ e <= n /\ n \in Nat
  <2>1. /\ x \in Seq(Char) /\ {TextPart!Start, e} \subseteq Nat /\ {len} \subseteq Nat
        /\ TextPart!Start + len <= e /\ e <= Len(x) /\ Len(x) \in Nat
    BY TextSituation
  <2> QED
    BY <2>1
<1>2. n = Len(x) /\ e <= Len(x) /\ k \in Nat
  BY <1>1
<1> HIDE DEF x, e, n
<1>4. z = Cut(x, b, e, t)
  BY DEF x, e
<1>3. /\ z \in Seq(Char) /\ Len(z) = b + Len(t) + (Len(x) - e)
      /\ SubSeq(z, 1, b) = SubSeq(x, 1, b)
      /\ SubSeq(z, b + 1, b + Len(t)) = t
      /\ SubSeq(z, 1, b + Len(t)) = SubSeq(x, 1, b) \o t
      /\ SubSeq(z, b + Len(t) + 1, Len(z)) = SubSeq(x, e + 1, Len(x))
  <2>1. /\ x \in Seq(Char) /\ b \in Nat /\ e \in Nat /\ b <= e /\ e <= Len(x)
        /\ z = Cut(x, b, e, t)
    BY <1>1, <1>2, <1>4
  <2>2. CutApart(z, x, t, b, e)
    BY <2>1, CutParts
  <2> QED
    BY <2>2 DEF CutApart
<1>5. /\ z \in Seq(Char) /\ Len(z) = b + k + (n - e)
      /\ SubSeq(z, 1, b) = SubSeq(x, 1, b) /\ SubSeq(z, b + 1, b + k) = t
      /\ SubSeq(z, 1, b + k) = SubSeq(x, 1, b) \o t
      /\ SubSeq(z, b + k + 1, Len(z)) = SubSeq(x, e + 1, n)
  BY <1>2, <1>3, <1>4
<1>6. Len(z) \in Nat /\ b + k <= Len(z)
  BY <1>1, <1>2, <1>5
<1>7. SubSeq(x, 1, b) = Leading
  BY DEF Leading, x
<1>8. SubSeq(x, e + 1, n) = SubSeq(Behind, Chosen + 1, Len(Behind))
  BY PartsAre DEF x, e, n
<1> QED
  BY <1>1, <1>2, <1>5, <1>6, <1>7, <1>8 DEF NewParts

\* The parts, from the field.
LEMMA PartsFrom ==
  ASSUME NEW z, field'.text = z, NEW b, TextPart!Start' = b, NEW k, len' = k
  PROVE  /\ Leading' = SubSeq(z, 1, b) /\ Middle' = SubSeq(z, b + 1, b + k)
         /\ Behind' = SubSeq(z, b + k + 1, Len(z))
BY DEF Leading, Middle, Behind

\* Nothing happens to the field.
LEMMA TextKept ==
  ASSUME TextInv, UNCHANGED <<field, composing, cursor, len, selection>>, active' \in BOOLEAN,
         active' = active \/ composing # TRUE
  PROVE  TextInv' /\ Leading' = Leading /\ Middle' = Middle /\ Behind' = Behind /\ Chosen' = Chosen
<1>1. Leading' = Leading /\ Middle' = Middle /\ Behind' = Behind /\ Chosen' = Chosen
  BY DEF Leading, Middle, Behind, Chosen, TextPart!Start
<1>2. TextInv'
  BY DEF TextInv
<1> QED
  BY <1>1, <1>2

\* A text replaces what is selected behind the place where it goes.
Replaces(t) ==
  /\ Behind' = IF t = <<>> THEN Behind ELSE SubSeq(Behind, Chosen + 1, Len(Behind))
  /\ Chosen' = IF t = <<>> THEN Chosen ELSE 0

\* An editing event replaces the composition.
LEMMA Composes ==
  ASSUME TextInv, NEW t \in TextPart!Text(MaxComp), NEW s \in 0 .. Len(t), NEW l \in 0 .. Len(t),
         TextPart!TextEditing(t, s, l)
  PROVE  TextInv' /\ Leading' = Leading /\ Middle' = t /\ Replaces(t)
<1> DEFINE b == TextPart!Start
           k == Len(t)
           z == Cut(field.text, b, End, t)
<1>1. t \in Seq(Char) /\ k \in Nat /\ k <= MaxComp /\ s \in Nat /\ l \in Nat
  BY TextsAre
<1>2. /\ s + l <= k /\ active = TRUE /\ active' = active /\ (composing' = (t # <<>>))
      /\ len' = k /\ cursor' = s /\ selection' = l
      /\ field' = TextPart!Typed(TextPart!Undo \o t \o TextPart!Place(k, s, l))
  <2>1. active
    BY DEF TextPart!TextEditing
  <2>2. active = TRUE
    BY Zenon, <2>1 DEF TextInv
  <2> QED
    BY <2>2 DEF TextPart!TextEditing
<1>3. field' = IF t # <<>> \/ composing = TRUE THEN Edited(t, s, l) ELSE field
  BY <1>1, <1>2, Rewritten
<1>4. /\ composing' \in BOOLEAN
      /\ t # <<>> => composing' = TRUE
      /\ t = <<>> => composing' = FALSE
  BY Zenon, <1>2
<1>5. CASE t # <<>> \/ composing = TRUE
  <2>1. field' = Marked(z, b + s, b + s + l)
    BY <1>3, <1>5 DEF Edited
  <2>0. z = Cut(field.text, TextPart!Start, End, t) /\ b = TextPart!Start /\ k = Len(t)
    OBVIOUS
  <2> HIDE DEF b, k, z
  <2>2. /\ z \in Seq(Char) /\ b \in Nat /\ k \in Nat /\ Len(z) \in Nat /\ b + k <= Len(z)
        /\ SubSeq(z, 1, b) = Leading /\ SubSeq(z, b + 1, b + k) = t
        /\ SubSeq(z, b + k + 1, Len(z)) = SubSeq(Behind, Chosen + 1, Len(Behind))
    <3>1. NewParts(z, t, b, k)
      BY <1>1, <2>0, CutHere
    <3> QED
      BY <3>1 DEF NewParts
  <2>3. b + s + l <= Len(z) /\ b + s <= Len(z) /\ b + s \in Nat /\ b + s + l \in Nat
        /\ b + s <= b + s + l /\ (b + s) - s = b /\ b + s + l = (b + s) + l
    BY <1>1, <1>2, <2>2
  <2>4. /\ field'.text = z /\ field'.anchor = b + s /\ field'.caret = b + s + l
        /\ field' \in Fields /\ field'.anchor <= field'.caret
    BY <2>1, <2>2, <2>3 DEF Marked, Fields
  <2>5. TextPart!Start' = b
    <3>1. TextPart!Start' = field'.anchor - cursor'
      BY DEF TextPart!Start
    <3> QED
      BY <1>2, <2>3, <2>4, <3>1
  <2>6. Leading' = SubSeq(z, 1, b) /\ Middle' = SubSeq(z, b + 1, b + k)
        /\ Behind' = SubSeq(z, b + k + 1, Len(z))
    BY <1>2, <2>4, <2>5, PartsFrom
  <2>7. Chosen' = 0
    <3>1. Chosen' = IF composing' = TRUE THEN 0 ELSE field'.caret - field'.anchor
      BY DEF Chosen
    <3>2. CASE t # <<>>
      BY <1>4, <3>1, <3>2
    <3>3. CASE t = <<>>
      <4>1. k = 0
        BY <3>3 DEF k
      <4>2. l = 0 /\ field'.caret = field'.anchor
        BY <1>1, <1>2, <2>2, <2>3, <2>4, <4>1
      <4>3. field'.caret - field'.anchor = 0
        BY <2>3, <2>4, <4>2
      <4> QED
        BY <3>1, <4>3
    <3> QED
      BY <3>2, <3>3
  <2>8. Replaces(t)
    <3>1. Behind' = SubSeq(Behind, Chosen + 1, Len(Behind))
      BY <2>2, <2>6
    <3>2. CASE t # <<>>
      BY <2>7, <3>1, <3>2 DEF Replaces
    <3>3. CASE t = <<>>
      <4>1. Chosen = 0
        BY <1>5, <3>3, TextSituation
      <4>2. Behind \in Seq(Char)
        BY PartsAre
      <4>3. SubSeq(Behind, 1, Len(Behind)) = Behind
        BY <4>2
      <4>4. Behind' = Behind
        BY <3>1, <4>1, <4>3
      <4> QED
        BY <2>7, <3>3, <4>1, <4>4 DEF Replaces
    <3> QED
      BY <3>2, <3>3
  <2>9. TextInv'
    <3>1. cursor' \in 0 .. MaxComp /\ len' \in 0 .. MaxComp /\ selection' \in 0 .. MaxComp
      BY <1>1, <1>2, <2>2, TextBounds
    <3>2. active' \in BOOLEAN /\ active' = TRUE
      BY <1>2
    <3>3. ASSUME composing' = TRUE
          PROVE  /\ len' > 0 /\ cursor' + selection' <= len'
                 /\ cursor' <= field'.anchor /\ field'.caret = field'.anchor + selection'
                 /\ (field'.anchor - cursor') + len' <= Len(field'.text)
      <4>1. t # <<>>
        BY <1>4, <3>3
      <4>2. k > 0
        BY <1>1, <4>1, EmptySeq DEF k
      <4> QED
        BY <1>1, <1>2, <2>2, <2>3, <2>4, <4>2
    <3>4. ASSUME composing' # TRUE PROVE len' = 0 /\ cursor' = 0 /\ selection' = 0
      <4>1. t = <<>>
        BY <1>4, <3>4
      <4>2. k = 0
        BY <4>1 DEF k
      <4> QED
        BY <1>1, <1>2, <4>2
    <3> QED
      BY <1>4, <2>4, <3>1, <3>2, <3>3, <3>4 DEF TextInv
  <2> QED
    BY <2>2, <2>6, <2>8, <2>9
<1>6. CASE t = <<>> /\ composing # TRUE
  <2>1. k = 0
    BY <1>6
  <2>2. len = 0 /\ cursor = 0 /\ selection = 0
    BY <1>6, TextSituation
  <2>3. composing = FALSE
    BY Zenon, <1>6 DEF TextInv
  <2>4. UNCHANGED <<field, composing, cursor, len, selection>>
    <3>1. s = 0 /\ l = 0
      BY <1>1, <1>2, <2>1
    <3> QED
      BY <1>2, <1>3, <1>4, <1>6, <2>1, <2>2, <2>3, <3>1
  <2>5. TextInv' /\ Leading' = Leading /\ Middle' = Middle /\ Behind' = Behind /\ Chosen' = Chosen
    BY <1>2, <1>6, <2>4, TextKept
  <2>6. Middle = t
    BY <1>6, <2>2, NoMiddle
  <2> QED
    BY <1>6, <2>5, <2>6 DEF Replaces
<1> QED
  BY <1>5, <1>6

\* A commit puts its text behind the text before.
LEMMA Commits ==
  ASSUME TextInv, NEW t \in TextPart!Text(MaxComp), TextPart!TextInput(t)
  PROVE  TextInv' /\ Leading' = Leading \o t /\ Middle' = <<>> /\ Replaces(t)
<1> DEFINE b == TextPart!Start
           k == Len(t)
           c == b + k
           z == Cut(field.text, b, End, t)
<1>1. t \in Seq(Char) /\ k \in Nat
  BY TextsAre
<1>2. /\ active' = active /\ composing' = FALSE
      /\ len' = 0 /\ cursor' = 0 /\ selection' = 0
      /\ field' = TextPart!Typed(TextPart!Undo \o t)
  BY DEF TextPart!TextInput
<1>3. field' = IF t # <<>> \/ composing = TRUE THEN With(t) ELSE field
  BY <1>1, <1>2, Finished
<1>4. CASE t # <<>> \/ composing = TRUE
  <2>1. field' = Plain(z, c)
    BY <1>3, <1>4 DEF With
  <2>0. z = Cut(field.text, TextPart!Start, End, t) /\ b = TextPart!Start /\ k = Len(t)
    OBVIOUS
  <2> HIDE DEF b, k, z
  <2>2. /\ z \in Seq(Char) /\ b \in Nat /\ k \in Nat /\ Len(z) \in Nat /\ b + k <= Len(z)
        /\ SubSeq(z, 1, b + k) = Leading \o t
        /\ SubSeq(z, b + k + 1, Len(z)) = SubSeq(Behind, Chosen + 1, Len(Behind))
    <3>1. NewParts(z, t, b, k)
      BY <1>1, <2>0, CutHere
    <3> QED
      BY <3>1 DEF NewParts
  <2>3. c \in Nat /\ c <= Len(z) /\ c - 0 = c /\ c + 0 = c /\ c - c = 0 /\ c <= c
    BY <2>2
  <2>4. /\ SubSeq(z, 1, c) = Leading \o t
        /\ SubSeq(z, c + 1, Len(z)) = SubSeq(Behind, Chosen + 1, Len(Behind))
    BY <2>2
  <2> HIDE DEF c
  <2>5. /\ field'.text = z /\ field'.anchor = c /\ field'.caret = c
        /\ field' \in Fields /\ field'.anchor <= field'.caret
    BY <2>1, <2>2, <2>3 DEF Plain, Fields
  <2>6. TextPart!Start' = c
    <3>1. TextPart!Start' = field'.anchor - cursor'
      BY DEF TextPart!Start
    <3> QED
      BY <1>2, <2>3, <2>5, <3>1
  <2>7. Leading' = SubSeq(z, 1, c) /\ Behind' = SubSeq(z, c + 0 + 1, Len(z))
    BY <1>2, <2>5, <2>6, PartsFrom
  <2>8. Chosen' = 0
    <3>1. Chosen' = IF composing' = TRUE THEN 0 ELSE field'.caret - field'.anchor
      BY DEF Chosen
    <3> QED
      BY <2>3, <2>5, <3>1
  <2>9. Behind' = SubSeq(Behind, Chosen + 1, Len(Behind))
    BY <2>3, <2>4, <2>7
  <2>10. Replaces(t)
    <3>2. CASE t # <<>>
      BY <2>8, <2>9, <3>2 DEF Replaces
    <3>3. CASE t = <<>>
      <4>1. Chosen = 0
        BY <1>4, <3>3, TextSituation
      <4>2. Behind \in Seq(Char)
        BY PartsAre
      <4>3. SubSeq(Behind, 1, Len(Behind)) = Behind
        BY <4>2
      <4>4. Behind' = Behind
        BY <2>9, <4>1, <4>3
      <4> QED
        BY <2>8, <3>3, <4>1, <4>4 DEF Replaces
    <3> QED
      BY <3>2, <3>3
  <2>11. TextInv'
    <3>1. cursor' \in 0 .. MaxComp /\ len' \in 0 .. MaxComp /\ selection' \in 0 .. MaxComp
      BY <1>2, TextBounds
    <3>2. active' \in BOOLEAN
      BY <1>2 DEF TextInv
    <3> QED
      BY <1>2, <2>5, <3>1, <3>2 DEF TextInv
  <2>12. Middle' = <<>>
    <3>1. TextInv' => Len(Middle') = len' /\ Middle' \in Seq(Char)
      <4>1. Middle' = SubSeq(z, c + 1, c + 0)
        BY <1>2, <2>5, <2>6, PartsFrom
      <4>2. Middle' = SubSeq(z, c + 1, c)
        BY <2>3, <4>1
      <4>3. SubSeq(z, c + 1, c) \in Seq(Char) /\ Len(SubSeq(z, c + 1, c)) = c - c
        BY <2>2, <2>3, StretchIs
      <4> QED
        BY <1>2, <2>3, <4>2, <4>3
    <3> QED
      BY <1>2, <2>11, <3>1, EmptySeq
  <2> QED
    BY <2>4, <2>7, <2>10, <2>11, <2>12
<1>5. CASE t = <<>> /\ composing # TRUE
  <2>1. len = 0 /\ cursor = 0 /\ selection = 0
    BY <1>5, TextSituation
  <2>2. composing = FALSE
    BY Zenon, <1>5 DEF TextInv
  <2>3. UNCHANGED <<field, composing, cursor, len, selection>>
    BY <1>2, <1>3, <1>5, <2>1, <2>2
  <2>4. active' \in BOOLEAN
    BY <1>2 DEF TextInv
  <2>5. TextInv' /\ Leading' = Leading /\ Middle' = Middle /\ Behind' = Behind /\ Chosen' = Chosen
    BY <1>2, <1>5, <2>3, <2>4, TextKept
  <2>6. Middle = <<>>
    BY <2>1, NoMiddle
  <2>7. Leading \o t = Leading
    BY <1>5, PartsAre, ConcatEmptySeq
  <2> QED
    BY <1>5, <2>5, <2>6, <2>7 DEF Replaces
<1> QED
  BY <1>4, <1>5

\* The composition is left in the text.
LEMMA LeavesField ==
  ASSUME TextInv, TextPart!ResetImeMode
  PROVE  /\ TextInv' /\ Middle' = <<>>
         /\ Leading' = Leading \o SubSeq(Middle, 1, cursor)
         /\ Behind' = SubSeq(Middle, cursor + 1, Len(Middle)) \o Behind
         /\ Chosen' = IF Middle = <<>> THEN Chosen ELSE selection
<1> DEFINE x == field.text
           a == field.anchor
           c == field.caret
           b == TextPart!Start
           n == Len(x)
           d == b + len
<1>1. /\ field' = field /\ active' = FALSE /\ composing' = FALSE
      /\ len' = 0 /\ cursor' = 0 /\ selection' = 0
  BY DEF TextPart!ResetImeMode, TextPart!Forget
<1>2. /\ x \in Seq(Char) /\ n \in Nat /\ a \in Nat /\ c \in Nat /\ b \in Nat /\ cursor \in Nat
      /\ len \in Nat /\ b + cursor = a /\ a <= c /\ c <= n /\ cursor <= len /\ d <= n
      /\ composing = TRUE => Chosen = 0 /\ c = a + selection /\ len > 0
      /\ composing # TRUE => Chosen = c - a /\ len = 0 /\ cursor = 0 /\ selection = 0
  <2>1. /\ {a, c, b, End} \subseteq Nat /\ {cursor, len, selection} \subseteq Nat
        /\ d <= End /\ End <= n /\ x \in Seq(Char) /\ n \in Nat
    BY TextSituation
  <2>2. d <= n
    BY <2>1
  <2> QED
    BY <2>1, <2>2, TextSituation
<1>3. n = Len(x) /\ d = b + len
  OBVIOUS
<1>4. TextInv'
  <2>1. field' \in Fields /\ field'.anchor <= field'.caret
    BY <1>1 DEF TextInv
  <2>2. cursor' \in 0 .. MaxComp /\ len' \in 0 .. MaxComp /\ selection' \in 0 .. MaxComp
    BY <1>1, TextBounds
  <2> QED
    BY <1>1, <2>1, <2>2 DEF TextInv
<1>5. field'.text = x /\ field'.anchor = a /\ field'.caret = c
  BY <1>1
<1> HIDE DEF x, a, c, b, n, d
<1>6. TextPart!Start' = a
  <2>1. TextPart!Start' = field'.anchor - cursor'
    BY DEF TextPart!Start
  <2> QED
    BY <1>1, <1>2, <1>5, <2>1
<1>7. Leading' = SubSeq(x, 1, a) /\ Middle' = SubSeq(x, a + 1, a + 0)
      /\ Behind' = SubSeq(x, a + 0 + 1, Len(x))
  BY <1>1, <1>5, <1>6, PartsFrom
<1>8. a + 0 = a /\ a - a = 0 /\ a <= n /\ b <= a /\ a <= d /\ d \in Nat /\ d <= Len(x)
      /\ a <= Len(x)
      /\ d - b = len /\ b - b = 0 /\ 0 \in Nat /\ 0 <= cursor /\ 0 <= b /\ a <= a /\ n <= Len(x)
      /\ len <= d - b /\ b + 0 = b /\ 0 + 1 = 1 /\ b <= d
  BY <1>2, <1>3
<1>9. Middle' = <<>>
  <2>1. SubSeq(x, a + 1, a) \in Seq(Char) /\ Len(SubSeq(x, a + 1, a)) = a - a
    BY <1>2, <1>8, StretchIs
  <2> QED
    BY <1>7, <1>8, <2>1, EmptySeq
<1>10. Middle = SubSeq(x, b + 1, d) /\ Leading = SubSeq(x, 1, b) /\ Behind = SubSeq(x, d + 1, n)
  BY DEF Middle, Leading, Behind, x, b, n, d
<1>11. Len(Middle) = len
  BY PartsAre
<1>12. Leading' = Leading \o SubSeq(Middle, 1, cursor)
  <2>1. SubSeq(SubSeq(x, b + 1, d), 0 + 1, cursor) = SubSeq(x, b + 0 + 1, b + cursor)
    <3>1. cursor <= d - b
      BY <1>2, <1>8
    <3> QED
      BY <1>2, <1>8, <3>1, StretchOf
  <2>2. SubSeq(Middle, 1, cursor) = SubSeq(x, b + 1, a)
    BY <1>2, <1>8, <1>10, <2>1
  <2>3. SubSeq(x, 0 + 1, b) \o SubSeq(x, b + 1, a) = SubSeq(x, 0 + 1, a)
    BY <1>2, <1>8, StretchesJoin
  <2>4. SubSeq(x, 1, b) \o SubSeq(x, b + 1, a) = SubSeq(x, 1, a)
    BY <1>8, <2>3
  <2> QED
    BY <1>7, <1>10, <2>2, <2>4
<1>13. Behind' = SubSeq(Middle, cursor + 1, Len(Middle)) \o Behind
  <2>1. SubSeq(SubSeq(x, b + 1, d), cursor + 1, len) = SubSeq(x, b + cursor + 1, b + len)
    BY <1>2, <1>8, StretchOf
  <2>2. SubSeq(Middle, cursor + 1, Len(Middle)) = SubSeq(x, a + 1, d)
    BY <1>2, <1>3, <1>10, <1>11, <2>1
  <2>3. SubSeq(x, a + 1, d) \o SubSeq(x, d + 1, n) = SubSeq(x, a + 1, n)
    BY <1>2, <1>8, StretchesJoin
  <2>4. Behind' = SubSeq(x, a + 1, n)
    BY <1>3, <1>7, <1>8
  <2> QED
    BY <1>10, <2>2, <2>3, <2>4
<1>14. Chosen' = IF Middle = <<>> THEN Chosen ELSE selection
  <2>1. Chosen' = field'.caret - field'.anchor
    BY <1>1 DEF Chosen
  <2>2. Chosen' = c - a
    BY <1>5, <2>1
  <2>3. CASE composing = TRUE
    <3>1. Middle # <<>>
      BY <1>2, <1>11, <2>3
    <3>2. selection \in Nat
      BY TextSituation
    <3>3. c - a = selection
      BY <1>2, <2>3, <3>2
    <3> QED
      BY <2>2, <3>1, <3>3
  <2>4. CASE composing # TRUE
    <3>1. Middle = <<>>
      BY <1>2, <2>4, NoMiddle
    <3> QED
      BY <1>2, <2>2, <2>4, <3>1
  <2> QED
    BY <2>3, <2>4
<1> QED
  BY <1>4, <1>9, <1>12, <1>13, <1>14

\* The field of the user, without a composition.
LEMMA PlainParts ==
  ASSUME NEW y \in Seq(Char), NEW p \in Nat, p <= Len(y), field' = Plain(y, p),
         cursor' = 0, len' = 0
  PROVE  /\ field' \in Fields /\ field'.anchor <= field'.caret /\ Chosen' = 0
         /\ Leading' = SubSeq(y, 1, p) /\ Behind' = SubSeq(y, p + 1, Len(y)) /\ Middle' = <<>>
<1>1. /\ field'.text = y /\ field'.anchor = p /\ field'.caret = p
      /\ field' \in Fields /\ field'.anchor <= field'.caret
  BY DEF Plain, Fields
<1>2. p - 0 = p /\ p + 0 = p /\ p - p = 0 /\ p <= p /\ Len(y) \in Nat
  OBVIOUS
<1>3. TextPart!Start' = p
  <2>1. TextPart!Start' = field'.anchor - cursor'
    BY DEF TextPart!Start
  <2> QED
    BY <1>1, <1>2, <2>1
<1>4. Leading' = SubSeq(y, 1, p) /\ Middle' = SubSeq(y, p + 1, p + 0)
      /\ Behind' = SubSeq(y, p + 0 + 1, Len(y))
  BY <1>1, <1>3, PartsFrom
<1>5. SubSeq(y, p + 1, p) \in Seq(Char) /\ Len(SubSeq(y, p + 1, p)) = p - p
  BY <1>2, StretchIs
<1>6. Middle' = <<>>
  BY <1>2, <1>4, <1>5, EmptySeq
<1>7. Chosen' = 0
  <2>1. Chosen' = IF composing' = TRUE THEN 0 ELSE field'.caret - field'.anchor
    BY DEF Chosen
  <2> QED
    BY <1>1, <1>2, <2>1
<1> QED
  BY <1>1, <1>2, <1>4, <1>6, <1>7

\* What a key of the user leaves.
LEMMA UserTypes ==
  ASSUME NEW x \in Seq(Char), NEW a \in 0 .. Len(x), NEW c \in a .. Len(x),
         NEW k \in {"left", "right", "back"}
  PROVE  LET e == TextPart!Pressed(Marked(x, a, c), k)
         IN  \/ \E p \in 0 .. Len(x) : e = Plain(x, p)
             \/ e = Plain(Cut(x, a, c, <<>>), a)
             \/ a = c /\ c > 0 /\ e = Plain(Cut(x, c - 1, c, <<>>), c - 1)
<1> DEFINE e == TextPart!Pressed(Marked(x, a, c), k)
<1>1. /\ Marked(x, a, c) \in Fields /\ Marked(x, a, c).text = x /\ Marked(x, a, c).caret = c
      /\ Marked(x, a, c).anchor = a
  <2>1. c \in 0 .. Len(x)
    OBVIOUS
  <2> QED
    BY <2>1, MarkedIs
<1>2. Len(x) \in Nat /\ a \in Nat /\ c \in Nat /\ a <= c /\ c <= Len(x)
  OBVIOUS
<1>3. CASE k = "left"
  <2>1. e = Plain(x, IF c > 0 THEN c - 1 ELSE 0)
    <3> DEFINE f == Marked(x, a, c)
    <3>1. f \in Fields /\ f.text = x /\ f.caret = c /\ e = TextPart!Pressed(f, "left")
      BY <1>1, <1>3
    <3> HIDE DEF f, e
    <3>2. CASE c > 0
      <4>1. TextPart!Pressed(f, "left")
              = [text |-> f.text, caret |-> f.caret - 1, anchor |-> f.caret - 1]
        BY <3>1, <3>2, KeysAre
      <4> QED
        BY <3>1, <3>2, <4>1 DEF Plain
    <3>3. CASE c = 0
      <4>1. TextPart!Pressed(f, "left") = [text |-> f.text, caret |-> 0, anchor |-> 0]
        BY <3>1, <3>3, KeysAre
      <4> QED
        BY <3>1, <3>3, <4>1 DEF Plain
    <3> QED
      BY <1>2, <3>2, <3>3
  <2>2. (IF c > 0 THEN c - 1 ELSE 0) \in 0 .. Len(x)
    BY <1>2
  <2> QED
    BY <2>1, <2>2
<1>4. CASE k = "right"
  <2>1. e = Plain(x, IF c < Len(x) THEN c + 1 ELSE c)
    <3> DEFINE f == Marked(x, a, c)
    <3>1. f \in Fields /\ f.text = x /\ f.caret = c /\ e = TextPart!Pressed(f, "right")
      BY <1>1, <1>4
    <3> HIDE DEF f, e
    <3>2. CASE c < Len(x)
      <4>1. TextPart!Pressed(f, "right")
              = [text |-> f.text, caret |-> f.caret + 1, anchor |-> f.caret + 1]
        BY <3>1, <3>2, KeysAre
      <4> QED
        BY <3>1, <3>2, <4>1 DEF Plain
    <3>3. CASE c = Len(x)
      <4>1. TextPart!Pressed(f, "right") = [text |-> f.text, caret |-> f.caret, anchor |-> f.caret]
        BY <3>1, <3>3, KeysAre
      <4> QED
        BY <3>1, <3>3, <4>1 DEF Plain
    <3> QED
      BY <1>2, <3>2, <3>3
  <2>2. (IF c < Len(x) THEN c + 1 ELSE c) \in 0 .. Len(x)
    BY <1>2
  <2> QED
    BY <2>1, <2>2
<1>5. CASE k = "back"
  <2>1. CASE a # c
    <3>1. e = TextPart!OverSelection(Marked(x, a, c), <<>>)
      BY <1>1, <1>5, <2>1 DEF TextPart!Pressed
    <3>2. <<>> \in Seq(Char) /\ a + Len(<<>>) = a
      BY EmptySeq
    <3>3. TextPart!OverSelection(Marked(x, a, c), <<>>) = Plain(Cut(x, a, c, <<>>), a + Len(<<>>))
      BY <3>2, OverMarked
    <3> QED
      BY <3>1, <3>2, <3>3
  <2>2. CASE a = c /\ c > 0
    <3>1. Marked(x, a, c) = Plain(x, c) /\ c \in 1 .. Len(x)
      BY <1>2, <2>2 DEF Plain, Marked
    <3> QED
      BY <1>5, <2>2, <3>1, BackOnce
  <2>3. CASE a = c /\ c = 0
    <3>1. TextPart!Back(Marked(x, a, c)) = 0
      BY <1>1, <2>3 DEF TextPart!Back, TextPart!Most
    <3>2. e = TextPart!Replaced(Marked(x, a, c), 0, 0, <<>>)
      BY <1>1, <1>5, <2>3, <3>1 DEF TextPart!Pressed
    <3>3. e = Plain(Cut(x, 0, 0, <<>>), 0)
      BY <1>1, <3>2 DEF TextPart!Replaced, Cut, Plain
    <3>4. Cut(x, 0, 0, <<>>) = x
      BY <1>2, CutNothing
    <3> QED
      BY <1>2, <3>3, <3>4
  <2> QED
    BY <1>2, <2>1, <2>2, <2>3
<1> QED
  BY <1>3, <1>4, <1>5

\* A key of the user edits the text outside a composition.
LEMMA Edits ==
  ASSUME TextInv, NEW k \in {"left", "right", "back"}, TextPart!UserKey(k)
  PROVE  /\ TextInv' /\ Middle = <<>> /\ Middle' = <<>> /\ Chosen' = 0
         /\ Leading' \o Behind' \in {Leading \o Behind,
                                    Leading \o SubSeq(Behind, Chosen + 1, Len(Behind)),
                                    SubSeq(Leading, 1, Len(Leading) - 1) \o Behind}
<1> DEFINE x == field.text
           a == field.anchor
           c == field.caret
           n == Len(x)
<1>1. /\ field' = TextPart!Pressed(field, k) /\ composing # TRUE
      /\ UNCHANGED <<active, composing, cursor, len, selection>>
  <2>1. ~(active /\ composing) /\ active \in BOOLEAN /\ composing \in BOOLEAN
        /\ (composing = TRUE => active = TRUE)
    BY DEF TextPart!UserKey, TextInv
  <2>2. composing # TRUE
    BY Zenon, <2>1
  <2> QED
    BY <2>2 DEF TextPart!UserKey
<1>2. /\ x \in Seq(Char) /\ n \in Nat /\ a \in Nat /\ c \in Nat /\ a <= c /\ c <= n
      /\ field = Marked(x, a, c) /\ TextPart!Start = a /\ Chosen = c - a /\ End = c
      /\ len = 0 /\ cursor = 0 /\ selection = 0
  BY <1>1, TextSituation
<1>3. Middle = <<>>
  BY <1>2, NoMiddle
<1>4. Leading = SubSeq(x, 1, a) /\ Behind = SubSeq(x, a + 1, n)
  <2>1. a + 0 = a
    BY <1>2
  <2> QED
    BY <1>2, <2>1 DEF Leading, Behind
<1>5. Leading \o Behind = x
  <2>1. 0 \in Nat /\ 0 <= a /\ a <= n /\ n <= Len(x) /\ n \in Nat /\ 0 + 1 = 1
    BY <1>2
  <2>2. SubSeq(x, 0 + 1, a) \o SubSeq(x, a + 1, n) = SubSeq(x, 0 + 1, n)
    BY <1>2, <2>1, StretchesJoin
  <2>3. SubSeq(x, 1, n) = x
    BY <1>2
  <2> QED
    BY <1>4, <2>1, <2>2, <2>3
<1>6. SubSeq(Behind, Chosen + 1, Len(Behind)) = SubSeq(x, c + 1, n)
  BY <1>2, PartsAre
<1>7. cursor' = 0 /\ len' = 0 /\ selection' = 0 /\ composing' # TRUE
  BY <1>1, <1>2
<1>8. a \in 0 .. n /\ c \in a .. n
  BY <1>2
<1>l. n = Len(x) /\ Len(Leading) = a
  BY <1>2, PartsAre
<1> HIDE DEF x, a, c, n
<1>9. \/ \E p \in 0 .. n : field' = Plain(x, p)
      \/ field' = Plain(Cut(x, a, c, <<>>), a)
      \/ a = c /\ c > 0 /\ field' = Plain(Cut(x, c - 1, c, <<>>), c - 1)
  BY <1>1, <1>2, <1>8, <1>l, UserTypes
<1> DEFINE Goal == /\ field' \in Fields /\ field'.anchor <= field'.caret
                   /\ Middle' = <<>> /\ Chosen' = 0
                   /\ Leading' \o Behind' \in {Leading \o Behind,
                                    Leading \o SubSeq(Behind, Chosen + 1, Len(Behind)),
                                    SubSeq(Leading, 1, Len(Leading) - 1) \o Behind}
<1>10. Goal
  <2>1. ASSUME NEW p \in 0 .. n, field' = Plain(x, p) PROVE Goal
    <3>1. /\ p \in Nat /\ p <= Len(x) /\ 0 \in Nat /\ 0 <= p /\ p <= n /\ n <= Len(x) /\ n \in Nat
          /\ 0 + 1 = 1
      BY <1>2, <1>l
    <3>2. /\ field' \in Fields /\ field'.anchor <= field'.caret /\ Chosen' = 0
          /\ Leading' = SubSeq(x, 1, p) /\ Behind' = SubSeq(x, p + 1, Len(x)) /\ Middle' = <<>>
      BY <1>2, <1>7, <2>1, <3>1, PlainParts
    <3>3. SubSeq(x, 0 + 1, p) \o SubSeq(x, p + 1, n) = SubSeq(x, 0 + 1, n)
      BY <1>2, <3>1, StretchesJoin
    <3>4. SubSeq(x, 1, n) = x
      BY <1>2, <1>l
    <3>5. Leading' \o Behind' = x
      BY <1>l, <3>1, <3>2, <3>3, <3>4
    <3> QED
      BY <1>5, <3>2, <3>5
  <2>2. ASSUME field' = Plain(Cut(x, a, c, <<>>), a) PROVE Goal
    <3> DEFINE z == Cut(x, a, c, <<>>)
               o == <<>>
    <3>1. o \in Seq(Char) /\ Len(o) = 0 /\ z = Cut(x, a, c, o)
      BY EmptySeq
    <3> HIDE DEF z, o
    <3>2. CutApart(z, x, o, a, c)
      BY <1>2, <1>l, <3>1, CutParts
    <3>3. /\ z \in Seq(Char) /\ Len(z) = a + 0 + (n - c) /\ SubSeq(z, 1, a) = SubSeq(x, 1, a)
          /\ SubSeq(z, a + 0 + 1, Len(z)) = SubSeq(x, c + 1, n)
      BY <1>l, <3>1, <3>2 DEF CutApart
    <3>4. a <= Len(z) /\ a + 0 = a
      BY <1>2, <3>3
    <3>5. field' = Plain(z, a)
      BY <2>2 DEF z
    <3>6. /\ field' \in Fields /\ field'.anchor <= field'.caret /\ Chosen' = 0
          /\ Leading' = SubSeq(z, 1, a) /\ Behind' = SubSeq(z, a + 1, Len(z)) /\ Middle' = <<>>
      BY <1>2, <1>7, <3>3, <3>4, <3>5, PlainParts
    <3>7. Leading' = Leading /\ Behind' = SubSeq(Behind, Chosen + 1, Len(Behind))
      BY <1>4, <1>6, <3>3, <3>4, <3>6
    <3> QED
      BY <3>6, <3>7
  <2>3. ASSUME a = c, c > 0, field' = Plain(Cut(x, c - 1, c, <<>>), c - 1) PROVE Goal
    <3> DEFINE d == c - 1
               z == Cut(x, d, c, <<>>)
               o == <<>>
    <3>0. o \in Seq(Char) /\ Len(o) = 0 /\ z = Cut(x, d, c, o)
      BY EmptySeq
    <3>1. d \in Nat /\ d <= c /\ c <= Len(x) /\ d + 0 = d /\ d = c - 1
      BY <1>2, <1>l, <2>3
    <3> HIDE DEF z, o, d
    <3>2. CutApart(z, x, o, d, c)
      BY <1>2, <3>0, <3>1, CutParts
    <3>3. /\ z \in Seq(Char) /\ Len(z) = d + 0 + (n - c) /\ SubSeq(z, 1, d) = SubSeq(x, 1, d)
          /\ SubSeq(z, d + 0 + 1, Len(z)) = SubSeq(x, c + 1, n)
      BY <1>l, <3>0, <3>2 DEF CutApart
    <3>4. d <= Len(z)
      BY <1>2, <3>1, <3>3
    <3>5. field' = Plain(z, d)
      BY <2>3 DEF z, d
    <3>6. /\ field' \in Fields /\ field'.anchor <= field'.caret /\ Chosen' = 0
          /\ Leading' = SubSeq(z, 1, d) /\ Behind' = SubSeq(z, d + 1, Len(z)) /\ Middle' = <<>>
      BY <1>7, <3>1, <3>3, <3>4, <3>5, PlainParts
    <3>7. Behind' = Behind
      BY <1>4, <2>3, <3>1, <3>3, <3>6
    <3>8. Leading' = SubSeq(Leading, 1, Len(Leading) - 1)
      <4>1. 0 \in Nat /\ 0 <= a /\ a <= Len(x) /\ 0 <= d /\ d <= a - 0 /\ 0 + 0 + 1 = 1
            /\ 0 + d = d /\ 0 + 1 = 1
        BY <1>2, <1>l, <2>3, <3>1
      <4>2. SubSeq(SubSeq(x, 0 + 1, a), 0 + 1, d) = SubSeq(x, 0 + 0 + 1, 0 + d)
        BY <1>2, <3>1, <4>1, StretchOf
      <4>3. SubSeq(Leading, 1, d) = SubSeq(x, 1, d)
        BY <1>4, <4>1, <4>2
      <4>4. Len(Leading) - 1 = d
        BY <1>l, <2>3, <3>1
      <4> QED
        BY <3>3, <3>6, <4>3, <4>4
    <3> QED
      BY <3>6, <3>7, <3>8
  <2> QED
    BY <1>9, <2>1, <2>2, <2>3
<1>11. TextInv'
  <2>1. /\ active' \in BOOLEAN /\ composing' \in BOOLEAN
        /\ cursor' \in 0 .. MaxComp /\ len' \in 0 .. MaxComp /\ selection' \in 0 .. MaxComp
    BY <1>1 DEF TextInv
  <2> QED
    BY <1>7, <1>10, <2>1 DEF TextInv
<1> QED
  BY <1>3, <1>10, <1>11

\* The invariant says where the composition is.
LEMMA TextIs == TextInv => TextPart!TypeOK /\ TextPart!CompositionPlaced
<1> SUFFICES ASSUME TextInv PROVE TextPart!TypeOK /\ TextPart!CompositionPlaced
  OBVIOUS
<1>1. TextPart!TypeOK
  <2>1. field.text \in Seq(Char) /\ field.caret \in 0 .. Len(field.text)
        /\ field.anchor \in 0 .. Len(field.text)
    BY TextSituation
  <2> QED
    BY <2>1 DEF TextPart!TypeOK, TextInv
<1>2. TextPart!CompositionPlaced
  <2>1. composing \in BOOLEAN
    BY DEF TextInv
  <2>2. ASSUME composing = TRUE
        PROVE  /\ field.anchor >= cursor /\ field.caret = field.anchor + selection
               /\ len - cursor <= Len(field.text) - field.anchor
    <3>1. /\ {field.anchor, field.caret, TextPart!Start, Chosen, End} \subseteq Nat
          /\ {cursor, len, selection} \subseteq Nat /\ Len(field.text) \in Nat
          /\ TextPart!Start + cursor = field.anchor /\ TextPart!Start + len <= End
          /\ End <= Len(field.text) /\ field.caret = field.anchor + selection
      BY <2>2, TextSituation
    <3> DEFINE a == field.anchor
               n == Len(field.text)
               b == TextPart!Start
    <3>2. a \in Nat /\ n \in Nat /\ b \in Nat /\ cursor \in Nat /\ len \in Nat /\ End \in Nat
          /\ b + cursor = a /\ b + len <= End /\ End <= n
      BY <3>1
    <3> HIDE DEF a, n, b
    <3>3. a >= cursor /\ len - cursor <= n - a
      BY <3>2
    <3> QED
      BY <3>1, <3>3 DEF a, n
  <2>3. composing => composing = TRUE
    BY Zenon, <2>1
  <2> QED
    BY Zenon, <2>2, <2>3 DEF TextPart!CompositionPlaced
<1> QED
  BY <1>1, <1>2

\* The field is empty at first.
LEMMA TextStart == TextPart!Init => TextInv
<1> SUFFICES ASSUME TextPart!Init PROVE TextInv
  OBVIOUS
<1>1. /\ field = [text |-> <<>>, caret |-> 0, anchor |-> 0] /\ active = FALSE /\ composing = FALSE
      /\ cursor = 0 /\ len = 0 /\ selection = 0
  BY DEF TextPart!Init
<1>2. /\ field \in [text : Seq(Char), caret : Nat, anchor : Nat] /\ Len(field.text) = 0
      /\ field.caret = 0 /\ field.anchor = 0
  BY <1>1, EmptySeq
<1>3. field \in Fields /\ field.anchor <= field.caret
  BY <1>2 DEF Fields
<1>4. cursor \in 0 .. MaxComp /\ len \in 0 .. MaxComp /\ selection \in 0 .. MaxComp
  BY <1>1, TextBounds
<1>5. active \in BOOLEAN /\ composing \in BOOLEAN /\ composing # TRUE
  BY <1>1
<1> QED
  BY <1>1, <1>3, <1>4, <1>5 DEF TextInv

\* Opening the input method leaves the text alone.
LEMMA OpensIme ==
  ASSUME TextInv, TextPart!OpenIme
  PROVE  TextInv' /\ Leading' = Leading /\ Middle' = Middle /\ Behind' = Behind /\ Chosen' = Chosen
         /\ cursor' = cursor /\ selection' = selection
<1>1. /\ active' = TRUE /\ UNCHANGED <<field, composing, cursor, len, selection>>
      /\ active # TRUE
  BY Zenon DEF TextPart!OpenIme
<1>2. active' = active \/ composing # TRUE
  BY <1>1 DEF TextInv
<1>3. TextInv' /\ Leading' = Leading /\ Middle' = Middle /\ Behind' = Behind /\ Chosen' = Chosen
  BY <1>1, <1>2, TextKept
<1> QED
  BY <1>1, <1>3

\* The cases of a step.
LEMMA TextCases ==
  ASSUME TextPart!Next
  PROVE  \/ \E t \in TextPart!Text(MaxComp), s, l \in 0 .. MaxComp :
              s \in 0 .. Len(t) /\ l \in 0 .. Len(t) /\ TextPart!TextEditing(t, s, l)
         \/ \E t \in TextPart!Text(MaxComp) : TextPart!TextInput(t)
         \/ TextPart!OpenIme \/ TextPart!ResetImeMode
         \/ \E k \in {"left", "right", "back"} : TextPart!UserKey(k)
<1>1. ASSUME NEW t \in TextPart!Text(MaxComp), NEW s \in 0 .. Len(t) PROVE s \in 0 .. MaxComp
  BY TextsAre, TextBounds
<1> QED
  BY <1>1 DEF TextPart!Next

\* Every event keeps the composition where it was put.
LEMMA TextStays == TextInv /\ [TextPart!Next]_textVars => TextInv'
<1> SUFFICES ASSUME TextInv, [TextPart!Next]_textVars PROVE TextInv'
  OBVIOUS
<1>1. CASE TextPart!Next
  <2>1. ASSUME NEW t \in TextPart!Text(MaxComp), NEW s \in 0 .. Len(t), NEW l \in 0 .. Len(t),
               TextPart!TextEditing(t, s, l) PROVE TextInv'
    BY <2>1, Composes
  <2>2. ASSUME NEW t \in TextPart!Text(MaxComp), TextPart!TextInput(t) PROVE TextInv'
    BY <2>2, Commits
  <2>3. CASE TextPart!OpenIme
    BY <2>3, OpensIme
  <2>4. CASE TextPart!ResetImeMode
    BY <2>4, LeavesField
  <2>5. ASSUME NEW k \in {"left", "right", "back"}, TextPart!UserKey(k) PROVE TextInv'
    BY <2>5, Edits
  <2> QED
    BY <1>1, <2>1, <2>2, <2>3, <2>4, <2>5, TextCases
<1>2. CASE UNCHANGED textVars
  BY <1>2 DEF textVars, TextInv
<1> QED
  BY <1>1, <1>2

-----------------------------------------------------------------------------
(***************************************************************************)
(* The keys implement the field of the user of an input method.            *)
(***************************************************************************)
\* The parts of the text are what the variables of TextField stand for.
LEMMA MappedTo ==
  ASSUME TextInv
  PROVE  /\ (IF composing THEN 0 ELSE field.caret - field.anchor) = Chosen
         /\ SubSeq(field.text, 1, TextPart!Start) = Leading
         /\ SubSeq(field.text, TextPart!Start + 1, TextPart!Start + len) = Middle
         /\ SubSeq(field.text, TextPart!Start + len + 1, Len(field.text)) = Behind
<1>1. composing \in BOOLEAN
  BY DEF TextInv
<1>2. (IF composing THEN 0 ELSE field.caret - field.anchor) = Chosen
  BY Zenon, <1>1 DEF Chosen
<1> QED
  BY <1>2 DEF Leading, Middle, Behind

\* The same after a step.
LEMMA MappedToNext ==
  ASSUME TextInv'
  PROVE  /\ (IF composing' THEN 0 ELSE field'.caret - field'.anchor) = Chosen'
         /\ SubSeq(field'.text, 1, TextPart!Start') = Leading'
         /\ SubSeq(field'.text, TextPart!Start' + 1, TextPart!Start' + len') = Middle'
         /\ SubSeq(field'.text, TextPart!Start' + len' + 1, Len(field'.text)) = Behind'
<1>1. composing' \in BOOLEAN
  BY DEF TextInv
<1>2. (IF composing' THEN 0 ELSE field'.caret - field'.anchor) = Chosen'
  BY Zenon, <1>1 DEF Chosen
<1> QED
  BY <1>2 DEF Leading, Middle, Behind

\* Every step is one of the field.
LEMMA FieldStarts == ASSUME TextPart!Init, TextInv PROVE Composed!Init
<1>1. Leading = <<>> /\ Middle = <<>> /\ Behind = <<>> /\ Chosen = 0
  <2>1. /\ field = [text |-> <<>>, caret |-> 0, anchor |-> 0] /\ composing = FALSE
        /\ cursor = 0 /\ len = 0
    BY DEF TextPart!Init
  <2>2. TextPart!Start = 0 /\ Chosen = 0 /\ Len(field.text) = 0
    BY <2>1 DEF TextPart!Start, Chosen
  <2>3. /\ Leading \in Seq(Char) /\ Len(Leading) = 0 /\ Middle \in Seq(Char) /\ Len(Middle) = 0
        /\ Behind \in Seq(Char) /\ Len(Behind) = 0
    BY <2>1, <2>2, PartsAre
  <2> QED
    BY <2>2, <2>3, EmptySeq
<1> QED
  BY <1>1, MappedTo DEF Composed!Init, TextPart!Init

\* Every event, and every key of the user, is a step of the field.
LEMMA FieldMoves ==
  ASSUME TextInv, TextPart!Next, part = "text", part' = "text"
  PROVE  [Composed!Next]_Composed!vars
<1>0. TextInv'
  BY TextStays
<1> DEFINE w == (IF composing THEN 0 ELSE field.caret - field.anchor)
<1>1. /\ w = Chosen
      /\ (IF part = "text" THEN SubSeq(field.text, 1, TextPart!Start) ELSE <<>>) = Leading
      /\ (IF part = "text" THEN SubSeq(field.text, TextPart!Start + 1, TextPart!Start + len)
          ELSE <<>>) = Middle
      /\ (IF part = "text" THEN SubSeq(field.text, TextPart!Start + len + 1, Len(field.text))
          ELSE <<>>) = Behind
  BY MappedTo
<1>2. /\ w' = Chosen'
      /\ (IF part = "text" THEN SubSeq(field.text, 1, TextPart!Start) ELSE <<>>)' = Leading'
      /\ (IF part = "text" THEN SubSeq(field.text, TextPart!Start + 1, TextPart!Start + len)
          ELSE <<>>)' = Middle'
      /\ (IF part = "text" THEN SubSeq(field.text, TextPart!Start + len + 1, Len(field.text))
          ELSE <<>>)' = Behind'
  BY <1>0, MappedToNext
<1>3. ASSUME NEW t \in TextPart!Text(MaxComp), NEW s \in 0 .. Len(t), NEW l \in 0 .. Len(t),
             TextPart!TextEditing(t, s, l) PROVE Composed!Compose
  <2>1. Leading' = Leading /\ Middle' = t /\ Replaces(t)
    BY <1>3, Composes
  <2>2. cursor' = s /\ selection' = l /\ s + l <= Len(t)
    BY <1>3 DEF TextPart!TextEditing
  <2>3. t \in Seq(Char) /\ Len(t) \in Nat
    BY TextsAre
  <2>4. cursor' \in 0 .. Len(t) /\ selection' \in 0 .. Len(t) - cursor'
    BY <2>2, <2>3
  <2>5. t \in Composed!Text
    BY DEF Composed!Text, TextPart!Text
  <2> QED
    BY <1>1, <1>2, <2>1, <2>4, <2>5 DEF Composed!Compose, Composed!Replaces, Composed!Rest, Replaces
<1>4. ASSUME NEW t \in TextPart!Text(MaxComp), TextPart!TextInput(t) PROVE Composed!Commit
  <2>1. Leading' = Leading \o t /\ Middle' = <<>> /\ Replaces(t)
    BY <1>4, Commits
  <2>2. cursor' = 0 /\ selection' = 0
    BY <1>4 DEF TextPart!TextInput
  <2>3. t \in Composed!Text
    BY DEF Composed!Text, TextPart!Text
  <2> QED
    BY <1>1, <1>2, <2>1, <2>2, <2>3 DEF Composed!Commit, Composed!Replaces, Composed!Rest, Replaces
<1>5. ASSUME TextPart!ResetImeMode PROVE Composed!Leave
  <2>1. /\ Middle' = <<>> /\ Leading' = Leading \o SubSeq(Middle, 1, cursor)
        /\ Behind' = SubSeq(Middle, cursor + 1, Len(Middle)) \o Behind
        /\ Chosen' = IF Middle = <<>> THEN Chosen ELSE selection
    BY <1>5, LeavesField
  <2>2. cursor' = 0 /\ selection' = 0
    BY <1>5 DEF TextPart!ResetImeMode, TextPart!Forget
  <2> QED
    BY <1>1, <1>2, <2>1, <2>2 DEF Composed!Leave
<1>6. ASSUME NEW k \in {"left", "right", "back"}, TextPart!UserKey(k) PROVE Composed!Edit
  <2>1. /\ Middle = <<>> /\ Middle' = <<>> /\ Chosen' = 0
        /\ Leading' \o Behind' \in {Leading \o Behind,
                                   Leading \o SubSeq(Behind, Chosen + 1, Len(Behind)),
                                   SubSeq(Leading, 1, Len(Leading) - 1) \o Behind}
    BY <1>6, Edits
  <2>2. cursor' = cursor /\ selection' = selection
    BY <1>6 DEF TextPart!UserKey
  <2> QED
    BY <1>1, <1>2, <2>1, <2>2 DEF Composed!Edit, Composed!Rest
<1>7. ASSUME TextPart!OpenIme PROVE UNCHANGED Composed!vars
  <2>1. Leading' = Leading /\ Middle' = Middle /\ Behind' = Behind /\ Chosen' = Chosen
        /\ cursor' = cursor /\ selection' = selection
    BY <1>7, OpensIme
  <2> QED
    BY <1>1, <1>2, <2>1 DEF Composed!vars
<1> QED
  BY <1>3, <1>4, <1>5, <1>6, <1>7, TextCases DEF Composed!Next

\* The steps of the others do not touch it.
LEMMA FieldKept ==
  ASSUME UNCHANGED <<part, textVars>> PROVE UNCHANGED Composed!vars
BY DEF Composed!vars, textVars, TextPart!Start

-----------------------------------------------------------------------------
(***************************************************************************)
(* The parts together.                                                     *)
(***************************************************************************)
\* The invariants of all parts.
PartsInv ==
  /\ LayersInv /\ TextInv /\ KeyInv /\ SizeInv /\ PictureInv
  /\ Orderly => Calls

\* Whatever part runs, each of them takes one of its steps or none.
LEMMA EveryMove ==
  ASSUME [PartsNext]_partsVars
  PROVE  /\ [Next]_vars /\ [TextPart!Next]_textVars /\ [Keyboard!Next]_(Keyboard!vars)
         /\ [Size!Next]_(Size!vars) /\ [Picture!Next]_(Picture!vars) /\ part' = part
         /\ (TextPart!Next /\ part = "text") \/ UNCHANGED textVars
<1>1. CASE WideStep \/ DeepStep
  <2>1. Next /\ OtherThanLayers
    BY <1>1 DEF WideStep, DeepStep
  <2> QED
    BY <2>1 DEF OtherThanLayers, textVars, keyVars, sizeVars, pictureVars, Keyboard!vars,
       Keyboard!deviceVars, Size!vars, Picture!vars
<1>2. CASE TextStep
  BY <1>2 DEF TextStep, textVars, keyVars, sizeVars, pictureVars, Keyboard!vars,
     Keyboard!deviceVars, Size!vars, Picture!vars
<1>3. CASE KeyStep
  BY <1>3 DEF KeyStep, textVars, sizeVars, pictureVars, Size!vars, Picture!vars
<1>4. CASE SizeStep
  BY <1>4 DEF SizeStep, textVars, keyVars, pictureVars, Keyboard!vars, Keyboard!deviceVars,
     Picture!vars
<1>5. CASE PictureStep
  BY <1>5 DEF PictureStep, textVars, keyVars, sizeVars, Keyboard!vars, Keyboard!deviceVars,
     Size!vars
<1>6. CASE UNCHANGED partsVars
  BY <1>6 DEF partsVars, textVars, keyVars, sizeVars, pictureVars, Keyboard!vars,
     Keyboard!deviceVars, Size!vars, Picture!vars
<1> QED
  BY <1>1, <1>2, <1>3, <1>4, <1>5, <1>6 DEF PartsNext

\* All parts start with their invariants.
LEMMA PartsStart == PartsInit => PartsInv
<1> SUFFICES ASSUME PartsInit PROVE PartsInv
  OBVIOUS
<1>1. Init /\ TextPart!Init /\ Keyboard!Init /\ Size!Init /\ Picture!Init
  BY DEF PartsInit
<1> QED
  BY <1>1, LayersStart, TextStart, KeyStart, SizeStart, PictureStart, CallsStart DEF PartsInv

\* All parts keep their invariants.
LEMMA PartsStay == PartsInv /\ [PartsNext]_partsVars => PartsInv'
<1> SUFFICES ASSUME PartsInv, [PartsNext]_partsVars PROVE PartsInv'
  OBVIOUS
<1>1. /\ [Next]_vars /\ [TextPart!Next]_textVars /\ [Keyboard!Next]_(Keyboard!vars)
      /\ [Size!Next]_(Size!vars) /\ [Picture!Next]_(Picture!vars)
  BY EveryMove
<1>2. LayersInv'
  BY <1>1, LayersStay DEF PartsInv
<1>3. TextInv'
  BY <1>1, TextStays DEF PartsInv
<1>4. KeyInv'
  BY <1>1, KeyStays DEF PartsInv
<1>5. SizeInv'
  BY <1>1, SizeStays DEF PartsInv
<1>6. PictureInv'
  BY <1>1, PictureStays DEF PartsInv
<1>7. ASSUME Orderly PROVE Calls'
  BY <1>1, <1>7, CallsStay DEF PartsInv
<1> QED
  BY <1>2, <1>3, <1>4, <1>5, <1>6, <1>7 DEF PartsInv

\* The invariants of all parts hold for ever.
LEMMA AlwaysParts == PartsSpec => []PartsInv
BY PartsStart, PartsStay, PTL DEF PartsSpec

-----------------------------------------------------------------------------
\* The variables of all parts keep their types, with windows, texts, keys,
\* sizes and rows of any number, and with scripts that are not orderly.
THEOREM PartsTyped == PartsSpec => []PartsTypeOK
<1>1. PartsInv => PartsTypeOK
  <2> SUFFICES ASSUME PartsInv PROVE PartsTypeOK
    OBVIOUS
  <2>1. TypeOK
    BY DEF PartsInv, LayersInv
  <2>2. TextPart!TypeOK
    BY TextIs DEF PartsInv
  <2>3. Keyboard!TypeOK
    BY DEF PartsInv, KeyInv
  <2>4. Size!TypeOK
    BY SizeHolds DEF PartsInv
  <2>5. Picture!TypeOK
    BY PictureHolds DEF PartsInv
  <2> QED
    BY <2>1, <2>2, <2>3, <2>4, <2>5 DEF PartsTypeOK
<1> QED
  BY <1>1, AlwaysParts, PTL

\* A method that waits in ShowModal or Close still has its window when it
\* goes on, no layer is left behind, there is a main window until the end,
\* and every click is asked of a window that exists: for any windows and any
\* depth of the call stack, if the script is orderly.
THEOREM WindowsStayWhole == ASSUME Orderly PROVE PartsSpec => []WindowsWhole
<1>1. PartsInv => WindowsWhole
  BY LayersHold DEF PartsInv
<1> QED
  BY <1>1, AlwaysParts, PTL

\* What does not take an orderly script: a script that invalidates a window
\* whose methods wait leaves no layer behind, no window without a main
\* window, and no click to one that is gone.
THEOREM WindowsStayKept == PartsSpec => [](NoOrphan /\ MainOrTerminated /\ ClicksOfOpen)
<1>1. PartsInv => NoOrphan /\ MainOrTerminated /\ ClicksOfOpen
  BY DEF PartsInv, LayersInv
<1> QED
  BY <1>1, AlwaysParts, PTL

\* The script is told of every key, button and pad what is so, nothing stays
\* down that is not held, and the composition is where the input method put
\* it, for keyboards and texts of any size.
THEOREM InputStaysAgreed == PartsSpec => []InputAgrees
<1>1. PartsInv => InputAgrees
  BY KeysHold, TextIs DEF PartsInv, InputAgrees
<1> QED
  BY <1>1, AlwaysParts, PTL

\* The picture keeps its proportion inside every window, the mouse is mapped
\* into it and back to within a pixel, and the screen shows the layer when
\* there is nothing left to draw.
THEOREM PictureStaysFit == PartsSpec => []PictureFits
<1>1. PartsInv => PictureFits
  BY SizeHolds, PictureHolds DEF PartsInv, PictureFits
<1> QED
  BY <1>1, AlwaysParts, PTL

\* No click reaches a window that a modal window covers, and the keys that
\* the events of an input method are turned into implement TextField: each
\* event replaces the composition and nothing else, whatever the field holds.
THEOREM InputAlwaysArrives == PartsSpec => InputArrives
<1>1. PartsInit => Composed!Init
  BY PartsStart, FieldStarts DEF PartsInit, PartsInv
<1>2. PartsInv /\ [PartsNext]_partsVars => [Composed!Next]_(Composed!vars)
  <2> SUFFICES ASSUME PartsInv, [PartsNext]_partsVars PROVE [Composed!Next]_(Composed!vars)
    OBVIOUS
  <2>1. part' = part /\ ((TextPart!Next /\ part = "text") \/ UNCHANGED textVars)
    BY EveryMove
  <2>2. CASE TextPart!Next /\ part = "text"
    BY <2>1, <2>2, FieldMoves DEF PartsInv
  <2>3. CASE UNCHANGED textVars
    BY <2>1, <2>3, FieldKept
  <2> QED
    BY <2>1, <2>2, <2>3
<1>3. PartsInv /\ [PartsNext]_partsVars
        => [\A w \in inMode : current = w => clicked' \subseteq clicked \cup {w}]_vars
  BY EveryMove, ModalCovering DEF PartsInv
<1> QED
  BY <1>1, <1>2, <1>3, AlwaysParts, PTL DEF PartsSpec, InputArrives, FieldSpec, ModalCovers,
     Composed!Spec
=============================================================================
