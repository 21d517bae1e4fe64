----------------------------- MODULE WindowParts -----------------------------
(***************************************************************************)
(* The parts of the windows of the SDL2 build, side by side as in          *)
(* SoundParts: each behaviour is one of the part that the variable part    *)
(* names, and the variables of the others keep their initial values.  The  *)
(* windows are not an instance but this module's own.  They come twice:    *)
(* all of them, with few methods that wait, and a few of them with more    *)
(* methods that wait inside each other.                                    *)
(***************************************************************************)
EXTENDS Integers, WindowProperties

CONSTANTS
  WideFrames,                      \* bound on the call stack with all windows
  Few,                             \* the windows with a call stack of MaxFrames
  Char, MaxComp, MaxText,          \* of TextInput
  Keys, Buttons, Controllers,      \* of KeyInput
  Inner, WindowSizes, Desktop,     \* of WindowSize
  MaxWidth, Colours                \* of WindowPicture

ASSUME LayersAssumption == None \notin Window /\ MaxFrames \in Nat
\* No character is one of the keys that move and delete.
ASSUME TextAssumption ==
  /\ Char \cap {"left", "right", "shift left", "shift right", "back"} = {}
  /\ MaxComp \in Nat /\ MaxText \in Nat
ASSUME SizeAssumption ==
  Inner \cup WindowSizes \cup {Desktop} \subseteq (Nat \ {0}) \X (Nat \ {0})
ASSUME PictureAssumption == MaxWidth \in Nat /\ Colours # {}

VARIABLES part

VARIABLES field, active, composing, cursor, len, selection
TextPart == INSTANCE TextInput

VARIABLES held, mouse, opened, padHeld, imeActive, imeComposing, told, missed
Keyboard == INSTANCE KeyInput WITH active <- imeActive, composing <- imeComposing
\* The keyboard has no menu key, whose virtual key is that of the left Alt key too.
ASSUME KeysAssumption ==
  /\ Keys \subseteq DOMAIN Keyboard!VkOf \ {"MENU"}
  /\ Buttons \subseteq {"LBUTTON", "RBUTTON", "MBUTTON", "XBUTTON1", "XBUTTON2"}

VARIABLES inner, windowed, full, news, layer, dest, needs, presented
Size == INSTANCE WindowSize WITH shown <- presented

VARIABLES primary, region, surface, left, right, toPresent, texture
Picture == INSTANCE WindowPicture WITH needs <- toPresent

textVars == <<field, active, composing, cursor, len, selection>>
keyVars == <<held, mouse, opened, padHeld, imeActive, imeComposing, told, missed>>
sizeVars == <<inner, windowed, full, news, layer, dest, needs, presented>>
pictureVars == <<primary, region, surface, left, right, toPresent, texture>>

PartsInit ==
  /\ part \in {"wide", "deep", "text", "keys", "size", "picture"}
  /\ Init /\ TextPart!Init /\ Keyboard!Init /\ Size!Init /\ Picture!Init
  /\ part # "keys" => opened = {}
  /\ part # "size" => windowed = CHOOSE s \in WindowSizes : TRUE

OtherThanLayers == UNCHANGED <<part, textVars, keyVars, sizeVars, pictureVars>>
WideStep == part = "wide" /\ Next /\ Len(frames') <= WideFrames /\ OtherThanLayers
DeepStep == part = "deep" /\ Next /\ Window \ Few \subseteq fresh' /\ OtherThanLayers
Layers == part \in {"wide", "deep"} /\ OtherThanLayers
TextStep ==
  /\ part = "text" /\ TextPart!Next
  /\ UNCHANGED <<part, vars, keyVars, sizeVars, pictureVars>>
KeyStep ==
  /\ part = "keys" /\ Keyboard!Next
  /\ UNCHANGED <<part, vars, textVars, sizeVars, pictureVars>>
SizeStep ==
  /\ part = "size" /\ Size!Next
  /\ UNCHANGED <<part, vars, textVars, keyVars, pictureVars>>
PictureStep ==
  /\ part = "picture" /\ Picture!Next
  /\ UNCHANGED <<part, vars, textVars, keyVars, sizeVars>>

partsVars == <<part, vars, textVars, keyVars, sizeVars, pictureVars>>
PartsNext == WideStep \/ DeepStep \/ TextStep \/ KeyStep \/ SizeStep \/ PictureStep

\* The fairness is that of WindowLayers: a method whose loop may end ends.
PartsSpec ==
  /\ PartsInit /\ [][PartsNext]_partsVars
  /\ WF_partsVars(Layers /\ ModalEnds) /\ WF_partsVars(Layers /\ QueryEnds)
-----------------------------------------------------------------------------
\* The variables of every part keep their types.
PartsTypeOK ==
  /\ TypeOK /\ TextPart!TypeOK /\ Keyboard!TypeOK /\ Size!TypeOK /\ Picture!TypeOK

\* The windows and their methods (see WindowProperties): a waiting method
\* has its window, no layer is left behind, the main window, the clicks.
WindowsWhole == WaitingExists /\ NoOrphan /\ MainOrTerminated /\ ClicksOfOpen

\* The keys an input method is turned into implement the text field of
\* TextField (TextInput).
Composed == INSTANCE TextField WITH
  MaxText <- MaxComp,
  before <- IF part = "text" THEN SubSeq(field.text, 1, TextPart!Start) ELSE <<>>,
  comp <- IF part = "text"
          THEN SubSeq(field.text, TextPart!Start + 1, TextPart!Start + len) ELSE <<>>,
  after <- IF part = "text"
           THEN SubSeq(field.text, TextPart!Start + len + 1, Len(field.text)) ELSE <<>>,
  caret <- cursor, sel <- selection,
  left <- IF composing THEN 0 ELSE field.caret - field.anchor
FieldSpec == Composed!Spec

\* What input does: a modal window keeps it from the windows it covers
\* (WindowProperties), and the keys of an input method are those of a field.
InputArrives == ModalCovers /\ FieldSpec

\* Keys, buttons and pads: events and states agree, nothing stays down; and
\* the composition is where the input method put it (KeyInput, TextInput).
InputAgrees ==
  /\ Keyboard!ToldWhatIsHeld /\ Keyboard!NoneStuck /\ Keyboard!AskedAsTold /\ Keyboard!FlagsAgree
  /\ TextPart!CompositionPlaced

\* Where the picture is, for the screen and for the mouse (WindowSize), and
\* that the screen shows what the layers drew (WindowPicture).
PictureFits ==
  /\ Size!KnownBeforeInput /\ Size!DestFollows /\ Size!ShownWhereAsked
  /\ Size!Letterboxed /\ Size!CursorAgrees
  /\ Picture!ShowsLayer
=============================================================================
