----------------------------- MODULE TextInput ------------------------------
(***************************************************************************)
(* Input methods in the SDL2 build: window_receive_event turns the editing *)
(* and input events of SDL into keys that take the composition out of the  *)
(* text field of the script and type it anew.  The field is the script's:  *)
(* a text, a caret, and the other end of a selection.  Keys reach it in    *)
(* the order they are posted, so an event posts and applies them at once.  *)
(* The input method sends UTF-8: other text leaves the length of a         *)
(* composition behind that is no longer in the field.                      *)
(***************************************************************************)
EXTENDS Naturals, Sequences

CONSTANTS
  Char,       \* characters
  MaxComp,    \* bound on the length of a composition or of committed text
  MaxText     \* bound on the text

VARIABLES
  field,      \* of the script: [text, caret, anchor]
  active,     \* SDL_IsTextInputActive
  composing,  \* ime_composition is set
  cursor, len, selection  \* ime_composition_cursor, _len, _selection

vars == <<field, active, composing, cursor, len, selection>>

Text(n) == UNION {[1 .. k -> Char] : k \in 0 .. n}

TypeOK ==
  /\ field.text \in Seq(Char)
  /\ field.caret \in 0 .. Len(field.text) /\ field.anchor \in 0 .. Len(field.text)
  /\ {active, composing} \subseteq BOOLEAN
  /\ cursor \in 0 .. MaxComp /\ len \in 0 .. MaxComp /\ selection \in 0 .. MaxComp

Init ==
  /\ field = [text |-> <<>>, caret |-> 0, anchor |-> 0]
  /\ active = FALSE /\ composing = FALSE
  /\ cursor = 0 /\ len = 0 /\ selection = 0

-----------------------------------------------------------------------------
(* The field.  An arrow gives the selection up, with shift it moves one end *)
(* of it; backspace and characters replace it.                              *)
Least(a, b) == IF a <= b THEN a ELSE b
Most(a, b)  == IF a <= b THEN b ELSE a
At(f, c) == [f EXCEPT !.caret = c, !.anchor = c]
Ahead(f) == Least(f.caret + 1, Len(f.text))
Back(f)  == Most(f.caret, 1) - 1
Replaced(f, from, to, t) ==
  [text |-> SubSeq(f.text, 1, from) \o t \o SubSeq(f.text, to + 1, Len(f.text)),
   caret |-> from + Len(t), anchor |-> from + Len(t)]
OverSelection(f, t) == Replaced(f, Least(f.caret, f.anchor), Most(f.caret, f.anchor), t)

Pressed(f, key) ==
  CASE key = "left"        -> At(f, Back(f))
    [] key = "right"       -> At(f, Ahead(f))
    [] key = "shift left"  -> [f EXCEPT !.caret = Back(f)]
    [] key = "shift right" -> [f EXCEPT !.caret = Ahead(f)]
    [] key = "back"        -> IF f.caret # f.anchor THEN OverSelection(f, <<>>)
                              ELSE Replaced(f, Back(f), f.caret, <<>>)
    [] OTHER               -> OverSelection(f, <<key>>)

Times(n, key) == [i \in 1 .. n |-> key]
Typed(keys) ==
  LET f[i \in 0 .. Len(keys)] == IF i = 0 THEN field ELSE Pressed(f[i - 1], keys[i])
  IN f[Len(keys)]

-----------------------------------------------------------------------------
\* Fault: the caret is not moved back to the end of the composition.
UndoFromCursor == Times(selection, "shift left") \o Times(len, "back")

\* The keys that take the composition before this event out of the field.
Undo ==
  Times(selection, "shift left") \o Times(len - cursor, "right") \o Times(len, "back")

\* Fault: the selection is made without shift.
PlaceUnselected(n, start, sel) == Times(n - start, "left") \o Times(sel, "right")

\* The keys that put caret and selection into a composition of n characters.
Place(n, start, sel) == Times(n - start, "left") \o Times(sel, "shift right")

\* SDL_TEXTEDITING: an empty composition is none.
TextEditing(t, start, sel) ==
  /\ active /\ start + sel <= Len(t)
  /\ composing' = (t # <<>>)
  /\ len' = Len(t) /\ cursor' = start /\ selection' = sel
  /\ field' = Typed(Undo \o t \o Place(Len(t), start, sel))
  /\ UNCHANGED active

\* SDL_TEXTINPUT.
TextInput(t) ==
  /\ active
  /\ composing' = FALSE /\ len' = 0 /\ cursor' = 0 /\ selection' = 0
  /\ field' = Typed(Undo \o t)
  /\ UNCHANGED active

\* SetImeMode, with a mode that opens the input method.
OpenIme ==
  /\ ~active /\ active' = TRUE
  /\ UNCHANGED <<field, composing, cursor, len, selection>>

\* ResetImeMode, and SetImeMode with a mode that closes: what was composed
\* stays in the field.
Forget == composing' = FALSE /\ len' = 0 /\ cursor' = 0 /\ selection' = 0
ResetImeMode ==
  /\ Forget
  /\ active' = FALSE
  /\ UNCHANGED field

\* SDL_KEYDOWN: dropped during a composition.
UserKey(key) ==
  /\ ~(active /\ composing)
  /\ field' = Pressed(field, key)
  /\ UNCHANGED <<active, composing, cursor, len, selection>>

Next ==
  \/ \E t \in Text(MaxComp) :
       /\ Len(field.text) + Len(t) <= MaxText
       /\ TextInput(t) \/ \E s, n \in 0 .. Len(t) : TextEditing(t, s, n)
  \/ OpenIme \/ ResetImeMode
  \/ \E k \in {"left", "right", "back"} : UserKey(k)

Spec == Init /\ [][Next]_vars
-----------------------------------------------------------------------------
\* While there is a composition the field holds it: caret and selection are
\* where the input method put them, and the whole composition is around
\* them, whatever was typed, committed, closed and composed before.
CompositionPlaced ==
  composing => /\ field.anchor >= cursor /\ field.caret = field.anchor + selection
               /\ len - cursor <= Len(field.text) - field.anchor

\* The keys implement TextField: an event replaces the composition, and the
\* text around it is never touched.
Start == field.anchor - cursor
Composed == INSTANCE TextField WITH
  MaxText <- MaxComp,
  before <- SubSeq(field.text, 1, Start),
  comp <- SubSeq(field.text, Start + 1, Start + len),
  after <- SubSeq(field.text, Start + len + 1, Len(field.text)),
  caret <- cursor, sel <- selection,
  left <- IF composing THEN 0 ELSE field.caret - field.anchor
FieldSpec == Composed!Spec
=============================================================================
