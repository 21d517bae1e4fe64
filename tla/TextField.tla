----------------------------- MODULE TextField ------------------------------
(***************************************************************************)
(* What a user of an input method sees: a text with a composition in it,   *)
(* which every editing event replaces, and which a commit replaces by the  *)
(* text it commits.  Selected text is replaced by what is typed.           *)
(***************************************************************************)
EXTENDS Naturals, Sequences

CONSTANTS Char, MaxText

VARIABLES
  before,  \* the text before the composition, or before the caret
  comp,    \* the composition
  after,   \* the text after the composition
  caret,   \* where the caret is in the composition
  sel,     \* how much of the composition is selected, after the caret
  left     \* how much of the text after is still selected, of a composition left

vars == <<before, comp, after, caret, sel, left>>
Text == UNION {[1 .. n -> Char] : n \in 0 .. MaxText}
Rest == SubSeq(after, left + 1, Len(after))

Init ==
  before = <<>> /\ comp = <<>> /\ after = <<>> /\ caret = 0 /\ sel = 0 /\ left = 0

\* Characters replace what is selected.
Replaces(t) ==
  IF t = <<>> THEN UNCHANGED <<after, left>> ELSE after' = Rest /\ left' = 0

Compose ==
  /\ comp' \in Text /\ caret' \in 0 .. Len(comp') /\ sel' \in 0 .. Len(comp') - caret'
  /\ Replaces(comp')
  /\ UNCHANGED before

Commit ==
  /\ \E t \in Text : before' = before \o t /\ Replaces(t)
  /\ comp' = <<>> /\ caret' = 0 /\ sel' = 0

\* The composition becomes text, with its selection.
Leave ==
  /\ before' = before \o SubSeq(comp, 1, caret)
  /\ after' = SubSeq(comp, caret + 1, Len(comp)) \o after
  /\ left' = IF comp = <<>> THEN left ELSE sel
  /\ comp' = <<>> /\ caret' = 0 /\ sel' = 0

\* Outside a composition the caret moves, or what is selected or one
\* character before it is deleted.
Edit ==
  /\ comp = <<>> /\ left' = 0
  /\ before' \o after' \in
       {before \o after, before \o Rest, SubSeq(before, 1, Len(before) - 1) \o after}
  /\ UNCHANGED <<comp, caret, sel>>

Next == Compose \/ Commit \/ Leave \/ Edit
Spec == Init /\ [][Next]_vars
=============================================================================
