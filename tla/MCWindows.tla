----------------------------- MODULE MCWindows ------------------------------
(***************************************************************************)
(* WindowParts with windows and pictures of a few sizes.                   *)
(***************************************************************************)
EXTENDS WindowParts

InnerSizes == {<<4, 3>>, <<8, 3>>}
OuterSizes == {<<4, 3>>, <<8, 6>>, <<9, 4>>, <<5, 8>>}
FullSize == <<12, 9>>
=============================================================================
