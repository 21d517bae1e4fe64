-------------------------- MODULE LabelProperties --------------------------
(***************************************************************************)
(* What the label events of WaveLabels keep to.                            *)
(***************************************************************************)
EXTENDS WaveLabels

\* The labels of one play are fired in the order of their positions, each
\* once, whatever the interleaving of fills, events and the flush at the end.
FiredInOrder == \A i, j \in DOMAIN fired : i < j => fired[i] < fired[j]

\* A sound that ended by itself has fired all its labels.
EndFires == FillEnds => Range(fired') = Labels

\* A label in the queue of a sound that is never paused wakes somebody: the
\* playing thread knows of it, though UtilWndProc resets what it knows.
LabelsAwaited == playing /\ labelQueue # {} => pending \/ (called /\ posted > 0)
=============================================================================
