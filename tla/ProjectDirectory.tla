-------------------------- MODULE ProjectDirectory --------------------------
(***************************************************************************)
(* How TVPBeforeSystemInit finds the scripts: beside the program, unless   *)
(* "-nosel" is given, else in the current directory, which names on the    *)
(* command line replace.  One step for every place that is looked at: the  *)
(* names beside the program, the current directory, and the words of the   *)
(* line.  The path of the directory is the set of the places it is made    *)
(* of, in their order: a relative name is taken from the directory before. *)
(***************************************************************************)
EXTENDS Integers, Sequences, SequencesExt

CONSTANTS
  Beside,       \* names beside the program, in the order they are tried
  Given,        \* names on the command line
  Relative,     \* those that are no absolute paths
  Ended,        \* those that end with a delimiter
  Lines         \* command lines: sequences of names, "-nosel" and "--"

VARIABLES
  there,        \* the names that are folders or files
  known,        \* getcwd succeeds
  line,         \* the words of the command line
  next,         \* which place is looked at next
  directory,    \* TVPProjectDir
  selected,     \* TVPProjectDirSelected: the script in it is started
  failed        \* an exception has ended the start

vars == <<there, known, line, next, directory, selected, failed>>

Here == Len(Beside) + 1
End == Here + Len(line)
Done == next > End
Word(p) == line[p - Here]

TypeOK ==
  /\ there \subseteq Given \cup Range(Beside) /\ known \in BOOLEAN
  /\ line \in Lines /\ next \in 1 .. End + 1
  /\ directory \subseteq 1 .. End /\ selected \in BOOLEAN /\ failed \in BOOLEAN

Init ==
  /\ there \in SUBSET (Given \cup Range(Beside)) /\ known \in BOOLEAN
  /\ line \in Lines /\ next = 1 /\ directory = {} /\ selected = FALSE /\ failed = FALSE

\* What is before "--".
Stop == IF Contains(line, "--") THEN SelectInSeq(line, LAMBDA w : w = "--") ELSE Len(line) + 1
\* What TVPGetCommandLine answers.
NoSelection == Contains(SubSeq(line, 1, Stop - 1), "-nosel")

\* Fault: of what is beside the program the last is taken.
TriedLast(b) == b \in there /\ \A c \in Range(SubSeq(Beside, next + 1, Len(Beside))) : c \notin there
Tried(b) == b \in there

LookBeside ==
  /\ next <= Len(Beside)
  /\ IF Tried(Beside[next]) /\ ~NoSelection
     THEN directory' = {next} /\ selected' = TRUE /\ next' = End + 1
     ELSE next' = next + 1 /\ UNCHANGED <<directory, selected>>
  /\ UNCHANGED <<there, known, line, failed>>

LookHere ==
  /\ next = Here /\ next' = next + 1
  /\ IF known THEN directory' = {Here} /\ selected' = ~NoSelection
     ELSE UNCHANGED <<directory, selected>>
  /\ UNCHANGED <<there, known, line, failed>>

\* Fault: the words after "--" are names as well.
EveryWord == Len(line)
LastWord == Stop - 1

\* What TVPNormalizeStorageName makes of a name in the directory before.
Below(p) == IF Word(p) \in Relative THEN directory \cup {p} ELSE {p}

\* TVPProjectDirSelected is set already when the current directory is taken: a
\* name that is not there is taken as well, and TVPSetCurrentDirectory throws
\* when no delimiter ends it.
LookAtWord ==
  /\ next > Here /\ ~Done
  /\ IF next > Here + LastWord THEN next' = End + 1 /\ UNCHANGED <<directory, selected, failed>>
     ELSE IF Word(next) \notin Given
     THEN next' = next + 1 /\ UNCHANGED <<directory, selected, failed>>
     ELSE /\ selected' = (selected \/ Word(next) \in there)
          /\ directory' = IF selected' THEN Below(next) ELSE directory
          /\ failed' = (selected' /\ Word(next) \notin there \cup Ended)
          /\ next' = IF failed' THEN End + 1 ELSE next + 1
  /\ UNCHANGED <<there, known, line>>

Next == LookBeside \/ LookHere \/ LookAtWord
Spec == Init /\ [][Next]_vars
-----------------------------------------------------------------------------
Names == {p \in Here + 1 .. Here + Stop - 1 : Word(p) \in Given}

\* The names that are taken: all of them where the current directory counts as
\* selected, else those from the first one that is there.
Taken == {p \in Names : (known /\ ~NoSelection) \/ \E q \in Names : q <= p /\ Word(q) \in there}

\* Where the program looks for its scripts.  Unless "-nosel" leaves it out, the
\* first of the names that is there beside it, and no other.  Else the names
\* before "--" that are taken: from the last one that is an absolute path each
\* below the one before, and below the current directory, or the program's,
\* when none is absolute.  Not that the names are there: one that is missing is
\* taken too once something is selected (SysInitImpl.cpp:1404, 1431), and the
\* start fails for such a name, unless a delimiter ends it, and for no other;
\* nor that the path made of two relative names is what was looked at.
ProjectFound ==
  Done =>
    IF ~NoSelection /\ \E b \in DOMAIN Beside : Beside[b] \in there
    THEN /\ \E b \in DOMAIN Beside :
              directory = {b} /\ Beside[b] \in there /\ \A c \in 1 .. b - 1 : Beside[c] \notin there
         /\ selected /\ ~failed
    ELSE /\ failed <=> \E p \in Taken : Word(p) \notin there \cup Ended
         /\ ~failed =>
              /\ directory = {p \in Taken \cup (IF known THEN {Here} ELSE {}) :
                                \A q \in Taken : q > p => Word(q) \in Relative}
              /\ selected <=> (known /\ ~NoSelection) \/ Taken # {}
=============================================================================
