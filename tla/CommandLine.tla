---------------------------- MODULE CommandLine -----------------------------
(***************************************************************************)
(* The arguments of the program: what TVPGetCommandLine answers and        *)
(* TVPSetCommandLine changes, and who keeps an answer.  A reader compares  *)
(* the generation of the arguments with the one it read last, and asks     *)
(* again only if they differ: the draw device ("-smoothzoom") and the      *)
(* start of continuous events ("-contfreq").  Configuration files are not  *)
(* read in this build.  A name is the sequence of its letters, since one   *)
(* may begin with another.                                                 *)
(***************************************************************************)
EXTENDS Naturals, Sequences, SequencesExt, FiniteSets

CONSTANTS
  Lines,        \* command lines: sequences of words [kind, name, value]
  Names,        \* of options
  Values,
  None,         \* no such option
  Width,        \* 32 in the code: of the generation
  MaxSets       \* bound on TVPSetCommandLine between two readings

VARIABLES
  options,      \* TVPProgramArguments
  generation,   \* TVPCommandLineArgumentGeneration
  seen, kept,   \* of the reader of a name: the generation it read, and what
  sets          \* how often the arguments changed since the last reading

vars == <<options, generation, seen, kept, sets>>

TypeOK ==
  /\ \A i \in DOMAIN options : options[i].value \in Values
  /\ generation \in 1 .. 2 ^ Width - 1
  /\ seen \in [Names -> 0 .. 2 ^ Width - 1] /\ kept \in [Names -> Values \cup {None}]
  /\ sets \in 0 .. MaxSets

-----------------------------------------------------------------------------
\* PushAllCommandlineArguments: options up to "--", what follows is "-arg0",
\* "-arg1".  Other words are no options.
Stop(line) ==
  LET stops == {i \in DOMAIN line : line[i].kind = "stop"}
  IN IF stops = {} THEN Len(line) + 1 ELSE CHOOSE i \in stops : \A j \in stops : i <= j
Numbered(i) == <<"arg", ToString(i)>>
Pushed(line) ==
  LET given == SelectSeq(SubSeq(line, 1, Stop(line) - 1), LAMBDA w : w.kind = "option")
      rest == SubSeq(line, Stop(line) + 1, Len(line))
  IN [i \in DOMAIN given |-> [name |-> given[i].name, value |-> given[i].value]]
     \o [i \in DOMAIN rest |-> [name |-> Numbered(i - 1), value |-> rest[i].value]]

\* Fault: an option is taken for another that begins with its name.
Begins(name, option) == IsPrefix(name, option.name)
Is(name, option) == IsPrefix(name, option.name) /\ Len(option.name) = Len(name)

At(name) == {i \in DOMAIN options : Is(name, options[i])}
First(name) == CHOOSE i \in At(name) : \A j \in At(name) : i <= j
GetCommandLine(name) == IF At(name) = {} THEN None ELSE options[First(name)].value

Init ==
  /\ \E line \in Lines : options = Pushed(line)
  /\ generation = 1
  /\ seen = [n \in Names |-> 0] /\ kept = [n \in Names |-> None] /\ sets = 0

\* Faults: the generation that means never read is not left out; only an
\* option that is there makes a new one.
NextUnskipped(had) == (generation + 1) % 2 ^ Width
NextIfChanged(had) ==
  IF ~had THEN generation ELSE IF (generation + 1) % 2 ^ Width = 0 THEN 1 ELSE generation + 1
NextGeneration(had) ==
  IF (generation + 1) % 2 ^ Width = 0 THEN 1 ELSE generation + 1

\* TVPSetCommandLine: the first of that name, or a new one in front.
SetCommandLine(name, value) ==
  LET had == GetCommandLine(name) # None
  IN /\ sets < MaxSets /\ sets' = sets + 1
     /\ options' = IF had THEN [options EXCEPT ![First(name)].value = value]
                  ELSE <<[name |-> name, value |-> value]>> \o options
     /\ generation' = NextGeneration(had)
     /\ UNCHANGED <<seen, kept>>

\* A reader, when its subject is needed.
Read(name) ==
  /\ IF seen[name] = generation THEN UNCHANGED <<seen, kept>>
     ELSE /\ seen' = [seen EXCEPT ![name] = generation]
          /\ kept' = [kept EXCEPT ![name] = GetCommandLine(name)]
  /\ sets' = IF \A n \in Names : seen'[n] = generation THEN 0 ELSE sets
  /\ UNCHANGED <<options, generation>>

Next == \E n \in Names : Read(n) \/ \E v \in Values : SetCommandLine(n, v)
Spec == Init /\ [][Next]_vars
-----------------------------------------------------------------------------
\* A reader whose generation is the current one keeps what it would be
\* answered now.
KeptIsCurrent ==
  \A n \in Names : seen[n] = generation => kept[n] = GetCommandLine(n)

\* Setting one option changes no other, whichever names begin with which, and
\* whatever comes after "--".
Changed == {n \in Names : GetCommandLine(n)' # GetCommandLine(n)}
OthersUntouched == [][Cardinality(Changed) <= 1]_vars
=============================================================================
