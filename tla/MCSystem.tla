------------------------------ MODULE MCSystem ------------------------------
(***************************************************************************)
(* SystemParts with a small disk, short command lines and a few machines.  *)
(***************************************************************************)
EXTENDS SystemParts

\* A name, and the same in upper case; what is there, at most one folder deep.
UpperOf == [a |-> "A"]
Outer == {<<"a">>, <<"A">>}
Inner == {<<"a", "a">>, <<"a", "A">>, <<"A", "a">>, <<"A", "A">>}
Disks == {t \in [folders : SUBSET (Outer \cup Inner), files : SUBSET (Outer \cup Inner)] :
            /\ t.folders \cap t.files = {}
            /\ \A p \in Inner \cap (t.folders \cup t.files) : <<p[1]>> \in t.folders}
Written == {<<"a">>, <<"a", "a">>, <<"a", "a", "a">>}

\* Two options of which one begins with the other, and words around them.
TwoOptions == {<<"c">>, <<"c", "o">>}
OptionLines ==
  {<<>>, <<[kind |-> "option", name |-> <<"c">>, value |-> "no"],
           [kind |-> "option", name |-> <<"c", "o">>, value |-> "yes"]>>,
   <<[kind |-> "option", name |-> <<"c", "o">>, value |-> "yes"],
     [kind |-> "word", name |-> <<>>, value |-> "no"],
     [kind |-> "stop", name |-> <<>>, value |-> "no"],
     [kind |-> "option", name |-> <<"c">>, value |-> "no"]>>}

\* Names beside the program, and lines with relative and absolute names, one
\* of them with a delimiter at its end.
DataNames == <<"content-data", "data">>
NameLines ==
  {<<>>, <<"-nosel">>, <<"g", "h">>, <<"-nosel", "g", "h">>, <<"g", "--", "h">>,
   <<"h", "--", "-nosel">>, <<"g", "/k", "h">>, <<"h/", "-nosel", "g", "/k">>}

\* A file, and the properties of it.
PropertyNames == [p \in {"x.prop"} |-> "x"]

\* No cache size, or one in megabytes.
Sizes == {-1, 0, 20, 600, 1000000}
=============================================================================
