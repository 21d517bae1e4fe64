------------------------------ MODULE AutoPath ------------------------------
(***************************************************************************)
(* Where a name is: in the current folder, else in one of the folders that *)
(* scripts added to the auto path, the last added first.  The folders are  *)
(* listed once, into a table, and every answer is kept in a cache, also    *)
(* that there is none.  Both are cleared when the list, the current folder *)
(* or, through the program, the files change, and when the application is  *)
(* deactivated.  Properties of a file are kept in a file beside it whose   *)
(* name has ".prop" added, and are listed under the name of the file.      *)
(***************************************************************************)
EXTENDS Naturals, Sequences, SequencesExt

CONSTANTS
  Folder,
  Archive,      \* the folders in archives, which are not listed for properties
  Name,
  Chopped,      \* of a name with ".prop", the name without it; empty with -ignorefileprop
  Nowhere,      \* the empty name
  Unknown,      \* not in the cache
  MaxList       \* bound on the list

VARIABLES
  files,        \* \subseteq Folder \X Name
  folder,       \* the current one
  list,         \* TVPAutoPathList
  table,        \* TVPAutoPathTable, Unknown before it is built (AutoPathTableInit)
  empty,        \* the names in it with the flag EMPTY_FILE
  cache,        \* TVPAutoPathCache
  outside       \* history: others changed the files since the caches were cleared

vars == <<files, folder, list, table, empty, cache, outside>>

Empty == [n \in Name |-> Unknown]

TypeOK ==
  /\ files \subseteq Folder \X Name /\ folder \in Folder
  /\ list \in Seq(Folder) /\ IsInjective(list)
  /\ table \in [Name -> Folder \cup {Nowhere, Unknown}]
  /\ empty \subseteq Name
  /\ cache \in [Name -> Folder \cup {Nowhere, Unknown}]
  /\ outside \in BOOLEAN

Init ==
  /\ files \in SUBSET (Folder \X Name) /\ folder \in Folder /\ list = <<>>
  /\ table = Empty /\ empty = {} /\ cache = Empty /\ outside = FALSE

-----------------------------------------------------------------------------
\* Fault: what is in the table stays there.
TableKept == cache' = Empty /\ outside' = FALSE /\ UNCHANGED <<table, empty>>

\* TVPClearAutoPathCache.
Cleared == table' = Empty /\ empty' = {} /\ cache' = Empty /\ outside' = FALSE

Has(f, n) == <<f, n>> \in files

\* A folder lists the name of a file that it has only the properties of.
Pretends(f, n) ==
  f \notin Archive /\ ~Has(f, n) /\ \E p \in DOMAIN Chopped : Chopped[p] = n /\ Has(f, p)

\* TVPRebuildAutoPathTable: a folder that comes later takes the name over.
Lists(n) == {i \in DOMAIN list : Has(list[i], n) \/ Pretends(list[i], n)}
LastOf(S) == CHOOSE i \in S : \A j \in S : i >= j
Listed(n) == IF Lists(n) = {} THEN Nowhere ELSE list[LastOf(Lists(n))]
ListedEmpty == {n \in Name : Lists(n) # {} /\ Pretends(Listed(n), n)}

\* AutoPathTableInit is not set.
Unlisted == \A n \in Name : table[n] = Unknown
Built == IF Unlisted THEN [n \in Name |-> Listed(n)] ELSE table
BuiltEmpty == IF Unlisted THEN ListedEmpty ELSE empty

\* Fault: a file that is not there is answered.
AnswerListed(n) == Built[n]
Answer(n) == IF n \in BuiltEmpty THEN Nowhere ELSE Built[n]

\* TVPGetPlacedPath, of a name that is not in the cache.
GetPlacedPath(n) ==
  /\ cache[n] = Unknown
  /\ IF Has(folder, n)
     THEN cache' = [cache EXCEPT ![n] = folder] /\ UNCHANGED <<table, empty>>
     ELSE table' = Built /\ empty' = BuiltEmpty /\ cache' = [cache EXCEPT ![n] = Answer(n)]
  /\ UNCHANGED <<files, folder, list, outside>>

AddAutoPath(f) ==
  /\ list' = IF f \in Range(list) THEN list ELSE Append(list, f)
  /\ Len(list') <= MaxList
  /\ Cleared /\ UNCHANGED <<files, folder>>

RemoveAutoPath(f) ==
  /\ IF f \in Range(list) THEN \E i \in DOMAIN list : list[i] = f /\ list' = RemoveAt(list, i)
     ELSE UNCHANGED list
  /\ Cleared /\ UNCHANGED <<files, folder>>

SetCurrentDirectory(f) == folder' = f /\ Cleared /\ UNCHANGED <<files, list>>

\* TVPCreateStream for writing: in the current folder.  For update, where
\* the name is.  Archives are not written to.
CreateStream(n) ==
  /\ folder \notin Archive
  /\ files' = files \cup {<<folder, n>>}
  /\ Cleared /\ UNCHANGED <<folder, list>>

\* The cache drops what was not asked for long.
Forget(n) ==
  /\ cache[n] # Unknown /\ cache' = [cache EXCEPT ![n] = Unknown]
  /\ UNCHANGED <<files, folder, list, table, empty, outside>>

\* OnCompact, when the application is deactivated.
Compact == Cleared /\ UNCHANGED <<files, folder, list>>

\* Other programs, and TVPRemoveFile.
Others(f, n) ==
  /\ files' = IF <<f, n>> \in files THEN files \ {<<f, n>>} ELSE files \cup {<<f, n>>}
  /\ outside' = TRUE /\ UNCHANGED <<folder, list, table, empty, cache>>

Next ==
  \/ Compact
  \/ \E f \in Folder : AddAutoPath(f) \/ RemoveAutoPath(f) \/ SetCurrentDirectory(f)
  \/ \E n \in Name : GetPlacedPath(n) \/ CreateStream(n) \/ Forget(n) \/ \E f \in Folder : Others(f, n)

Spec == Init /\ [][Next]_vars
-----------------------------------------------------------------------------
\* The folders of the list from which a name is taken: the last that has it,
\* unless one after it has its properties only.
Shown(i, n) ==
  Has(list[i], n) /\ \A j \in i + 1 .. Len(list) : ~Has(list[j], n) /\ ~Pretends(list[j], n)

\* That there is none is answered too when properties without their file stand
\* after the last folder that has the name.
Hidden(n) ==
  \E i \in DOMAIN list :
    Pretends(list[i], n) /\ \A j \in i + 1 .. Len(list) : ~Has(list[j], n)

PlaceOf(n, a) ==
  \/ a = folder /\ Has(folder, n)
  \/ ~Has(folder, n) /\ \E i \in DOMAIN list : a = list[i] /\ Shown(i, n)
  \/ /\ ~Has(folder, n) /\ a = Nowhere
     /\ Hidden(n) \/ \A i \in DOMAIN list : ~Has(list[i], n)

\* A name is placed where a search of the files finds it, however it was
\* answered before: neither table nor cache outlives what it was made from,
\* unless other programs change the files.  What is searched for is what the
\* code lists, and that is not every file: with x in one folder and x.prop but
\* no x in a folder added later, x is not found (StorageIntf.cpp:1213-1231,
\* 1302), while an archive that holds x.prop hides nothing.
PlacedAsSearched ==
  ~outside => \A n \in Name : cache[n] # Unknown => PlaceOf(n, cache[n])
=============================================================================
