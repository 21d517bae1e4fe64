----------------------------- MODULE LocalFiles -----------------------------
(***************************************************************************)
(* Files of the media "file" on a file system that tells upper from lower  *)
(* case, under names that do not: a name of the script is normalised to    *)
(* lower case, and GetLocallyAccessibleName looks for each of its parts    *)
(* among the entries of the folder reached so far.  A path is a sequence   *)
(* of names; what the program did not make may be there in any case, and   *)
(* even twice.                                                             *)
(***************************************************************************)
EXTENDS Naturals, Sequences, SequencesExt

CONSTANTS
  Upper,        \* of a name in lower case, the same in another
  Trees,        \* what may be there at first: records of folders and files
  Paths         \* normalised, as scripts give them

VARIABLES
  folders, files,   \* of the file system
  order,            \* whether readdir tells lower case first
  written,          \* history: where the files are that were opened for writing
  refused           \* history: the path whose opening failed last; <<>>

vars == <<folders, files, order, written, refused>>

TypeOK ==
  /\ folders \cap files = {}
  /\ \A p \in folders \cup files : Len(p) > 1 => SubSeq(p, 1, Len(p) - 1) \in folders
  /\ DOMAIN written \subseteq Paths /\ refused \in Paths \cup {<<>>}

Init ==
  /\ \E t \in Trees : folders = t.folders /\ files = t.files
  /\ order \in BOOLEAN
  /\ written = <<>> /\ refused = <<>>

-----------------------------------------------------------------------------
Entries == folders \cup files
Root == <<>>
IsFolder(p) == p = Root \/ p \in folders

\* Fault: names are compared as they are.
ExactMatches(p, n) == {m \in {n} : IsFolder(p) /\ Append(p, m) \in Entries}
Matches(p, n) == {m \in {n, Upper[n]} : IsFolder(p) /\ Append(p, m) \in Entries}

\* The first entry that fits, or the name as it is.
Found(p, n) ==
  IF Upper[n] \in Matches(p, n) /\ (order => n \notin Matches(p, n)) THEN Upper[n] ELSE n

\* GetLocallyAccessibleName.
LocalName(path) ==
  LET walk[i \in 0 .. Len(path)] ==
        IF i = 0 THEN Root
        ELSE Append(walk[i - 1], Found(walk[i - 1], path[i]))
  IN walk[Len(path)]

Parents(p) == {SubSeq(p, 1, i) : i \in 1 .. Len(p) - 1}

\* TVPCreateFolders: from the outside in, and no further than the first that
\* cannot be made.  Fault: only the folder of the file is made.
InnerOnly(p) == {Front(p)} \cap {q \in Paths : q \notin Entries /\ IsFolder(Front(q))}
Made(p) ==
  {q \in Parents(p) : q \notin Entries /\ \A r \in Parents(q) : r \notin files}

\* Fault: a file that is not there is made where the script named it.
AsNamed(path) == IF LocalName(path) \in files THEN LocalName(path) ELSE path
OpenName(path) == LocalName(path)

-----------------------------------------------------------------------------
\* tTVPLocalFileStream of a stream for writing: fopen, and once more after
\* the folders are made.
OpenForWrite(path) ==
  LET p == OpenName(path)
      there == \A q \in Parents(p) : q \in folders
      all == IF there THEN folders ELSE folders \cup Made(p)
      opens == p \notin all /\ \A q \in Parents(p) : q \in all
  IN /\ folders' = all
     /\ IF opens
        THEN /\ files' = files \cup {p} /\ refused' = <<>>
             /\ written' = [q \in DOMAIN written \cup {path} |-> IF q = path THEN p ELSE written[q]]
        ELSE UNCHANGED <<files, written>> /\ refused' = path
     /\ UNCHANGED order

\* TVPRemoveFile and TVPRemoveFolder, of a local name.
RemoveFile(path) ==
  /\ LocalName(path) \in files
  /\ files' = files \ {LocalName(path)}
  /\ written' = [q \in {r \in DOMAIN written : written[r] # LocalName(path)} |-> written[q]]
  /\ refused' = <<>> /\ UNCHANGED <<folders, order>>

RemoveFolder(path) ==
  LET p == LocalName(path)
  IN /\ p \in folders /\ \A q \in Entries : p \notin Parents(q)
     /\ folders' = folders \ {p}
     /\ refused' = <<>> /\ UNCHANGED <<files, order, written>>

Next ==
  \E path \in Paths : OpenForWrite(path) \/ RemoveFile(path) \/ RemoveFolder(path)

Spec == Init /\ [][Next]_vars
-----------------------------------------------------------------------------
\* The program makes no file or folder beside one whose name differs in case
\* only: the other would be hidden, from the program as from its user.
NoTwinMade ==
  [][\A p \in (folders' \cup files') \ Entries, q \in Entries :
       Front(p) = Front(q) => Last(q) # Upper[Last(p)]]_vars

\* A file that was written is found again under its name, at the same place,
\* whatever was written and removed meanwhile.
FoundAgain ==
  \A path \in DOMAIN written : written[path] \in files /\ LocalName(path) = written[path]

\* Writing fails only where a file is in the way of a folder, or a folder in
\* the way of the file: what is missing is made.
RefusedForCause ==
  refused # <<>> =>
    LET p == LocalName(refused)
    IN p \in folders \/ \E q \in Parents(p) : q \in files

\* A file can be made, and found again.
FilesFound == FoundAgain /\ RefusedForCause
=============================================================================
