--------------------------- MODULE AutoPathProofs ---------------------------
(***************************************************************************)
(* Proof that AutoPath places a name where a search of what the folders    *)
(* list finds it, for any folders, names and lists.                        *)
(***************************************************************************)
EXTENDS AutoPath, SequenceTheorems, WellFoundedInduction, TLAPS

\* The empty name and the mark of what is not cached are no folders.
Marks == Nowhere \notin Folder /\ Unknown \notin Folder /\ Nowhere # Unknown

Types ==
  /\ list \in Seq(Folder) /\ folder \in Folder /\ empty \subseteq Name
  /\ table \in [Name -> Folder \cup {Nowhere, Unknown}]
  /\ cache \in [Name -> Folder \cup {Nowhere, Unknown}]

\* The table is empty, or what the folders of the list hold.  The cache alone
\* is not enough: answers come into it long after the table was built.
TableCurrent ==
  ~outside => \/ Unlisted
              \/ (\A n \in Name : table[n] = Listed(n)) /\ empty = ListedEmpty

\* The inductive invariant.
Inv == Types /\ TableCurrent /\ PlacedAsSearched

-----------------------------------------------------------------------------
(***************************************************************************)
(* The last folder of the list that lists a name.                          *)
(***************************************************************************)
Earlier == {p \in Nat \X Nat : p[1] < p[2]}

LEMMA EarlierWellFounded == IsWellFoundedOn(Earlier, Nat)
<1>1. Earlier = OpToRel(<, Nat)
  BY Zenon DEF Earlier, OpToRel
<1> QED
  BY <1>1, NatLessThanWellFounded

\* A set of indices has a last one.
LEMMA LastIndex ==
  ASSUME NEW n \in Nat, NEW S, S \subseteq 1 .. n, S # {}
  PROVE  \E i \in S : \A j \in S : i >= j
<1> DEFINE D == {k \in Nat : n - k \in S}
<1>1. D \subseteq Nat /\ D # {}
  <2>1. PICK s \in S : TRUE
    OBVIOUS
  <2>2. n - s \in Nat /\ n - (n - s) = s
    BY <2>1
  <2> QED
    BY <2>1, <2>2
<1>2. PICK k \in D : \A m \in D : <<m, k>> \notin Earlier
  <2> HIDE DEF D
  <2> QED
    BY <1>1, EarlierWellFounded, WFMin
<1>3. n - k \in S /\ k \in Nat
  BY <1>2
<1>4. \A j \in S : n - k >= j
  <2> TAKE j \in S
  <2>1. n - j \in Nat /\ n - (n - j) = j
    OBVIOUS
  <2>2. n - j \in D
    BY <2>1
  <2>3. <<n - j, k>> \notin Earlier
    BY <2>2, <1>2
  <2>4. ~ (n - j < k)
    BY <2>1, <2>3, <1>3 DEF Earlier
  <2> QED
    BY <2>1, <2>4, <1>3
<1> QED
  BY <1>3, <1>4

\* Listed is where the list has the name: in its last folder that lists it.
LEMMA ListedIsLast ==
  ASSUME Types, NEW n \in Name
  PROVE  \/ Listed(n) = Nowhere /\ Lists(n) = {}
         \/ /\ Listed(n) \in Folder
            /\ \E i \in Lists(n) :
                 Listed(n) = list[i] /\ \A j \in i + 1 .. Len(list) : j \notin Lists(n)
<1>1. list \in Seq(Folder) /\ DOMAIN list = 1 .. Len(list) /\ Len(list) \in Nat
  BY DEF Types
<1>2. CASE Lists(n) = {}
  BY <1>2 DEF Listed
<1>3. CASE Lists(n) # {}
  <2> DEFINE last == LastOf(Lists(n))
  <2>1. Lists(n) \subseteq 1 .. Len(list)
    BY <1>1 DEF Lists
  <2>2. last \in Lists(n) /\ \A j \in Lists(n) : last >= j
    BY <1>1, <1>3, <2>1, LastIndex DEF LastOf
  <2>3. Listed(n) = list[last]
    BY <1>3 DEF Listed
  <2> HIDE DEF last
  <2>4. last \in 1 .. Len(list)
    BY <2>1, <2>2
  <2>5. \A j \in last + 1 .. Len(list) : j \notin Lists(n)
    BY <1>1, <2>2, <2>4
  <2>6. list[last] \in Folder
    BY <1>1, <2>4, ElementOfSeq
  <2> QED
    BY <2>2, <2>3, <2>5, <2>6
<1> QED
  BY <1>2, <1>3

\* What a list that is up to date answers is what a search finds.
LEMMA ListedAnswers ==
  ASSUME Types, NEW n \in Name, ~Has(folder, n)
  PROVE  PlaceOf(n, IF n \in ListedEmpty THEN Nowhere ELSE Listed(n))
<1>1. DOMAIN list = 1 .. Len(list) /\ Len(list) \in Nat
  BY DEF Types
<1>2. CASE Lists(n) = {} /\ Listed(n) = Nowhere
  <2>1. n \notin ListedEmpty
    BY <1>2 DEF ListedEmpty
  <2>2. \A i \in DOMAIN list : ~Has(list[i], n)
    BY <1>2 DEF Lists
  <2> QED
    BY <1>2, <2>1, <2>2 DEF PlaceOf
<1>3. ASSUME NEW i \in Lists(n), Listed(n) = list[i],
             \A j \in i + 1 .. Len(list) : j \notin Lists(n)
      PROVE  PlaceOf(n, IF n \in ListedEmpty THEN Nowhere ELSE Listed(n))
  <2>1. i \in DOMAIN list /\ (Has(list[i], n) \/ Pretends(list[i], n))
    BY DEF Lists
  <2>2. \A j \in i + 1 .. Len(list) : ~Has(list[j], n) /\ ~Pretends(list[j], n)
    BY <1>1, <1>3, <2>1 DEF Lists
  <2>3. n \in ListedEmpty <=> Pretends(list[i], n)
    BY <1>3 DEF ListedEmpty
  <2>4. CASE Pretends(list[i], n)
    BY <2>1, <2>2, <2>3, <2>4 DEF PlaceOf, Hidden
  <2>5. CASE ~Pretends(list[i], n)
    BY <1>3, <2>1, <2>2, <2>3, <2>5 DEF PlaceOf, Shown
  <2> QED
    BY <2>4, <2>5
<1> QED
  BY <1>2, <1>3, ListedIsLast

\* What is listed and what is found depends on the files, the folder and the
\* list alone.
LEMMA SameFiles ==
  ASSUME UNCHANGED <<files, folder, list>>
  PROVE  /\ \A m \in Name : Listed(m)' = Listed(m)
         /\ ListedEmpty' = ListedEmpty
         /\ \A m \in Name : \A a : PlaceOf(m, a)' <=> PlaceOf(m, a)
<1>1. ASSUME NEW m \in Name
      PROVE  Listed(m)' = Listed(m) /\ (Pretends(Listed(m), m))' = Pretends(Listed(m), m)
  BY DEF Listed, LastOf, Lists, Pretends, Has
<1>2. ASSUME NEW m \in Name
      PROVE  (Lists(m) = {})' = (Lists(m) = {})
  BY DEF Lists, Pretends, Has
<1>3. ListedEmpty' = ListedEmpty
  BY <1>1, <1>2 DEF ListedEmpty
<1>4. ASSUME NEW m \in Name, NEW a
      PROVE  PlaceOf(m, a)' <=> PlaceOf(m, a)
  BY DEF PlaceOf, Hidden, Shown, Pretends, Has
<1> QED
  BY <1>1, <1>3, <1>4

\* Removing a folder leaves a list of folders.
LEMMA RemovedIsList ==
  ASSUME NEW s \in Seq(Folder), NEW i \in DOMAIN s
  PROVE  RemoveAt(s, i) \in Seq(Folder)
<1>1. i \in 1 .. Len(s) /\ Len(s) \in Nat
  BY LenProperties
<1>2. SubSeq(s, 1, i - 1) \in Seq(Folder)
  BY <1>1, ElementOfSeq, SubSeqProperties
<1>3. SubSeq(s, i + 1, Len(s)) \in Seq(Folder)
  BY <1>1, ElementOfSeq, SubSeqProperties
<1> QED
  BY <1>2, <1>3, ConcatProperties DEF RemoveAt

-----------------------------------------------------------------------------
(***************************************************************************)
(* The steps.                                                              *)
(***************************************************************************)
LEMMA InitInv == Marks /\ Init => Inv
BY DEF Marks, Init, Inv, Types, TableCurrent, Unlisted, PlacedAsSearched, Empty

\* Whatever clears the caches keeps the invariant.
LEMMA ClearedInv ==
  ASSUME Inv, Cleared, list' \in Seq(Folder), folder' \in Folder
  PROVE  Inv'
BY DEF Inv, Types, Cleared, Empty, TableCurrent, Unlisted, PlacedAsSearched

LEMMA AddInv == ASSUME Inv, NEW f \in Folder, AddAutoPath(f) PROVE Inv'
<1>1. list' \in Seq(Folder) /\ folder' \in Folder
  BY DEF Inv, Types, AddAutoPath
<1> QED
  BY <1>1, ClearedInv DEF AddAutoPath

LEMMA RemoveInv == ASSUME Inv, NEW f \in Folder, RemoveAutoPath(f) PROVE Inv'
<1>1. list \in Seq(Folder)
  BY DEF Inv, Types
<1>2. list' \in Seq(Folder) /\ folder' \in Folder
  BY <1>1, RemovedIsList DEF Inv, Types, RemoveAutoPath
<1> QED
  BY <1>2, ClearedInv DEF RemoveAutoPath

\* An answer is what a search would give, from the folder or from the table.
LEMMA PlacedInv ==
  ASSUME Marks, Inv, NEW n \in Name, GetPlacedPath(n)
  PROVE  Inv'
<1>1. Types /\ UNCHANGED <<files, folder, list, outside>>
  BY DEF Inv, GetPlacedPath
<1>2. \A m \in Name : Listed(m) \in Folder \cup {Nowhere}
  BY <1>1, ListedIsLast
<1>3. Built \in [Name -> Folder \cup {Nowhere, Unknown}]
  BY <1>1, <1>2 DEF Built, Types
<1>4. ~outside => (\A m \in Name : Built[m] = Listed(m)) /\ BuiltEmpty = ListedEmpty
  BY DEF Built, BuiltEmpty, Inv, TableCurrent
<1>5. /\ \A m \in Name : \A a : PlaceOf(m, a)' <=> PlaceOf(m, a)
      /\ \A m \in Name : Listed(m)' = Listed(m)
      /\ ListedEmpty' = ListedEmpty
  BY <1>1, SameFiles
<1>6. CASE Has(folder, n)
  <2>1. cache' = [cache EXCEPT ![n] = folder] /\ UNCHANGED <<table, empty>>
    BY <1>6 DEF GetPlacedPath
  <2>2. Types' /\ TableCurrent'
    BY <1>1, <1>5, <2>1 DEF Types, TableCurrent, Unlisted, Inv
  <2>3. PlaceOf(n, folder)
    BY <1>6 DEF PlaceOf
  <2>4. PlacedAsSearched'
    BY <1>1, <1>5, <2>1, <2>3 DEF PlacedAsSearched, Inv, Types
  <2> QED
    BY <2>2, <2>4 DEF Inv
<1>7. CASE ~Has(folder, n)
  <2>1. cache' = [cache EXCEPT ![n] = Answer(n)] /\ table' = Built /\ empty' = BuiltEmpty
    BY <1>7 DEF GetPlacedPath
  <2>2. Answer(n) \in Folder \cup {Nowhere, Unknown}
    BY <1>3 DEF Answer
  <2>3. Types'
    BY <1>1, <1>3, <2>1, <2>2 DEF Types, BuiltEmpty, ListedEmpty
  <2>4. TableCurrent'
    BY <1>1, <1>4, <1>5, <2>1 DEF TableCurrent
  <2>5. ~outside => PlaceOf(n, Answer(n))
    BY <1>1, <1>4, <1>7, ListedAnswers DEF Answer
  <2>6. PlacedAsSearched'
    BY <1>1, <1>5, <2>1, <2>5 DEF PlacedAsSearched, Inv, Types
  <2> QED
    BY <2>3, <2>4, <2>6 DEF Inv
<1> QED
  BY <1>6, <1>7

LEMMA ForgetInv == ASSUME Inv, NEW n \in Name, Forget(n) PROVE Inv'
<1>1. Types /\ UNCHANGED <<files, folder, list, outside, table, empty>>
  BY DEF Inv, Forget
<1>2. Types'
  BY <1>1 DEF Types, Forget
<1>3. /\ \A m \in Name : \A a : PlaceOf(m, a)' <=> PlaceOf(m, a)
      /\ \A m \in Name : Listed(m)' = Listed(m)
      /\ ListedEmpty' = ListedEmpty
  BY <1>1, SameFiles
<1>4. TableCurrent'
  BY <1>1, <1>3 DEF Inv, TableCurrent, Unlisted
<1>5. PlacedAsSearched'
  BY <1>1, <1>3 DEF PlacedAsSearched, Inv, Types, Forget
<1> QED
  BY <1>2, <1>4, <1>5 DEF Inv

LEMMA NextInv == ASSUME Marks, Inv, [Next]_vars PROVE Inv'
<1>1. CASE Compact
  BY <1>1, ClearedInv DEF Compact, Inv, Types
<1>2. ASSUME NEW f \in Folder, AddAutoPath(f) \/ RemoveAutoPath(f) PROVE Inv'
  BY <1>2, AddInv, RemoveInv
<1>3. ASSUME NEW f \in Folder, SetCurrentDirectory(f) PROVE Inv'
  BY <1>3, ClearedInv DEF SetCurrentDirectory, Inv, Types
<1>4. ASSUME NEW n \in Name, GetPlacedPath(n) PROVE Inv'
  BY <1>4, PlacedInv
<1>5. ASSUME NEW n \in Name, CreateStream(n) PROVE Inv'
  BY <1>5, ClearedInv DEF CreateStream, Inv, Types
<1>6. ASSUME NEW n \in Name, Forget(n) PROVE Inv'
  BY <1>6, ForgetInv
<1>7. ASSUME NEW n \in Name, NEW f \in Folder, Others(f, n) PROVE Inv'
  BY <1>7 DEF Others, Inv, Types, TableCurrent, PlacedAsSearched
<1>8. CASE UNCHANGED vars
  <2>1. UNCHANGED <<files, folder, list, table, empty, cache, outside>>
    BY <1>8 DEF vars
  <2>2. /\ \A m \in Name : \A a : PlaceOf(m, a)' <=> PlaceOf(m, a)
        /\ \A m \in Name : Listed(m)' = Listed(m)
        /\ ListedEmpty' = ListedEmpty
    BY <2>1, SameFiles
  <2>3. TableCurrent'
    BY <2>1, <2>2 DEF Inv, TableCurrent, Unlisted
  <2>4. PlacedAsSearched'
    BY <2>1, <2>2 DEF Inv, PlacedAsSearched
  <2> QED
    BY <2>1, <2>3, <2>4 DEF Inv, Types
<1> QED
  BY <1>1, <1>2, <1>3, <1>4, <1>5, <1>6, <1>7, <1>8 DEF Next

\* TVPGetPlacedPath answers as a search of what the folders list would, files
\* and properties without their file (StorageIntf.cpp:1213-1231, 1302), whatever
\* was cached before, for any number of folders, archives and names and however
\* the list and the files change through the program.
THEOREM PlacedCorrectly == ASSUME Marks PROVE Spec => []PlacedAsSearched
<1>1. Init => Inv
  BY InitInv
<1>2. Inv /\ [Next]_vars => Inv'
  BY NextInv
<1>3. Inv => PlacedAsSearched
  BY DEF Inv
<1> QED
  BY <1>1, <1>2, <1>3, PTL DEF Spec
=============================================================================
