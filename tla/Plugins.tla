------------------------------ MODULE Plugins -------------------------------
(***************************************************************************)
(* Plugins that scripts link and unlink.  V2Link and V2Unlink of a plugin  *)
(* may run scripts, and those link and unlink other plugins before they    *)
(* return or throw; V2Unlink may refuse.  TVPUnloadPlugin holds an         *)
(* iterator while V2Unlink runs: a script that links or unlinks then       *)
(* leaves it dangling, so the model lets nothing happen in V2Unlink.       *)
(***************************************************************************)
EXTENDS Naturals, Sequences, SequencesExt

CONSTANTS Plugin

VARIABLES
  vector,       \* TVPPluginVector
  loading,      \* TVPPluginLoading
  linking,      \* plugins whose V2Link runs
  objects,      \* handles of SDL_LoadObject that are not unloaded, by plugin
  told,         \* history: V2Link calls that returned, less V2Unlink calls
  ended         \* TVPPluginUnloadedAtSystemExit

vars == <<vector, loading, linking, objects, told, ended>>

TypeOK ==
  /\ vector \in Seq(Plugin) /\ loading \in BOOLEAN
  /\ linking \subseteq Plugin
  /\ objects \in [Plugin -> Nat] /\ told \in [Plugin -> Nat] /\ ended \in BOOLEAN

Init ==
  /\ vector = <<>> /\ loading = FALSE /\ linking = {}
  /\ objects = [p \in Plugin |-> 0] /\ told = [p \in Plugin |-> 0] /\ ended = FALSE

-----------------------------------------------------------------------------
\* TVPLoadPlugin up to V2Link: throws while another plugin is linked, and
\* does nothing for one that is in the vector.
Load(p) ==
  /\ ~ended /\ ~loading /\ ~Contains(vector, p)
  /\ loading' = TRUE /\ linking' = linking \cup {p}
  /\ objects' = [objects EXCEPT ![p] = @ + 1]
  /\ UNCHANGED <<vector, told, ended>>

Linked(p) ==
  /\ p \in linking /\ linking' = linking \ {p} /\ loading' = FALSE
  /\ vector' = Append(vector, p) /\ told' = [told EXCEPT ![p] = @ + 1]
  /\ UNCHANGED <<objects, ended>>

\* Fault: a V2Link that throws leaves the flag set.
StaysLoading == loading
LoadingOver == FALSE

LinkThrows(p) ==
  /\ p \in linking /\ linking' = linking \ {p} /\ loading' = LoadingOver
  /\ objects' = [objects EXCEPT ![p] = @ - 1]
  /\ UNCHANGED <<vector, told, ended>>

\* The vector without a plugin, which is in it.
Without(p) == RemoveAt(vector, CHOOSE i \in DOMAIN vector : vector[i] = p)

\* Fault: a plugin that refuses is forgotten.
Forgotten(p) == vector' = Without(p)
Kept(p) == UNCHANGED vector

Unload(p) ==
  /\ ~ended /\ Contains(vector, p)
  /\ \/ /\ vector' = Without(p)
        /\ objects' = [objects EXCEPT ![p] = @ - 1] /\ told' = [told EXCEPT ![p] = @ - 1]
     \/ Kept(p) /\ UNCHANGED <<objects, told>>
  /\ UNCHANGED <<loading, linking, ended>>

\* TVPDestroyPluginVector, from the last to the first; one that refuses or
\* throws goes without being unloaded.
DestroyPluginVector ==
  /\ linking = {} /\ ended' = TRUE /\ vector # <<>>
  /\ vector' = Front(vector)
  /\ \/ LET p == Last(vector)
        IN objects' = [objects EXCEPT ![p] = @ - 1] /\ told' = [told EXCEPT ![p] = @ - 1]
     \/ UNCHANGED <<objects, told>>
  /\ UNCHANGED <<loading, linking>>

Next ==
  \/ DestroyPluginVector
  \/ \E p \in Plugin : Load(p) \/ Linked(p) \/ LinkThrows(p) \/ Unload(p)

Spec == Init /\ [][Next]_vars
-----------------------------------------------------------------------------
\* Linking is refused exactly while a V2Link runs: one that throws, or
\* unlinks others meanwhile, does not keep the script from linking for ever.
RefusedWhileLinking == loading <=> linking # {}

\* While the program runs, the object of a plugin is loaded once, if it is
\* listed or being linked, else not at all, and as often linked as unlinked.
LoadedAsListed ==
  ~ended => \A p \in Plugin :
    /\ objects[p] = IF Contains(vector, p) \/ p \in linking THEN 1 ELSE 0
    /\ told[p] = IF Contains(vector, p) THEN 1 ELSE 0
=============================================================================
