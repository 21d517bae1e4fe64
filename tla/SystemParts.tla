----------------------------- MODULE SystemParts -----------------------------
(***************************************************************************)
(* The parts of the program that sound, timers and windows stand on, with  *)
(* the threads that draw and that load images, side by side as in          *)
(* SoundParts: each behaviour is one of the part that the variable part    *)
(* names, and the others stay as they began.  The main loop comes twice,   *)
(* with the limit of continuous events and without.  The auto path is not  *)
(* an instance but this module's own.                                      *)
(***************************************************************************)
EXTENDS Integers, AutoPath

CONSTANTS
  MaxQueue, MaxBurst, MaxPosted,                       \* of MainLoop
  Upper, Trees, Paths,                                 \* of LocalFiles
  ArgumentLines, Options, Values, None, Width, MaxSets,  \* of CommandLine
  Beside, Given, Relative, Ended, ProjectLines,         \* of ProjectDirectory
  Ram, CacheOptions, Huge,                             \* of MemoryLimits
  Plugin,                                              \* of Plugins
  MaxThreads,                                          \* of DrawThreadPool
  Bitmap, MaxDepth, MaxNative                          \* of ImageLoader

VARIABLES part

VARIABLES pc, sdl, waiting, holding, hooks, calling, limiting, posting, flag, told, burst,
  terminated, turn
LimitedLoop == INSTANCE MainLoop WITH Limited <- TRUE, posted <- waiting, held <- holding,
  available <- told
FreeLoop == INSTANCE MainLoop WITH Limited <- FALSE, posted <- waiting, held <- holding,
  available <- told

VARIABLES folders, entries, order, written, refused
Disk == INSTANCE LocalFiles WITH files <- entries

VARIABLES options, generation, seen, kept, sets
Arguments == INSTANCE CommandLine WITH Lines <- ArgumentLines, Names <- Options

VARIABLES there, known, line, place, directory, selected, failed
Project == INSTANCE ProjectDirectory WITH Lines <- ProjectLines, next <- place

VARIABLES ram, low, asked, stage, total, hashBits, segments, cacheLimit, smallFonts
Memory == INSTANCE MemoryLimits WITH pc <- stage

VARIABLES vector, loading, linking, objects, linked, ended
Libraries == INSTANCE Plugins WITH told <- linked

VARIABLES number, main, ending, size, workerAt, task, retired, running, taskNum, taskCount,
  given, runs, forgotten
Drawing == INSTANCE DrawThreadPool WITH at <- workerAt, terminated <- retired, count <- running

VARIABLES alive, asking, stuck, commands, held, loaded, ready, setting, finished, loaderAt,
  depth, draining, exiting
Images == INSTANCE ImageLoader WITH loading <- asking, native <- finished, at <- loaderAt,
  terminated <- exiting

-----------------------------------------------------------------------------
ASSUME LoopAssumption == MaxQueue \in Nat /\ MaxBurst \in Nat /\ MaxPosted \in Nat

\* The empty name and the mark of what is not cached are no folders.
ASSUME SearchAssumption ==
  /\ Nowhere \notin Folder /\ Unknown \notin Folder /\ Nowhere # Unknown
  /\ Archive \subseteq Folder /\ DOMAIN Chopped \subseteq Name

\* The names of the options that readers ask for and of those on the lines.
OptionNames == Options \cup UNION {{Arguments!Pushed(l)[i].name : i \in DOMAIN Arguments!Pushed(l)} :
                                    l \in ArgumentLines}

ASSUME ArgumentsAssumption ==
  /\ 2 ^ Width \in Nat /\ MaxSets \in Nat /\ MaxSets + 1 < 2 ^ Width /\ None \notin Values
  /\ \A l \in ArgumentLines : Arguments!Pushed(l) \in Seq([name : OptionNames, value : Values])
  /\ \A n \in OptionNames : n \in Seq(Arguments!Range(n))

\* Names in lower case and in the other, and the paths of them.
Lower == DOMAIN Upper
Either == Lower \cup {Upper[n] : n \in Lower}

\* What is there at first is a tree.
ASSUME FilesAssumption ==
  /\ \A n \in Lower : Upper[n] \notin Lower
  /\ \A m, n \in Lower : Upper[m] = Upper[n] => m = n
  /\ Paths \subseteq Seq(Lower) \ {<<>>}
  /\ \A t \in Trees :
       /\ t.folders \cup t.files \subseteq Seq(Either) \ {<<>>} /\ t.folders \cap t.files = {}
       /\ \A p \in t.folders \cup t.files : Len(p) > 1 => SubSeq(p, 1, Len(p) - 1) \in t.folders

ASSUME ProjectAssumption ==
  /\ Beside \in Seq(Project!Range(Beside))
  /\ ProjectLines \subseteq Seq(Given \cup {"-nosel", "--"})

ASSUME MemoryAssumption ==
  Huge \in Nat /\ Huge >= 4096 /\ Ram \subseteq 0 .. Huge /\ CacheOptions \subseteq -1 .. Huge

ASSUME ThreadsAssumption ==
  MaxThreads \in Nat \ {0} /\ MaxNative \in Nat /\ MaxDepth \in Nat

loopVars == <<pc, sdl, waiting, holding, hooks, calling, limiting, posting, flag, told, burst,
  terminated, turn>>
diskVars == <<folders, entries, order, written, refused>>
argumentVars == <<options, generation, seen, kept, sets>>
projectVars == <<there, known, line, place, directory, selected, failed>>
memoryVars == <<ram, low, asked, stage, total, hashBits, segments, cacheLimit, smallFonts>>
pluginVars == <<vector, loading, linking, objects, linked, ended>>
drawVars == <<number, main, ending, size, workerAt, task, retired, running, taskNum, taskCount,
  given, runs, forgotten>>
imageVars == <<alive, asking, stuck, commands, held, loaded, ready, setting, finished, loaderAt,
  depth, draining, exiting>>

\* What a part that the behaviour is not about begins with.
OneOf(S) == CHOOSE x \in S : TRUE

PartsInit ==
  /\ part \in {"limited", "unlimited", "disk", "search", "arguments", "project",
               "memory", "plugins", "drawing", "images"}
  /\ Drawing!Init /\ Images!Init
  /\ LimitedLoop!Init /\ Libraries!Init
  /\ Disk!Init /\ (part # "disk" => order /\ folders = OneOf(Trees).folders /\ entries = OneOf(Trees).files)
  /\ Init /\ (part # "search" => files = {} /\ folder = OneOf(Folder))
  /\ Arguments!Init /\ (part # "arguments" => options = Arguments!Pushed(OneOf(ArgumentLines)))
  /\ Project!Init /\ (part # "project" => line = OneOf(ProjectLines) /\ there = {} /\ known)
  /\ Memory!Init /\ (part # "memory" => ram = OneOf(Ram) /\ ~low /\ asked = OneOf(CacheOptions))

Threads == <<drawVars, imageVars>>
Below == <<Threads, diskVars, vars, argumentVars, projectVars, memoryVars, pluginVars>>
LoopStays == UNCHANGED <<part, Below>>
LimitedStep == part = "limited" /\ LimitedLoop!Next /\ LoopStays
UnlimitedStep == part = "unlimited" /\ FreeLoop!Next /\ LoopStays
DiskStep ==
  /\ part = "disk" /\ Disk!Next
  /\ UNCHANGED <<part, loopVars, Threads, vars, argumentVars, projectVars, memoryVars, pluginVars>>
SearchStep ==
  /\ part = "search" /\ Next
  /\ UNCHANGED <<part, loopVars, Threads, diskVars, argumentVars, projectVars, memoryVars, pluginVars>>
ArgumentStep ==
  /\ part = "arguments" /\ Arguments!Next
  /\ UNCHANGED <<part, loopVars, Threads, diskVars, vars, projectVars, memoryVars, pluginVars>>
ProjectStep ==
  /\ part = "project" /\ Project!Next
  /\ UNCHANGED <<part, loopVars, Threads, diskVars, vars, argumentVars, memoryVars, pluginVars>>
MemoryStep ==
  /\ part = "memory" /\ Memory!Next
  /\ UNCHANGED <<part, loopVars, Threads, diskVars, vars, argumentVars, projectVars, pluginVars>>
PluginStep ==
  /\ part = "plugins" /\ Libraries!Next
  /\ UNCHANGED <<part, loopVars, Threads, diskVars, vars, argumentVars, projectVars, memoryVars>>
Above == <<part, loopVars, diskVars, vars, argumentVars, projectVars, memoryVars,
  pluginVars>>
DrawStep == part = "drawing" /\ Drawing!Next /\ UNCHANGED <<Above, imageVars>>
ImageStep == part = "images" /\ Images!Next /\ UNCHANGED <<Above, drawVars>>

partsVars == <<part, loopVars, Below>>
PartsNext ==
  \/ LimitedStep \/ UnlimitedStep \/ DiskStep \/ SearchStep \/ ArgumentStep
  \/ ProjectStep \/ MemoryStep \/ PluginStep \/ DrawStep \/ ImageStep

\* The fairness is that of MainLoop, DrawThreadPool and ImageLoader.
Main ==
  \/ part = "limited" /\ LimitedLoop!Main /\ LoopStays
  \/ part = "unlimited" /\ FreeLoop!Main /\ LoopStays
  \/ part = "drawing" /\ Drawing!Pool /\ UNCHANGED <<Above, imageVars>>
  \/ part = "images" /\ Images!Main /\ UNCHANGED <<Above, drawVars>>
WatchTimer == part \in {"limited", "unlimited"} /\ LimitedLoop!WatchTimer /\ LoopStays
LimitThread == part = "limited" /\ LimitedLoop!LimitThread /\ LoopStays
Worker(w) == part = "drawing" /\ Drawing!Execute(w) /\ UNCHANGED <<Above, imageVars>>
Loader == part = "images" /\ Images!Thread /\ UNCHANGED <<Above, drawVars>>

PartsSpec ==
  /\ PartsInit /\ [][PartsNext]_partsVars
  /\ WF_partsVars(Main) /\ SF_partsVars(WatchTimer) /\ SF_partsVars(LimitThread)
  /\ \A w \in Drawing!Workers : WF_partsVars(Worker(w))
  /\ WF_partsVars(Loader)
-----------------------------------------------------------------------------
\* The variables of every part keep their types.
PartsTypeOK ==
  /\ LimitedLoop!TypeOK /\ Disk!TypeOK /\ TypeOK /\ Arguments!TypeOK
  /\ Project!TypeOK /\ Memory!TypeOK /\ Libraries!TypeOK /\ Drawing!TypeOK /\ Images!TypeOK

\* The main loop calls continuous handlers again and again unless exclusive
\* events hold back every pass, delivers what is posted, and ends a terminated
\* program (MainLoop); a batch of drawing tasks
\* comes to its end (DrawThreadPool); every image that is asked for comes,
\* and the thread that loads them ends (ImageLoader).
GoesOn ==
  /\ LimitedLoop!LoopGoesOn
  /\ Drawing!BatchEnds
  /\ Images!RequestsAnswered /\ Images!ThreadEnds

\* The tasks of a batch are all done when it ends (DrawThreadPool), and a
\* bitmap has one request and none is forgotten (ImageLoader).
WorkersAgree ==
  /\ Drawing!BatchWhole /\ Drawing!WorkerExists /\ Drawing!CountExact
  /\ Images!OneRequestEach /\ Images!NothingStalls

\* A step changes what it is meant to: no file is made beside one whose name
\* differs in case only (LocalFiles), setting one argument changes no other
\* (CommandLine), and images are answered in the order of the requests
\* (ImageLoader).
OthersUntouched == Disk!NoTwinMade /\ Arguments!OthersUntouched /\ Images!InOrder

\* What the program takes from its surroundings agrees with them: files are
\* found again under their names and missing folders made (LocalFiles),
\* readers of arguments keep what holds (CommandLine), the scripts are looked
\* for beside the program first and then where the names on the line lead,
\* missing names among them (ProjectDirectory), caches fit the memory
\* (MemoryLimits), and plugins are loaded as they are listed (Plugins).
SurroundingsAgree ==
  /\ Disk!FilesFound
  /\ Arguments!KeptIsCurrent
  /\ Project!ProjectFound
  /\ Memory!CacheFits
  /\ Libraries!RefusedWhileLinking /\ Libraries!LoadedAsListed
=============================================================================
