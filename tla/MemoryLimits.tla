---------------------------- MODULE MemoryLimits ----------------------------
(***************************************************************************)
(* What the program makes of the memory of the machine at its start.       *)
(* TVPBeforeSystemInit computes the memory in bytes from SDL_GetSystemRAM, *)
(* in megabytes, as an int, and sets limits for machines with little;      *)
(* TVPAfterSystemInit sets that of the graphic cache.  Sizes are in        *)
(* megabytes here, so an int counts modulo 4096.                           *)
(***************************************************************************)
EXTENDS Integers

CONSTANTS
  Ram,          \* SDL_GetSystemRAM
  CacheOptions, \* "-gclim", in megabytes; Auto, Huge for a negative number
  Huge          \* the 64 bit size of a negative int, more than any other

VARIABLES
  ram, low, asked,  \* the machine, "-memusage=low", "-gclim"
  pc,
  total,        \* TVPTotalPhysMemory
  hashBits,     \* TJSObjectHashBitsLimit: bound on the size of hash tables
  segments,     \* whether segments of archives are cached
  cacheLimit,   \* TVPGraphicCacheSystemLimit
  smallFonts    \* TVPSetFontCacheForLowMem

vars == <<ram, low, asked, pc, total, hashBits, segments, cacheLimit, smallFonts>>

\* No option "-gclim", or "auto".
Auto == -1

TypeOK ==
  /\ ram \in Ram /\ asked \in CacheOptions /\ pc \in {"before", "after", "run"}
  /\ total \in 0 .. Huge /\ hashBits \in {0, 4, 32} /\ cacheLimit \in 0 .. 512
  /\ {low, segments, smallFonts} \subseteq BOOLEAN

Init ==
  /\ ram \in Ram /\ low \in BOOLEAN /\ asked \in CacheOptions /\ pc = "before"
  /\ total = 0 /\ hashBits = 32 /\ segments = TRUE /\ cacheLimit = 0 /\ smallFonts = FALSE

-----------------------------------------------------------------------------
\* The product of two ints and its conversion to 64 bits: where it overflows,
\* it is undefined, and builds wrap it around or compute it in 64 bits.
Wrapped(mb) == LET w == mb % 4096 IN IF w >= 2048 THEN Huge ELSE w
Products(mb) == IF mb < 2048 THEN {mb} ELSE {Wrapped(mb), mb}

BeforeSystemInit ==
  /\ pc = "before" /\ pc' = "after"
  /\ \E t \in Products(ram) : total' = IF low \/ t <= 36 THEN 0 ELSE t
  /\ hashBits' = IF total' < 48 THEN 0 ELSE IF total' < 64 THEN 4 ELSE hashBits
  /\ segments' = (total' >= 48)
  /\ UNCHANGED <<ram, low, asked, cacheLimit, smallFonts>>

\* Fault: the last step without a cache is missing.
StepMissing(t) ==
  CASE t <= 48 -> 0 [] t \in 49 .. 96 -> 4 [] t \in 97 .. 128 -> 8 [] t \in 129 .. 192 -> 12
    [] t \in 193 .. 256 -> 20 [] t \in 257 .. 512 -> 40 [] t > 512 -> t \div 10
CacheFor(t) ==
  CASE t <= 64 -> 0 [] t \in 65 .. 96 -> 4 [] t \in 97 .. 128 -> 8 [] t \in 129 .. 192 -> 12
    [] t \in 193 .. 256 -> 20 [] t \in 257 .. 512 -> 40 [] t > 512 -> t \div 10

AfterSystemInit ==
  /\ pc = "after" /\ pc' = "run"
  /\ LET limit == IF asked = Auto THEN CacheFor(total) ELSE asked
     IN cacheLimit' = IF limit >= 512 THEN 512 ELSE limit
  /\ smallFonts' = (total <= 64)
  /\ UNCHANGED <<ram, low, asked, total, hashBits, segments>>

Next == BeforeSystemInit \/ AfterSystemInit
Spec == Init /\ [][Next]_vars
-----------------------------------------------------------------------------
\* A graphic cache of the program's own choice leaves most of the memory to
\* the rest, and a machine that has little of it for one limit has little of
\* it for all: no cache of graphics where hash tables or fonts are kept small.
\* The memory is one an int can tell in bytes.
CacheFits ==
  pc = "run" /\ asked = Auto /\ ram < 2048 =>
    /\ 6 * cacheLimit <= ram
    /\ hashBits < 32 \/ ~segments => cacheLimit = 0 /\ smallFonts
=============================================================================
