# A TLA+ model of the Kirikiri SDL2 engine

This directory is a verification project for krkrsdl2, the SDL2 port of the
Kirikiri Z visual novel engine. The engine's own code is `src/core` (the SDL2
platform layer) and `external/krkrz` (base, utils, visual, sound, tjs2). The
libraries beside them (SDL, zlib, simde, FreeType, the codecs) are third-party
and outside this project.

The engine is an event system around a script language, on one main thread.
Its first difficulty is re-entrance: a script handler may run a nested event
loop, post and cancel events, invalidate the objects whose events are being
delivered, or throw. Its second are the threads around it: the timer thread,
the drawing workers, the image loader, the limiter of continuous events, the
decoder and the player of each sound, and the audio callback. Its third is what
SDL tells late or differently from what the engine was written for: sizes, keys,
input methods, names of files. The core has no tests. The models are translated
from the code, and the words of its headers and comments are what the violation
runs compare it with.

Paths below are relative to the repository root. `EventIntf.cpp` is
`external/krkrz/base/EventIntf.cpp`, `WaveImpl.cpp` is
`src/core/sound/sdl2/WaveImpl.cpp`, `SDLApplication.cpp` is
`src/core/sdl2/SDLApplication.cpp`.

## Inventory

| Part | State | Operations | Hard because |
|---|---|---|---|
| Event queues (`EventIntf.cpp`) | script events, input events, sequence numbers, flags for exclusive events and interruption | post, replace, cancel, deliver a pass; AsyncTrigger's trigger, cancel, cached, mode | handlers change what is walked; passes nest; exceptions; a number that is reset |
| Continuous events (same file) | vectors of hooks and closures with empty cells, guard flag | add, remove, deliver | changed while walked by index; a call may fail or throw |
| Window updates (same file) | vector of windows with empty cells, guard flag | request, remove, deliver | redraws request redraws; invalidation during the walk |
| Main loop (`Application.cpp`, `SystemControl.cpp`, `base/sdl2/EventImpl.cpp`) | SDL queue, `ContinuousEventCalling`, limiter's flag, termination | process events, idle, wait, end | posting wakes nobody; a flag set by another thread |
| Windows (`SDLApplication.cpp`, `WindowImpl.cpp`) | list, current window, `Closing`, `CanCloseWork`, `modal_result_` | show modal, close, query, invalidate | nested loops inside a query; `delete this` |
| Picture (`SDLApplication.cpp`, `SDLBitmapCompletion.cpp`) | inner and outer size, destination, rectangle to present | resize, full screen, draw, present | SDL tells of a size later |
| Input (`SDLApplication.cpp`) | held keys, pads, composition of an input method | key, button, pad, editing and text events | keys that replace a composition; what is held when a device goes |
| Timer thread (`utils/TimerThread.cpp`, `TimerIntf.cpp`) | timers, pending, next ticks | pass, fire, add, remove, change | two threads, one lock, one message for all |
| Draw thread pool (`utils/ThreadIntf.cpp`) | workers, each with a task, count | begin, hand out, wait, grow, shrink | counting against termination |
| Image loader (`visual/GraphicsLoadThread.cpp`) | two queues, an event | request, load, hand over | signals and queues; handlers inside each other |
| Sound (`WaveImpl.cpp`, `WaveMixer.cpp`) | level 1 and 2 rings, status, labels, stream | play, stop, seek, pause, fill, decode, mix | three threads and a callback, six locks |
| Files (`StorageImpl.cpp`, `StorageIntf.cpp`) | the disk, auto path, its table and cache | find, write, add, remove | names without case; stale caches |
| Start (`SysInitImpl.cpp`, `PluginImpl.cpp`) | options, project directory, limits, plugins | read, set, search, link, unlink | who keeps an old answer; integers; scripts inside |
| Layers, regions, transitions, bitmaps, script engine, KAG parser, video | | | not modelled, see below |

How they interact. Threads and SDL give the main thread *native events*. Their
handlers, and scripts, post *script events*. `tTVPSystemControl::DeliverEvents`
runs `TVPDeliverAllEvents`, a *pass*: exclusive events, input events, normal
events, idle events, continuous events, window updates. Each delivery calls
scripts, which come back to every part through its functions. A modal window
(`SDLApplication.cpp` 1002-1017) or a closing query (1488-1530) runs another
pass inside. Sounds talk back through label events and their end, timers and
images through native events.

What makes each part correct, in short: the event system keeps its order and
never delivers to what is gone, and its loops end and stay re-enterable; the
main loop comes back to what is posted; closing a window ends it once, and
whoever waits for it goes on; input ends where the user sees it; the timer
thread never loses the message that fires timers; a batch of drawing is whole
when it returns; each image is answered once, in order; no unit of a sound is
lost, heard twice or heard after a stop, and no threads wait in a circle; a name
means the file a search would find now.

`PROJECT.json` lists the hazards with their lines and the property for each.

## Modules

| Module | Models | Properties and runs |
|---|---|---|
| `EventTypes`, `EventQueue`, `WindowUpdate`, `ContinuousEvents` | events, triggers, the queues, the vectors with empty cells | |
| `EventDelivery` | composes them: passes, handlers, scripts, exceptions; `Spec`, `FairSpec`, `LoopingSpec` | `EventProperties`, `MCEvents` |
| `Mailbox` | abstract: events that wait, and the handlers that are called for them | refined by `EventDelivery` |
| `WaveSound` | one sound: level 2 ring, decode thread, playing thread, mixer queue, methods | `WaveProperties` |
| `SoundStream` | abstract: two queues in a row | refined by `WaveSound` |
| `WaveLabels` | label events against the clock | `LabelProperties` |
| `SoundDevice` | the stream a sound plays through: format, volume, pan | in the module |
| `SoundMixer` | the audio callback, buffer by buffer, and the streams | in the module |
| `SoundLocks` | programs of four threads over six locks and two joins | in the module |
| `TimerThread` | the thread and `Proc`, timers of the script | in the module |
| `WindowLayers` | windows, modal loops, queries, invalidation | `WindowProperties` |
| `WindowSize`, `WindowPicture` | where the picture is; how it reaches the texture | in the modules |
| `TextInput`, `TextField` | keys made of a composition; abstract: a text field with a composition | `TextInput` refines `TextField` |
| `KeyInput` | keys, buttons, pads: events and asked states | in the module |
| `MainLoop` | `Application::Run`, watch timer, limiter | in the module |
| `DrawThreadPool`, `ImageLoader` | batches and workers; requests and their thread | in the modules |
| `LocalFiles`, `AutoPath` | names without case; where a name is | in the modules |
| `CommandLine`, `ProjectDirectory`, `MemoryLimits`, `Plugins` | start-up and its caches; linking | in the modules |
| `SoundParts`, `WindowParts`, `SystemParts` | several parts side by side, for any values of the constants, with the assumptions on these | the same, `MCWindows`, `MCSystem` |
| `EventProofs`, `EventLoops`, `WaveProofs`, `AutoPathProofs`, `DrawPoolProofs` | proofs about one part | |
| `SoundProofs`, `WindowProofs`, `SystemProofs` | proofs about `SoundParts`, `WindowParts`, `SystemParts` | |

`map` in `PROJECT.json` names the lines each definition stands for. A mutant of
a definition is an operator marked `Fault:` before the definition it replaces.

### The event system

The C++ call stack is the variable `stack`. A frame is one call of
`TVPDeliverAllEvents`, of `TVPDeliverWindowUpdateEvents` through `Window.update`,
of an event delivered immediately, or of a window's invalidation while the
finalizers of what it owns run. Its `phase` says which loop is running,
`running` whether a handler is in a call, `idx` is the C++ loop index, `empties`
is `emptyflag`, and `win` the window being invalidated. The phases of a pass:

    exclusive -> input -> normal -> tail -> idle -> continuous
      -> hooks -> closures -> window -> windows -> finish

`tail` and `interrupt` are the code after `_TVPDeliverAllEvents`, with `r` true
or read as false. An exclusive event leads from `exclusive` or `input` to
`tail`, and from `tail` to `finish`.

Scripts run when the stack is empty (native events and timers call them) or the
top frame is in a handler. `Script` then offers every operation of the queues,
any number of times and in any order: a handler is the sequence of its
operations. A handler ends by returning or by throwing, which goes to the catch
that the C++ code has at that place.

What is abstracted, and why nothing the properties tell apart is lost:

- An event's source and target are one object: every caller in the engine passes
  the same object twice. A member of `Names` is an (event name, tag) pair.
- Arguments and return values are left out, and the finalisation of an event's
  arguments when it is erased.
- The default of `-contfreq`: continuous events are called on each turn of the
  main loop. (`MainLoop` has both.)
- `TVPEventDisabled` and the system's disabled state are constants: the SDL2
  build compiles out every assignment (`base/sdl2/EventImpl.cpp` 76-128).
- An unhandled exception ends the process unless `System.exceptionHandler`
  handles it (`ScriptMgnIntf.cpp` 893-905). The model goes on, which includes
  stopping.
- An uninitialised variable: `r` of `TVPDeliverAllEvents` has no value after an
  exception and is read at line 600. `UninitialisedR` is the set of values it may
  be read as. Properties that need `{TRUE}` say so.

### Sound

A unit is an access unit of the level 2 ring, named by its index in the sound.
`WaveSound` gives each thread a program counter; a block under a lock that calls
nothing is one action, and a lock held across actions shows in the counters. The
playing thread reads the ring without the lock of the decode thread: the comment
in `ReadL2Buffer` says why that is safe, and `NeverReadsWritingUnit` is that
claim. `SoundStream` is the promise: decoded units, then queued units, each a
queue, and only a start, a stop or a seek drops any. `WaveLabels` adds time: one
sample is one tick, the decoder keeps up. `SoundLocks` forgets everything but
who takes which lock in which order and waits for whom.

### Windows and input

`WindowLayers` has the methods that wait (`ShowWindowAsModal`, the query of
`Close`) as frames of a stack; while one waits the script goes on. `Orderly` is
an assumption on scripts that the properties need: a window that waits in a
method is left alone, and the main window is not made modal. `WindowSize` keeps
what SDL has and what the layer has been told apart. `TextInput` posts the keys
the code posts (backspaces over the old composition, then the new one) and
applies them to the script's field; that this is the same as replacing a
composition in a text (`TextField`) is the refinement.

### Threads of the system

`TimerThread`: a pass collects the due timers, posts one event for all and
sleeps; `available` is `PendingEventsAvailable`. `DrawThreadPool`: `Test`,
`Take`, `Run`, `Clear` and `DecCount` are the steps of a worker between which
the main thread may run. `ImageLoader`: `commands`, the one the thread holds,
and `loaded`; handling one image calls a handler, which may handle others
inside.

`MainLoop`: `sdl` is SDL's queue. A turn of `Run` is `Poll`, `Polled`, a pass and
`Beat`. The pass is cut where another thread or an early return counts. `Deliver`
is `DeliverEvents` and the events of the script. `HeldBack` is the guard at
`EventIntf.cpp:608`: with an exclusive event left, or after an exception that
counts as an interruption (`held`), the rest of the pass is skipped and the flag
stays as it is. Otherwise `Idle` delivers idle events and tests the flag (622),
`Clear` clears it (624) and `Call` calls the handlers (630). The limiting thread
sets the flag and posts its event in two steps (`LimitTick`, `LimitPost`), each of
which may fall between any two of these; both are in its critical section, for
which `SetEnabled` waits. `ContinuousCalled` promises a call unless a pass was
held back: handlers that post an exclusive event in each pass keep continuous
events waiting for ever, and the property excepts that. `PostedDelivered` and
`TerminateEnds` except nothing.

### Files and start

`AutoPath` has files and *properties*: a file `x.prop` keeps properties of `x`.
A folder that is no archive lists `x` for it, and where `x` is not there the entry
has the flag `EMPTY_FILE` (`StorageIntf.cpp` 1213-1231; `Pretends`, `empty`). Of
the folders that list a name the last one added wins, and an entry with the flag is
answered as not found (1302). So a folder with `x.prop` alone hides the `x` of one
added earlier. `PlacedAsSearched` says what is found in these terms (`Shown`,
`Hidden`). With `-ignorefileprop=yes` no properties are listed: `Chopped` is empty then.

`ProjectDirectory` looks at one place in each step. `directory` is the set of the
places whose names make up the path: a relative name is put below the directory
before it. `ProjectFound` is exact. Unless `-nosel` is given, the first name that is
there beside the program is taken, and nothing else. If there is none, the names
before `--` are taken, from the last absolute one each below the one before; with
no absolute name they are below the current directory. What is taken need not
exist: the current directory counts as selected, so that a missing name is taken
too. With a delimiter at its end it becomes the directory; without one
`TVPSetCurrentDirectory` throws and the start ends (`StorageIntf.cpp:505`).
`failed` says so, and the property that it happens for such a name only.

### Side by side

`SoundParts`, `WindowParts` and `SystemParts` put parts that share no variable in
one specification. Each behaviour is one of a single part, named by the variable `part`; the
others keep their initial values. A property of such a run is a conjunction of
properties of the parts, each stated and commented in its module; TLC checks
each part as if it were alone, since the states are the sum, not the product.
Every conjunct has a mutant of its own. The theorems are about these
specifications, so they state the properties the runs check, with one lemma per
part; the `ASSUME`s that they need on the constants stand in these modules, where
TLC evaluates them on the instance.

Parts that do share state are composed in one module: queues, updates and
continuous events in `EventDelivery`; the decode thread, the playing thread, the
mixer's queue and the methods in `WaveSound`; the timer thread and the events of
the script in `TimerThread`; loop, watch timer and limiter in `MainLoop`.

## Runs

| Run | Question | Size |
|---|---|---|
| `events_nested` | A trigger, another object, cancelling, invalidation, a nested pass, both readings of `r`: is the queue ordered, are triggers consistent? | depth 2, 3 events |
| `events_mailbox` | A window with script and input events, redraws, finalizers that post again, a nested pass: does the delivery implement `Mailbox`, is nothing queued for what is gone, is a waiting exclusive event remembered? | depth 2, 3 events, 1 input |
| `events_flat` | Without nesting: does an event posted in a flush wait for the next, does input wait for exclusive events, does a pass end whatever its handlers post? | depth 1, 2 events, 1 input |
| `events_windows` | Two windows, a hook and two closures, redraws that request and throw, finalizers that request again: updates are bounded, guards and indices are right, calling is kept alive? | depth 2 |
| `events_continuous_stops` | Does the calling stop when nothing is registered, though handlers post exclusive events again? | depth 1, a trigger, 1 event |
| `events_exclusive_doc` | `EventIntf.h:87` says other events wait for an exclusive one. | violated |
| `events_flush_doc` | `EventIntf.h:294` says a posted event is delivered at the next flush. | violated with nesting |
| `wave_threads` | Every interleaving of decoder, player, callback and methods: ring, silence after a stop, queue limit, and does a finite sound end? | 5 units, ring of 3, queue of 2, 5 calls |
| `sound_parts` | Does looped buffering implement `SoundStream`; does a sound end whole; are labels, stream, mixer, locks and timers right? | ring of 2, three lengths of buffers, two timers |
| `sound_locks_label_doc` | `WaveImpl.cpp:3075` calls its block thread protected: with a label in the first unit, two threads wait for each other. | violated |
| `windows` | Three windows, or two with three waiting methods; is a covered window left alone and does `TextInput` implement `TextField` (`InputArrives`); do waiting methods end (`EndUnwinds`); keys, sizes, picture? | see `MCWindows` |
| `system` | The main loop, drawing, images, files, auto path, arguments, project directory, memory, plugins? | see `MCSystem` |

`WaitsForNextFlush` is checked twice. It holds without nesting (`events_flat`)
and fails with it (`events_flush_doc`): the nested pass resets the number at
`EventIntf.cpp` 645-648 below the one the outer pass delivers up to. What the
outer pass's handlers post then is delivered in the same pass. `QueueOrdered`
and `MailSpec` hold all the same: the reset happens only when the queue is
empty, so nothing queued can be overtaken.

### Bounds

A bound disables the action that would pass it; nothing else reads it.

| Bound | Why it is enough |
|---|---|
| `MaxDepth` (events) | an outer pass and one inside it; a third repeats that relation; the theorems have any depth |
| `MaxSeq` | as many values as nested passes plus one; the reset is reached below the bound |
| `MaxEvents`, `MaxInput` | a delivered event, one that waits, one that overtakes; in `events_continuous_stops` one exclusive event, delivered, cancelled, or posted again by the handler it is delivered to |
| `MaxHooks`, `MaxClosures` | an empty cell before or after a full one; they hide the growth of a vector by a callback that registers itself again |
| `L2Units` 3, `QueueLimit` 2, `StreamUnits` 5 | the ring wraps and is full, empty and half full; the sound is longer than ring or queue; theorems have any size |
| `MaxStale` | how far the player may read past the content when the device runs dry |
| `MaxOps`, `MaxPlays`, `MaxSets`, `MaxTick`, `MaxSent` | calls and time: long enough to play, stop, seek and play again, for a label after a replay, for a generation of two bits to come round, for an interval to pass twice |
| `WideFrames` 1 with all windows, `MaxFrames` 3 with `Few` of them | one waiting method with three windows, three inside each other with two; the theorems have any number of both |
| `MaxThreads` 3 | two workers: one can be late while the other is ended; the theorem has any number |
| `MaxDepth`, `MaxNative` (images) | a handler inside a handler; a queue of SDL that is full |
| `MaxQueue`, `MaxBurst`, `MaxPosted` (loop) | a full queue of SDL that the limiter waits for; input that goes on for a while; an event of the script left, or none |
| `MaxList` 2, two names, one archive (auto path) | a file, its properties, and a folder of each kind in both orders; the theorem has any number |
| `NameLines` (project directory) | two names beside the program; lines of up to four words with names relative and absolute, with and without a delimiter, any of them missing; the theorem has any names and lines |
| `Width` 2 for 32 bits, an int of 4096 megabytes | the point where the code's integer comes round is passed |

Deadlock is checked in the event runs, and in `sound_locks_label_doc`, which
asks for a circle directly. The other runs say `CHECK_DEADLOCK FALSE`: there
programs end, or a bound on calls and time is reached. That they do not stop
earlier is what their liveness properties and `NoCircularWait` say.

### Fairness

- `FairSpec` of the events: weak fairness of `Engine` (the loops of a pass never
  wait) and of `HandlerEnds`, a condition on scripts without which no event loop
  ends. A handler may perform any number of operations first. Handlers that post
  input events are excluded in `FlushEnds`: the loop over input takes what it
  finds (`EventIntf.cpp:529`).
- `LoopingSpec` adds strong fairness of a pass while `ContinuousEventCalling` is
  set: `Application::Run` (`Application.cpp` 806-847) does not block then and
  begins a pass on each turn; native events run scripts between two, hence strong.
  `ContinuousStops` is stated for passes that do not nest with `r` never read as
  false. It excepts an exclusive event that is queued: with one posted again in each
  pass, the code returns (`EventIntf.cpp` 608, 964, 1015) before it comes to
  `TVPEndContinuousEvent` (1046), and calls go on with nothing registered. It also
  excepts `seqNumber = MaxSeq`, a bound of the model where no further pass begins.
- `WaveSound`: weak fairness of the three threads, and of the main thread inside a
  method. They wait with timeouts, and the device takes samples by itself.
- `MainLoop`: weak of `Main`; strong of the watch timer and the limiter, which ask
  for a place in SDL's queue again and again, and get one in the end because the
  main thread empties it.
- `WindowLayers`: weak of a waiting method, whose loop polls (`EndUnwinds`).
- `DrawThreadPool`, `ImageLoader`: weak of each thread and of the main thread
  inside the functions; scripts need not call anything.

## Proofs

| Module | Theorems | Assumed beyond the modules' own assumptions |
|---|---|---|
| `EventProofs` | `TypeCorrect`, `QueueStaysOrdered`, `DeliveryIsFifo`, `TriggersStayConsistent`, `NothingOfTheDeadStays` | |
| | `DeliveryImplementsMailbox`: the refinement of `Mailbox` | |
| `EventLoops` | `CallingIsKeptAlive`, `UpdatesStayBounded`, `GuardsStayExact`, `IndicesStayInRange` | |
| | `ExclusiveStaysRemembered` | `r` is not read as false |
| | `PostsWaitForNextFlush`, `InputWaits` | and passes do not nest |
| `WaveProofs` | `WaveTypeCorrect`, `RingStaysConsistent`, `ReaderAvoidsWriter`, `StoppedStaysSilent`, `QueueStaysBounded` | |
| | `LoopedImplementsStream` | the sound loops |
| | `EndsAfterLastUnit` | the device never runs dry, the sound is not the first of the program |
| `SoundProofs` | `PartsTyped`, `LabelsStayKept`, `DeviceStaysAgreed`, `PositionStaysExact`, `LocksStaySufficient`, `TimersStayAgreed`, `SoundsEndWhole` | |
| | `BufferingImplementsStream`: the refinement of `SoundStream` | |
| `WindowProofs` | `PartsTyped`, `InputStaysAgreed`, `PictureStaysFit`, `WindowsStayKept` | |
| | `WindowsStayWhole` | the script is orderly |
| | `InputAlwaysArrives`: `ModalCovers` and the refinement of `TextField` | |
| `SystemProofs` | `PartsTyped`, `SurroundingsStayAgreed`, `WorkersStayAgreed`, `OthersStayUntouched` | |
| `AutoPathProofs` | `PlacedCorrectly` | the empty name and the mark of an unknown one are no folders |
| `DrawPoolProofs` | `BatchesAreDone` | there is a thread |

They hold for all objects, names, windows, sounds, timers, files, texts, keys,
sizes and threads, every bound, every depth of nesting, unless the last column
says otherwise. The modules' own assumptions:

- `EventTypes`, `EventDelivery`: triggers and windows are kinds of objects,
  windows are finitely many, `None` is none of them, bounds are natural numbers,
  `r` has a reading.
- `WaveSound`, `SoundParts`: a sound has a unit, a ring at least two, the mixer's
  queue one; labels are positions in the sound; buffers are not empty; volumes
  and pans are integers; the intervals of the timers have a greatest.
- `WindowParts`: `None` is no window; no character is one of the keys that move
  and delete; every size is positive; there is a colour. `KeysAssumption` leaves
  the menu key out: the code tells it as the left menu key, so that two keys share
  a state, and `ToldWhatIsHeld` does not hold of them (see the observations).
- `SystemParts`: queues have a size; archives are folders, and names of properties
  are names; no two names become one in upper case, and
  none in upper case is one in lower; what is on the disk at first is a tree; the
  options set are fewer than the generations (`2 ^ Width`, with 32 bits in the
  code); the names looked for beside the program are not given on the line; the
  largest memory is 4 GB at least; there is a drawing thread.

Whatever takes counting (a least timer, the last folder of the list, the length of
a field, a first place where two sequences differ) is shown from the
well-founded order of the naturals, by a least counterexample: induction
theorems with an operator as parameter are not used.

**Events.** `TypeOK` is inductive as it stands, with one lemma per group of
actions. Three facts carry the rest: `ErasedKeepsOrder` (erasing leaves elements
that come, in order, from positions that were kept; `Erased` is defined through
ascending functions, not by recursion, so that the provers can reason about it),
`RemoveAtKeepsOrder`, and `StackMoves` (pushing, popping, replacing a frame).

- *Order.* Erasing and taking away keep the order; an appended event has the
  current number, which by the second conjunct of `QueueOrdered` is not behind
  any. A pass raises the number, or resets it when the queue is empty. The second
  conjunct is the strengthening: without it a reset could go below queued numbers.
- *Delivery.* A step from a loop into its handler at the same depth is a delivery.
  Positions before the one picked have, by order, numbers the pass delivers, so
  they would have been picked if they had the priority.
- *Triggers.* A change of `cached` or `mode` erases all events of the trigger, and
  a cached trigger erases before it appends.
- *Invalidation.* The second round of cancelling removes what finalizers queued.
- *The mailbox.* `Mailbox` forgets sequence numbers, flags, loop indices and the
  loops between handlers: `Letters` drops the number of an event, `Calls` maps a
  frame to the handler it is in, or to "engine". `FinalizersOnce` is the
  strengthening: a window is invalidated by one frame at most and is not gone
  while it is, so that the end of its finalizers is one invalidation. Then every
  step is a step of `Mailbox` or changes nothing it sees: posting and cancelling
  map through `ErasedLetters` and `AppendLetters`, a delivery through
  `DeliveryTakesFirst` (it takes the first of its priority) and `NothingOfTheDead`
  (its target is alive, so a handler is called: the branch of the code that drops
  an event of an invalid target is never taken), and the other steps of the engine
  through `EngineMoves`.
- *Updates.* A request counts the cells of its window first; the limit is two
  while updates are delivered and one otherwise, and it falls from two to one
  where the vector is cleared.
- *Guards.* `LoopGuards` says that a flag is set exactly while one frame is in its
  loop. It is inductive with `TypeOK`; each action either keeps all frames' loops,
  begins one with its flag clear, or ends the one there is.
- *Indices.* Vectors shrink in one place, the end of their own loop, where by
  `LoopGuards` no other frame is inside. `IndicesFit` adds to the property what
  every frame of the stack, not the top alone, keeps.
- *Exclusive events.* `Uninterrupted` (if `r` is never read as false, no pass
  is interrupted) gives `ExclusiveRemembered`: the flag is lowered where every
  exclusive event left is beyond the pass. Without nesting, `FlatSafe` has three
  parts: one frame (`Flat`), the number ahead of the pass in its early phases
  (`Ahead`), and nothing exclusive queued in the loop over input (`Clear`).

**Sound.** The inductive invariant is the conjunction of the properties with
`Threads`: what a thread in the middle of a unit still has of what it tested
before. A place in the ring is the remainder of a number, and the number read and
the number written differ by the count of full units; the lemmas on remainders say
that less than a round apart is another place. The player reads without the lock
only with more than one unit left, which `Threads` keeps while the decoder adds:
so it never meets the writer. `StoppedIsSilent` needs the player's counter:
between its test of the flag and its addition to the queue it holds `BufferCS`,
which the stopping thread takes.

**Sound, the rest.** `SoundProofs` gives each part an invariant of its own.

- *Looped.* `LoopedImplementsStream` maps the ring's full units, in the order they
  are read, to `decoded`, and the mixer's queue to `queued`. Each step of the three
  threads is an action of `SoundStream` or a stutter; `RingConsistent` says which
  unit is next, and the lemmas on remainders that it is not one that is read.
- *Labels.* `Placed` says where each label is: fired, queued, or behind what is
  decoded, in this order; `Waited` says who will fire the queue: the playing thread
  or the event on its way. `FiredInOrder` alone is not inductive: it takes that no
  queued label is before a fired one.
- *Device.* A stream that is there has the format it was created with, and who
  plays has created the one it opened (`DeviceMade`, `DevicePlays`). `VolumeFollows`
  needs that the volume is written whenever the stream is replaced.
- *Mixer.* `Counts` says that what is cached is what the buffers hold less what
  was taken of the first; the callback keeps it after every buffer, not only after
  its whole walk. What it still has to mix is in `streams` and not freed.
- *Locks.* Locks have a rank, and every program takes them in ascending order
  (`Leads`: what is left of a program leads from what the thread holds to nothing).
  Who waits holds less than it asks for: so nobody waits in a circle. With a label
  in the first unit the program of `Play` does not ascend, and the proof would end
  where the run `sound_locks_label_doc` finds the circle.
- *Timers.* The property is inductive but for the types. A pass gives each due
  timer the next multiple of its interval (`NextMultiple`), which is not before the
  clock (`PassAdvances`), and sleeps until the least of them.

**Windows.** `LayersInv` is what holds whatever the script does: each object has
a listed layer, each layer an object or a place among those to be deleted, unless
the program has ended; there is a main window as long as there is any. `Calls` is
what an orderly script keeps: each waiting method has a window of its own that is
listed and not to be deleted. `WaitingExists` alone is not inductive, as a layer
could be deleted that a method below the top of the stack waits for. Without
`Orderly` TLC shows a script that invalidates the window its method waits in.

**Text input.** `TextInv` says that the composition lies where the caret, the
cursor and the length say, inside the text, and that the caret ends the selection
in the composition. The step from it is an equation of texts: moving to the end of
the composition, deleting its length and inserting the new one is the text with the
middle replaced (`CutApart`, `NewParts`), key by key. Sequences are compared by
length and elements. The refinement then has one lemma per action of `TextInput`.

**Keys.** `KeyInv` is the types with `ToldWhatIsHeld` and `NoneStuck`; the flags of
an event follow from the names that one key's release tells (`UpNames`), by
cases on the virtual keys.

**Sizes, picture.** `SizeInv` adds to the properties that nothing is drawn or shown
before the rectangle is known, and that it is of the present sizes unless news of
one is on its way. That the letterbox fits and that a pixel comes back within one
is integer arithmetic with products and quotients, in lemmas of two numbers each.
`PictureInv`: a place of the texture differs from the surface only if it is still
in the region, or in the rectangle to present, which starts at the origin.

**Surroundings.** *Files:* names of each depth are found by a descent in which no
two entries of a folder differ in case only beside what was written (`DiskInv`,
`Follows`). *Arguments:* a reader keeps a generation, which wraps; `Behind` counts
the sets since, less than a round. *Project:* `FoundBeside` or `FoundLater` holds.
While the search is under way, `LedTo` is the property for the names looked at so
far; each word changes which of them are taken (`TakenNow`) and which of those stand
behind an absolute one. A name that throws ends the search, where `StartFails` is the
property. *Memory:* each stage's limit follows from what the program counts on.
*Plugins:* at most one is being linked, never one that is listed. *Images:* each
command is in one queue or with the thread (`ImageOnce`), the thread is awake or about
to be (`ImageAwake`), and there is a native event for each loaded image (`ImageTold`).
*Main loop* (its types): a place in the queue of SDL is kept for the event that the
limiting thread is about to post (`LoopRoom`).

**Auto path.** The cache alone is not inductive: answers come into it long after
the table was built. `TableCurrent` says that the table is empty or lists what the
folders list now, with the flags. Each change of list, folder or files clears both.
`ListedIsLast` says that the entry is of the last folder that lists the name, which
a descent on indices finds; `ListedAnswers` that what is answered for it is what a
search finds: the file, if that folder has it, else nothing, and then the folder
hides what stands before it.

**Drawing.** `Places` says what the main thread's place tells of the size and of
the task being handed out, `Given` who may be busy and with which task, `Ran`
that a task given is run, or still with the worker of its number. Then an empty
count at `WaitForTask` means an empty set of busy workers, hence every task run.
`Counts` is exact only with `forgotten`, see the observations.

Only model-checked is liveness (`FlushEnds`, `ContinuousStops`, `PlayedSoundEnds`,
`GoesOn`, `EndUnwinds`), since the prover has no means for fairness. Every other
property of the passing runs is a theorem.

## Findings and observations

The three violation runs are findings: exclusive events that do not go first,
an event delivered in the flush it was posted in, and the circle of locks with a
label in the first unit. What follows was met while modelling and has no run of
its own; where a property excepts it, the property says so.

- `DrawThreadPool`: when `System.drawThreadNum` is lowered right after a batch, a
  worker between `DecCount` and its test of `Terminated` (`ThreadIntf.cpp`
  439-448) ends without the dummy task it was counted for (513-522), and
  `WaitForTask` turns for ever. `forgotten` counts these; `BatchEnds` excepts them.
- `Bitmap.loadAsync` that throws (a missing file, an unknown format) leaves
  `Loading` set, so the bitmap cannot be loaded again and is told no `onLoaded`,
  though the comment on `LoadRequest` in `GraphicsLoadThread.h` promises one. A bitmap
  invalidated meanwhile makes `HandleLoadedImage` throw and leaks the command.
  The loading thread, when SDL's queue is full at the end of the program, keeps
  its destructor waiting; `ThreadEnds` excepts that.
- A poster waits in a loop for a place in SDL's full queue
  (`NativeEventQueue.cpp:102`), the timer thread while it holds `TVPTimerCS`: the
  main thread, waiting for that lock, never makes a place.
- A modal window opened in a timer's handler keeps `TVPTimerCS` for its duration.
- `SDL_GetSystemRAM() * 1024 * 1024` overflows an int from 2 GB on
  (`SysInitImpl.cpp:1047`). `MemoryLimits` has every result; `CacheFits` promises
  nothing then.
- A script run inside `V2Unlink` that links or unlinks leaves the iterator of
  `TVPUnloadPlugin` dangling (`PluginImpl.cpp:305`); the model excludes it.
- A name on the command line that does not exist is taken as the project directory
  once the current directory counts as selected (`SysInitImpl.cpp` 1404, 1431): the
  start ends with an exception, or, with a delimiter, looks for its scripts in a
  directory that is not there. A second relative name is looked for from the
  directory of the process, and then taken from the directory of the first.
- A folder of the auto path that has `x.prop` but no `x` hides the `x` of a folder
  added before (`StorageIntf.cpp` 1213-1231, 1302); an archive with `x.prop` does not.
- Exclusive events posted again in each pass hold back idle events, continuous events
  and redraws for ever (`EventIntf.cpp:608`); `ContinuousCalled` and
  `ContinuousStops` except that.
- `AutoPath`'s cache is read before its lock is taken (`StorageIntf.cpp:1279`).
- With an aspect equal to that of the output, the letterbox leaves the zoom at 1
  (`SDLApplication.cpp` 1686-1694), so a picture of half the size stays in the
  corner; `Letterboxed` excepts it.
- `accepted` of a modal window outlives it, so a later `close` asks nobody; a
  window closed while the program ends may become the current one with no
  `TJSNativeInstance`.
- Malformed UTF-8 from an input method leaves the length of a composition that is
  no longer in the field; `SDLK_MENU` is told as the left menu key and the right
  control key sets the shift state; a wheel event converts the mouse position twice.
- The pan of a sound has no effect in this mixer; a format that is invalid leaves
  a sound without a stream; labels come early after a replay.

## Not modelled, and how much is

The map covers 4,441 lines of `src/src`, 14% of its 32,478. Most of the rest is no
code of this build: the files were ported from the Windows engine and hold its
code under `#if 0` and `_WIN32` (WindowImpl.cpp has 655 lines that are compiled of
2,428, VideoOvlImpl.cpp 262 of 1,582, SystemImpl.cpp 320 of 1,274). About 13,000
lines are compiled, 3,500 of them generated (FuncStubs.cpp, the OpenGL header) and
1,000 constant tables and the texts of scripts and messages (ScriptMgnImpl.cpp,
MsgLoad.cpp, VirtualKey.h). Of what is left, headers, native-method wrappers and
getters have no behaviour of their own. Much of the engine's logic is in
`external/krkrz`, which the map names for events, timers, drawing threads, images
and the auto path, and which the figure does not count.

Left out, with the reason:

- The script engine, the KAG parser, the loop manager's segments, regions, image
  and sound decoders, archives: sequential transformations of data.
- Layers and their manager, transitions: platform-independent and numeric; windows
  see them through the events that are modelled.
- Video overlay: a stub in this build.
- In the modelled parts: mixing of samples and the copy for visualisation,
  3D position, mouse cursor shapes, the OpenGL canvas, the console, activation,
  the data folder's paths, compact events, `TVPDiscardAllDiscardableEvents` (no
  caller), the end of the timer thread, and events of a dead native queue.

Hazards noted but without a state in these models: events of a native queue that
was destroyed (`NativeEventQueue.h:85`), the buffer of `readlink`
(`Application.cpp` 186-195), a failing start that leaves `main` without
uninitialising (`SDLApplication.cpp:2508`), the exit code that `main` does not
return, the vector of script events that has no lock although its header calls
posting thread-safe (`EventIntf.h:103`), and an event's arguments finalised during
the walk that erases it (`EventIntf.cpp:319`).
