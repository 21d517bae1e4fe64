--------------------------- MODULE DrawPoolProofs ---------------------------
(***************************************************************************)
(* Proof that a batch of drawing tasks is done when it ends, for any       *)
(* number of threads, any batches and any change of that number.           *)
(***************************************************************************)
EXTENDS DrawThreadPool, FiniteSetTheorems, TLAPS

\* The types, in full where the proof needs them.
Amounts ==
  /\ number \in Tasks /\ size \in Nat /\ size <= MaxThreads - 1
  /\ taskNum \in Nat /\ taskCount \in Nat /\ given \in Nat
  /\ count \in Int /\ forgotten \in Nat
MainPlaces ==
  /\ main \in {"script", "pool", "retire", "join", "exec", "wait", "ended"}
  /\ ending \in BOOLEAN
WorkerPlaces ==
  /\ at \in [Workers -> {"test", "wait", "run", "clear", "dec", "gone"}]
  /\ terminated \in [Workers -> BOOLEAN]
TaskTypes == task \in [Workers -> Nat] /\ \A w \in Workers : task[w] <= Dummy
RunTypes == runs \in [Tasks -> Nat]
Types == Amounts /\ MainPlaces /\ WorkerPlaces /\ TaskTypes /\ RunTypes

InBatch == main \in {"exec", "wait"}
InPool == main \in {"pool", "retire", "join"}

\* The main thread knows the size of the pool and of the batch.
Places ==
  /\ main \in {"retire", "join"} => size > 0
  /\ InBatch => ~ending /\ size = number - 1
  /\ main = "script" => ~ending
  /\ (InPool \/ InBatch) /\ ~ending => taskNum > 0 /\ taskNum <= number
  /\ InPool /\ ~ending => given = 0 /\ taskCount = 0
  /\ main = "exec" =>
       given <= taskNum /\ taskCount = IF given < taskNum THEN given ELSE taskNum - 1
  /\ main = "wait" => given = taskNum /\ taskCount = taskNum - 1

\* A worker has a task until it has cleared it, and ends only when the main
\* thread waits for it.
Steps ==
  \A w \in Workers :
    /\ w > size => at[w] = "gone" /\ task[w] = 0
    /\ at[w] \in {"run", "clear"} => task[w] # 0
    /\ at[w] = "dec" => task[w] = 0
    /\ w <= size /\ terminated[w] => w = size /\ main \in {"retire", "join"}
    /\ w <= size /\ at[w] = "gone" => terminated[w]

\* Who may be busy: the workers that were handed a task, with the task of
\* their own number, and the one that is ended.
Given ==
  \A w \in Workers :
    /\ Busy(w) => (InBatch /\ w <= taskCount) \/ (main = "join" /\ w = size)
    /\ task[w] # 0 => task[w] = IF main = "join" THEN Dummy ELSE w

\* A task that was given was run, unless its worker has still to run it.
Unfinished(w) == task[w] # 0 /\ at[w] \in {"test", "wait", "run"}
Ran ==
  \A t \in Tasks :
    runs[t] = IF t <= given /\ ~ (InBatch /\ t \in Workers /\ Unfinished(t)) THEN 1 ELSE 0

BusySet == {w \in Workers : Busy(w)}
Counts == ~ending => count = Cardinality(BusySet) + forgotten

\* The inductive invariant.
Inv == Types /\ Places /\ Steps /\ Given /\ Ran /\ Counts
-----------------------------------------------------------------------------

\* Everything a main thread step needs is in the sets of numbers.
LEMMA Numbers ==
  ASSUME MaxThreads \in Nat \ {0}
  PROVE  /\ Workers \subseteq Nat /\ Tasks \subseteq Nat \ {0} /\ Workers \subseteq Tasks
         /\ Dummy \notin Tasks /\ Dummy \in Nat /\ Dummy # 0
BY DEF Workers, Tasks, Dummy

\* The number of busy workers.
LEMMA BusyFinite ==
  ASSUME MaxThreads \in Nat \ {0}
  PROVE  IsFiniteSet(BusySet) /\ Cardinality(BusySet) \in Nat
<1>1. IsFiniteSet(Workers)
  BY FS_Interval DEF Workers
<1>2. IsFiniteSet(BusySet)
  BY <1>1, FS_Subset DEF BusySet
<1> QED
  BY <1>2, FS_CardinalityType

\* The number after one worker has become busy, and after one is no more.
LEMMA OneMore ==
  ASSUME MaxThreads \in Nat \ {0}, NEW w \in Workers, ~ Busy(w), BusySet' = BusySet \cup {w}
  PROVE  Cardinality(BusySet') = Cardinality(BusySet) + 1
BY BusyFinite, FS_AddElement DEF BusySet

LEMMA OneLessBusy ==
  ASSUME MaxThreads \in Nat \ {0}, NEW w \in Workers, Busy(w), BusySet' = BusySet \ {w}
  PROVE  Cardinality(BusySet') = Cardinality(BusySet) - 1
BY BusyFinite, FS_RemoveElement DEF BusySet

\* The number of workers there should be.
LEMMA WantedFits ==
  ASSUME MaxThreads \in Nat \ {0}, Inv
  PROVE  /\ Wanted \in Nat /\ Wanted <= MaxThreads - 1 /\ number \in Nat
         /\ ~ending => Wanted = number - 1
<1>1. number \in Nat /\ number - 1 \in Nat /\ number - 1 <= MaxThreads - 1
  BY DEF Inv, Types, Amounts, Tasks
<1>2. Wanted \in {0, number - 1} /\ (~ending => Wanted = number - 1)
  BY DEF Wanted
<1>3. 0 <= MaxThreads - 1
  OBVIOUS
<1> QED
  BY <1>1, <1>2, <1>3

\* Nobody is busy at first.
LEMMA Starts == ASSUME MaxThreads \in Nat \ {0}, Init PROVE Inv
<1>1. Types
  <2>1. Amounts /\ RunTypes
    BY DEF Init, Amounts, RunTypes, Tasks
  <2>2. MainPlaces /\ WorkerPlaces
    BY DEF Init, MainPlaces, WorkerPlaces
  <2>3. TaskTypes
    BY DEF Init, TaskTypes, Dummy
  <2> QED
    BY <2>1, <2>2, <2>3 DEF Types
<1>2. Places /\ Steps /\ Given
  <2>1. Places
    BY DEF Init, Places, InBatch, InPool
  <2>2. Steps
    BY Numbers DEF Init, Steps
  <2>3. Given
    BY DEF Init, Given, Busy
  <2> QED
    BY <2>1, <2>2, <2>3
<1>3. Ran
  BY DEF Init, Ran, Tasks, InBatch
<1>4. BusySet = {}
  BY DEF Init, BusySet, Busy
<1>5. Counts
  BY <1>4, FS_EmptySet DEF Init, Counts
<1> QED
  BY <1>1, <1>2, <1>3, <1>5 DEF Inv

\* The script changes the number of threads.
LEMMA SetNumberKeeps ==
  ASSUME MaxThreads \in Nat \ {0}, Inv, NEW n \in Tasks, SetNumber(n)
  PROVE  Inv'
<1>1. Types'
  <2>1. Amounts'
    BY Numbers DEF Inv, Types, Amounts, WorkerPlaces, TaskTypes, MainPlaces, SetNumber,
      Dummy, workerVars, mainVars
  <2>2. MainPlaces'
    BY Numbers DEF Inv, Types, MainPlaces, SetNumber, Dummy, workerVars, mainVars
  <2>3. WorkerPlaces'
    BY Numbers DEF Inv, Types, WorkerPlaces, Amounts, SetNumber, Dummy, workerVars, mainVars
  <2>4. TaskTypes'
    BY Numbers DEF Inv, Types, TaskTypes, Amounts, SetNumber, Dummy, workerVars, mainVars
  <2>5. RunTypes'
    BY Numbers DEF Inv, Types, RunTypes, Amounts, TaskTypes, SetNumber, Dummy,
      workerVars, mainVars
  <2> QED
    BY <2>1, <2>2, <2>3, <2>4, <2>5 DEF Types
<1>2. Places'
  BY Numbers DEF Inv, Types, Amounts, MainPlaces, WorkerPlaces, TaskTypes, RunTypes,
    Places, SetNumber, InBatch, InPool, workerVars, mainVars, Tasks
<1>3. Steps'
  BY Numbers DEF Inv, Types, Amounts, MainPlaces, WorkerPlaces, TaskTypes, RunTypes,
    Places, Steps, SetNumber, workerVars, mainVars
<1>4. Given'
  BY Numbers DEF Inv, Types, Amounts, MainPlaces, WorkerPlaces, TaskTypes, RunTypes,
    Places, Steps, Given, Busy, SetNumber, InBatch, workerVars, mainVars
<1>5. Ran'
  BY Numbers DEF Inv, Types, Amounts, MainPlaces, WorkerPlaces, TaskTypes, RunTypes,
    Places, Steps, Given, Busy, Ran, Unfinished, SetNumber, InBatch, InPool, workerVars,
    mainVars
<1>6. Counts'
  <2>1. BusySet' = BusySet
    BY DEF BusySet, Busy, SetNumber, workerVars
  <2> QED
    BY <2>1 DEF Inv, Counts, SetNumber, mainVars
<1> QED
  BY <1>1, <1>2, <1>3, <1>4, <1>5, <1>6 DEF Inv

\* A batch begins.
LEMMA BeginTaskKeeps ==
  ASSUME MaxThreads \in Nat \ {0}, Inv, NEW n \in {1, number}, BeginTask(n)
  PROVE  Inv'
<1>1. Types'
  <2>1. Amounts'
    BY Numbers DEF Inv, Types, Amounts, WorkerPlaces, TaskTypes, MainPlaces, BeginTask,
      Dummy, workerVars, mainVars
  <2>2. MainPlaces'
    BY Numbers DEF Inv, Types, MainPlaces, BeginTask, Dummy, workerVars, mainVars
  <2>3. WorkerPlaces'
    BY Numbers DEF Inv, Types, WorkerPlaces, Amounts, BeginTask, Dummy, workerVars, mainVars
  <2>4. TaskTypes'
    BY Numbers DEF Inv, Types, TaskTypes, Amounts, BeginTask, Dummy, workerVars, mainVars
  <2>5. RunTypes'
    BY Numbers DEF Inv, Types, RunTypes, Amounts, TaskTypes, BeginTask, Dummy,
      workerVars, mainVars
  <2> QED
    BY <2>1, <2>2, <2>3, <2>4, <2>5 DEF Types
<1>2. Places'
  BY Numbers DEF Inv, Types, Amounts, MainPlaces, WorkerPlaces, TaskTypes, RunTypes,
    Places, BeginTask, InBatch, InPool, workerVars, mainVars, Tasks
<1>3. Steps'
  BY Numbers DEF Inv, Types, Amounts, MainPlaces, WorkerPlaces, TaskTypes, RunTypes,
    Places, Steps, BeginTask, workerVars, mainVars
<1>4. Given'
  BY Numbers DEF Inv, Types, Amounts, MainPlaces, WorkerPlaces, TaskTypes, RunTypes,
    Places, Steps, Given, Busy, BeginTask, InBatch, workerVars, mainVars
<1>5. Ran'
  BY Numbers DEF Inv, Types, Amounts, MainPlaces, WorkerPlaces, TaskTypes, RunTypes,
    Places, Steps, Given, Busy, Ran, Unfinished, BeginTask, InBatch, InPool, workerVars,
    mainVars
<1>6. Counts'
  <2>1. BusySet' = BusySet
    BY DEF BusySet, Busy, BeginTask, workerVars
  <2> QED
    BY <2>1 DEF Inv, Counts, BeginTask, mainVars
<1> QED
  BY <1>1, <1>2, <1>3, <1>4, <1>5, <1>6 DEF Inv

\* The pool is destroyed.
LEMMA DestroyKeeps ==
  ASSUME MaxThreads \in Nat \ {0}, Inv, Destroy
  PROVE  Inv'
<1>1. Types'
  <2>1. Amounts'
    BY Numbers DEF Inv, Types, Amounts, WorkerPlaces, TaskTypes, MainPlaces, Destroy,
      Dummy, workerVars, mainVars
  <2>2. MainPlaces'
    BY Numbers DEF Inv, Types, MainPlaces, Destroy, Dummy, workerVars, mainVars
  <2>3. WorkerPlaces'
    BY Numbers DEF Inv, Types, WorkerPlaces, Amounts, Destroy, Dummy, workerVars, mainVars
  <2>4. TaskTypes'
    BY Numbers DEF Inv, Types, TaskTypes, Amounts, Destroy, Dummy, workerVars, mainVars
  <2>5. RunTypes'
    BY Numbers DEF Inv, Types, RunTypes, Amounts, TaskTypes, Destroy, Dummy, workerVars,
      mainVars
  <2> QED
    BY <2>1, <2>2, <2>3, <2>4, <2>5 DEF Types
<1>2. Places'
  BY Numbers DEF Inv, Types, Amounts, MainPlaces, WorkerPlaces, TaskTypes, RunTypes,
    Places, Destroy, InBatch, InPool, workerVars, mainVars, Tasks
<1>3. Steps'
  BY Numbers DEF Inv, Types, Amounts, MainPlaces, WorkerPlaces, TaskTypes, RunTypes,
    Places, Steps, Destroy, workerVars, mainVars
<1>4. Given'
  BY Numbers DEF Inv, Types, Amounts, MainPlaces, WorkerPlaces, TaskTypes, RunTypes,
    Places, Steps, Given, Busy, Destroy, InBatch, workerVars, mainVars
<1>5. Ran'
  BY Numbers DEF Inv, Types, Amounts, MainPlaces, WorkerPlaces, TaskTypes, RunTypes,
    Places, Steps, Given, Busy, Ran, Unfinished, Destroy, InBatch, InPool, workerVars,
    mainVars
<1>6. Counts'
  BY DEF Counts, Destroy
<1> QED
  BY <1>1, <1>2, <1>3, <1>4, <1>5, <1>6 DEF Inv

\* A worker is added.
LEMMA GrowKeeps ==
  ASSUME MaxThreads \in Nat \ {0}, Inv, Grow
  PROVE  Inv'
<1>0. /\ size + 1 \in Workers /\ at[size + 1] = "gone" /\ task[size + 1] = 0
      /\ size + 1 <= MaxThreads - 1
  <2>1. size \in Nat /\ size + 1 <= MaxThreads - 1
    BY WantedFits DEF Inv, Types, Amounts, Grow
  <2>2. size + 1 \in Workers /\ size + 1 > size
    BY <2>1 DEF Workers
  <2> QED
    BY <2>1, <2>2 DEF Inv, Steps
<1>1. Types'
  <2>1. Amounts'
    BY <1>0, Numbers DEF Inv, Types, Amounts, WorkerPlaces, TaskTypes, MainPlaces, Grow,
      Dummy, workerVars, mainVars
  <2>2. MainPlaces'
    BY <1>0, Numbers DEF Inv, Types, MainPlaces, Grow, Dummy, workerVars, mainVars
  <2>3. WorkerPlaces'
    BY <1>0, Numbers DEF Inv, Types, WorkerPlaces, Amounts, Grow, Dummy, workerVars,
      mainVars
  <2>4. TaskTypes'
    BY <1>0, Numbers DEF Inv, Types, TaskTypes, Amounts, Grow, Dummy, workerVars, mainVars
  <2>5. RunTypes'
    BY <1>0, Numbers DEF Inv, Types, RunTypes, Amounts, TaskTypes, Grow, Dummy,
      workerVars, mainVars
  <2> QED
    BY <2>1, <2>2, <2>3, <2>4, <2>5 DEF Types
<1>2. Places'
  BY <1>0, Numbers DEF Inv, Types, Amounts, MainPlaces, WorkerPlaces, TaskTypes, RunTypes,
    Places, Grow, InBatch, InPool, workerVars, mainVars, Tasks
<1>3. Steps'
  BY <1>0, Numbers DEF Inv, Types, Amounts, MainPlaces, WorkerPlaces, TaskTypes, RunTypes,
    Places, Steps, Grow, workerVars, mainVars
<1>4. Given'
  BY <1>0, Numbers DEF Inv, Types, Amounts, MainPlaces, WorkerPlaces, TaskTypes, RunTypes,
    Places, Steps, Given, Busy, Grow, InBatch, workerVars, mainVars
<1>5. Ran'
  BY <1>0, Numbers DEF Inv, Types, Amounts, MainPlaces, WorkerPlaces, TaskTypes, RunTypes,
    Places, Steps, Given, Busy, Ran, Unfinished, Grow, InBatch, InPool, workerVars,
    mainVars
<1>6. Counts'
  <2>2. BusySet' = BusySet
    BY <1>0 DEF Inv, Types, TaskTypes, WorkerPlaces, BusySet, Busy, Grow
  <2> QED
    BY <2>2 DEF Inv, Counts, Grow
<1> QED
  BY <1>1, <1>2, <1>3, <1>4, <1>5, <1>6 DEF Inv

\* The last worker is told to end.
LEMMA ShrinkKeeps ==
  ASSUME MaxThreads \in Nat \ {0}, Inv, Shrink
  PROVE  Inv'
<1>0. size > 0 /\ size \in Workers /\ (~ending => size > number - 1)
  BY WantedFits DEF Inv, Types, Amounts, Shrink, Workers
<1>1. Types'
  <2>1. Amounts'
    BY <1>0, Numbers DEF Inv, Types, Amounts, WorkerPlaces, TaskTypes, MainPlaces,
      Shrink, Dummy, workerVars, mainVars
  <2>2. MainPlaces'
    BY <1>0, Numbers DEF Inv, Types, MainPlaces, Shrink, Dummy, workerVars, mainVars
  <2>3. WorkerPlaces'
    BY <1>0, Numbers DEF Inv, Types, WorkerPlaces, Amounts, Shrink, Dummy, workerVars,
      mainVars
  <2>4. TaskTypes'
    BY <1>0, Numbers DEF Inv, Types, TaskTypes, Amounts, Shrink, Dummy, workerVars, mainVars
  <2>5. RunTypes'
    BY <1>0, Numbers DEF Inv, Types, RunTypes, Amounts, TaskTypes, Shrink, Dummy,
      workerVars, mainVars
  <2> QED
    BY <2>1, <2>2, <2>3, <2>4, <2>5 DEF Types
<1>2. Places'
  BY <1>0, Numbers DEF Inv, Types, Amounts, MainPlaces, WorkerPlaces, TaskTypes, RunTypes,
    Places, Shrink, InBatch, InPool, workerVars, mainVars, Tasks
<1>3. Steps'
  BY <1>0, Numbers DEF Inv, Types, Amounts, MainPlaces, WorkerPlaces, TaskTypes, RunTypes,
    Places, Steps, Shrink, workerVars, mainVars
<1>4. Given'
  BY <1>0, Numbers DEF Inv, Types, Amounts, MainPlaces, WorkerPlaces, TaskTypes, RunTypes,
    Places, Steps, Given, Busy, Shrink, InBatch, workerVars, mainVars
<1>5. Ran'
  BY <1>0, Numbers DEF Inv, Types, Amounts, MainPlaces, WorkerPlaces, TaskTypes, RunTypes,
    Places, Steps, Given, Busy, Ran, Unfinished, Shrink, InBatch, InPool, workerVars,
    mainVars
<1>6. Counts'
  <2>1. BusySet' = BusySet
    BY DEF BusySet, Busy, Shrink, workerVars
  <2> QED
    BY <2>1 DEF Inv, Counts, Shrink, mainVars
<1> QED
  BY <1>1, <1>2, <1>3, <1>4, <1>5, <1>6 DEF Inv

\* It gets its last task.
LEMMA RetireKeeps ==
  ASSUME MaxThreads \in Nat \ {0}, Inv, Retire
  PROVE  Inv'
<1>0. /\ size \in Workers /\ ~Busy(size) /\ size > 0
      /\ LastCounted \in Int /\ (~ending => LastCounted = count + 1)
  <2>1. size \in Workers /\ size > 0
    BY DEF Inv, Types, Amounts, Places, Retire, Workers
  <2>2. ~Busy(size)
    BY <2>1 DEF Inv, Given, Retire, InBatch
  <2>3. LastCounted \in {count, count + 1} /\ (~ending => LastCounted = count + 1)
    BY DEF LastCounted
  <2> QED
    BY <2>1, <2>2, <2>3 DEF Inv, Types, Amounts
<1>1. Types'
  <2>1. Amounts'
    BY <1>0, Numbers DEF Inv, Types, Amounts, WorkerPlaces, TaskTypes, MainPlaces,
      Retire, LastTask, Dummy, workerVars, mainVars
  <2>2. MainPlaces'
    BY <1>0, Numbers DEF Inv, Types, MainPlaces, Retire, LastTask, Dummy, workerVars,
      mainVars
  <2>3. WorkerPlaces'
    BY <1>0, Numbers DEF Inv, Types, WorkerPlaces, Amounts, Retire, LastTask, Dummy,
      workerVars, mainVars
  <2>4. TaskTypes'
    BY <1>0, Numbers DEF Inv, Types, TaskTypes, Amounts, Retire, LastTask, Dummy,
      workerVars, mainVars
  <2>5. RunTypes'
    BY <1>0, Numbers DEF Inv, Types, RunTypes, Amounts, TaskTypes, Retire, LastTask,
      Dummy, workerVars, mainVars
  <2> QED
    BY <2>1, <2>2, <2>3, <2>4, <2>5 DEF Types
<1>2. Places'
  BY <1>0, Numbers DEF Inv, Types, Amounts, MainPlaces, WorkerPlaces, TaskTypes, RunTypes,
    Places, Retire, LastTask, InBatch, InPool, workerVars, mainVars, Tasks
<1>3. Steps'
  <2>1. /\ \A w \in Workers : task'[w] = IF w = size THEN Dummy ELSE task[w]
        /\ at' = at /\ terminated' = terminated /\ size' = size
    BY <1>0, Numbers DEF Inv, Types, TaskTypes, Retire, LastTask, workerVars, mainVars
  <2>2. Dummy # 0 /\ size <= size /\ at[size] # "dec"
    BY <1>0, Numbers DEF Inv, Types, Amounts, Busy, LastTask
  <2>3. \A w \in Workers : w <= size /\ terminated[w] => w = size /\ main' \in {"retire", "join"}
    BY DEF Inv, Steps, Retire, LastTask
  <2> QED
    BY <1>0, <2>1, <2>2, <2>3, Numbers DEF Inv, Types, Amounts, WorkerPlaces, Steps
<1>4. Given'
  BY <1>0, Numbers DEF Inv, Types, Amounts, MainPlaces, WorkerPlaces, TaskTypes, RunTypes,
    Places, Steps, Given, Busy, Retire, LastTask, InBatch, workerVars, mainVars
<1>5. Ran'
  BY <1>0, Numbers DEF Inv, Types, Amounts, MainPlaces, WorkerPlaces, TaskTypes, RunTypes,
    Places, Steps, Given, Busy, Ran, Unfinished, Retire, LastTask, InBatch, InPool,
    workerVars, mainVars
<1>6. Counts'
  <2>2. BusySet' = BusySet \cup {size}
    BY <1>0, Numbers DEF Inv, Types, Amounts, MainPlaces, WorkerPlaces, TaskTypes,
      RunTypes, BusySet, Busy, Retire, LastTask
  <2>3. Cardinality(BusySet') = Cardinality(BusySet) + 1
    BY <1>0, <2>2, OneMore
  <2>4. count' = LastCounted /\ forgotten' = forgotten /\ ending' = ending
    BY DEF Retire
  <2> QED
    BY <1>0, <2>3, <2>4, BusyFinite DEF Inv, Types, Amounts, Counts
<1> QED
  BY <1>1, <1>2, <1>3, <1>4, <1>5, <1>6 DEF Inv

\* It has ended.
LEMMA JoinedKeeps ==
  ASSUME MaxThreads \in Nat \ {0}, Inv, Joined
  PROVE  Inv'
<1>0. /\ size \in Workers /\ size - 1 \in Nat /\ size - 1 <= MaxThreads - 1
      /\ forgotten' \in Nat
  <2>1. size \in Workers /\ size - 1 \in Nat /\ size - 1 <= MaxThreads - 1
    BY DEF Inv, Types, Amounts, Places, Joined, Workers
  <2>2. forgotten' \in {forgotten, forgotten + 1}
    BY DEF Joined
  <2> QED
    BY <2>1, <2>2 DEF Inv, Types, Amounts
<1>1. Types'
  <2>1. Amounts'
    BY <1>0, Numbers DEF Inv, Types, Amounts, WorkerPlaces, TaskTypes, MainPlaces,
      Joined, Dummy, workerVars, mainVars
  <2>2. MainPlaces'
    BY <1>0, Numbers DEF Inv, Types, MainPlaces, Joined, Dummy, workerVars, mainVars
  <2>3. WorkerPlaces'
    BY <1>0, Numbers DEF Inv, Types, WorkerPlaces, Amounts, Joined, Dummy, workerVars,
      mainVars
  <2>4. TaskTypes'
    BY <1>0, Numbers DEF Inv, Types, TaskTypes, Amounts, Joined, Dummy, workerVars, mainVars
  <2>5. RunTypes'
    BY <1>0, Numbers DEF Inv, Types, RunTypes, Amounts, TaskTypes, Joined, Dummy,
      workerVars, mainVars
  <2> QED
    BY <2>1, <2>2, <2>3, <2>4, <2>5 DEF Types
<1>2. Places'
  BY <1>0, Numbers DEF Inv, Types, Amounts, MainPlaces, WorkerPlaces, TaskTypes, RunTypes,
    Places, Joined, InBatch, InPool, workerVars, mainVars, Tasks
<1>3. Steps'
  BY <1>0, Numbers DEF Inv, Types, Amounts, MainPlaces, WorkerPlaces, TaskTypes, RunTypes,
    Places, Steps, Joined, workerVars, mainVars
<1>4. Given'
  BY <1>0, Numbers DEF Inv, Types, Amounts, MainPlaces, WorkerPlaces, TaskTypes, RunTypes,
    Places, Steps, Given, Busy, Joined, InBatch, workerVars, mainVars
<1>5. Ran'
  BY <1>0, Numbers DEF Inv, Types, Amounts, MainPlaces, WorkerPlaces, TaskTypes, RunTypes,
    Places, Steps, Given, Busy, Ran, Unfinished, Joined, InBatch, InPool, workerVars,
    mainVars
<1>6. Counts'
  <2>1. size \in Workers /\ (Busy(size) <=> task[size] # 0)
    BY DEF Inv, Types, Amounts, MainPlaces, WorkerPlaces, TaskTypes, RunTypes, Places,
      Busy, Joined, Workers
  <2>2. BusySet' = BusySet \ {size}
    BY <2>1, Numbers DEF Inv, Types, Amounts, MainPlaces, WorkerPlaces, TaskTypes,
      RunTypes, BusySet, Busy, Joined
  <2>3. CASE task[size] # 0
    <3>1. Cardinality(BusySet') = Cardinality(BusySet) - 1
      BY <2>1, <2>2, <2>3, OneLessBusy
    <3> QED
      BY <2>3, <3>1, BusyFinite DEF Inv, Types, Amounts, MainPlaces, WorkerPlaces,
        TaskTypes, RunTypes, Counts, Joined
  <2>4. CASE task[size] = 0
    <3>1. BusySet' = BusySet
      BY <2>1, <2>2, <2>4 DEF BusySet
    <3> QED
      BY <2>4, <3>1 DEF Inv, Types, Amounts, MainPlaces, WorkerPlaces, TaskTypes,
        RunTypes, Counts, Joined
  <2> QED
    BY <2>3, <2>4
<1> QED
  BY <1>1, <1>2, <1>3, <1>4, <1>5, <1>6 DEF Inv

\* The pool has its size.
LEMMA PooledKeeps ==
  ASSUME MaxThreads \in Nat \ {0}, Inv, Pooled
  PROVE  Inv'
<1>0. number \in Nat /\ (~ending => size = number - 1)
  BY WantedFits DEF Pooled
<1>1. Types'
  <2>1. Amounts'
    BY <1>0, Numbers DEF Inv, Types, Amounts, WorkerPlaces, TaskTypes, MainPlaces,
      Pooled, Dummy, workerVars, mainVars
  <2>2. MainPlaces'
    BY <1>0, Numbers DEF Inv, Types, MainPlaces, Pooled, Dummy, workerVars, mainVars
  <2>3. WorkerPlaces'
    BY <1>0, Numbers DEF Inv, Types, WorkerPlaces, Amounts, Pooled, Dummy, workerVars,
      mainVars
  <2>4. TaskTypes'
    BY <1>0, Numbers DEF Inv, Types, TaskTypes, Amounts, Pooled, Dummy, workerVars, mainVars
  <2>5. RunTypes'
    BY <1>0, Numbers DEF Inv, Types, RunTypes, Amounts, TaskTypes, Pooled, Dummy,
      workerVars, mainVars
  <2> QED
    BY <2>1, <2>2, <2>3, <2>4, <2>5 DEF Types
<1>2. Places'
  BY <1>0, Numbers DEF Inv, Types, Amounts, MainPlaces, WorkerPlaces, TaskTypes, RunTypes,
    Places, Pooled, InBatch, InPool, workerVars, mainVars, Tasks
<1>3. Steps'
  BY <1>0, Numbers DEF Inv, Types, Amounts, MainPlaces, WorkerPlaces, TaskTypes, RunTypes,
    Places, Steps, Pooled, workerVars, mainVars
<1>4. Given'
  BY <1>0, Numbers DEF Inv, Types, Amounts, MainPlaces, WorkerPlaces, TaskTypes, RunTypes,
    Places, Steps, Given, Busy, Pooled, InBatch, workerVars, mainVars
<1>5. Ran'
  BY <1>0, Numbers DEF Inv, Types, Amounts, MainPlaces, WorkerPlaces, TaskTypes, RunTypes,
    Places, Steps, Given, Busy, Ran, Unfinished, Pooled, InBatch, InPool, workerVars,
    mainVars
<1>6. Counts'
  <2>1. BusySet' = BusySet
    BY DEF BusySet, Busy, Pooled, workerVars
  <2> QED
    BY <2>1 DEF Inv, Counts, Pooled, mainVars
<1> QED
  BY <1>1, <1>2, <1>3, <1>4, <1>5, <1>6 DEF Inv

\* The caller runs a task itself.
LEMMA InlineKeeps ==
  ASSUME MaxThreads \in Nat \ {0}, Inv, ExecTask, Inline
  PROVE  Inv'
<1>0. /\ given + 1 \in Tasks /\ given + 1 <= taskNum /\ given \in Nat /\ taskCount >= taskNum - 1
      /\ taskCount = taskNum - 1 /\ given + 1 = taskNum
  BY DEF Inv, Types, Amounts, Places, ExecTask, Inline, InBatch, Tasks
<1>1. Types'
  <2>1. Amounts'
    BY <1>0, Numbers DEF Inv, Types, Amounts, WorkerPlaces, TaskTypes, MainPlaces,
      ExecTask, Inline, Dummy, workerVars, mainVars
  <2>2. MainPlaces'
    BY <1>0, Numbers DEF Inv, Types, MainPlaces, ExecTask, Inline, Dummy, workerVars,
      mainVars
  <2>3. WorkerPlaces'
    BY <1>0, Numbers DEF Inv, Types, WorkerPlaces, Amounts, ExecTask, Inline, Dummy,
      workerVars, mainVars
  <2>4. TaskTypes'
    BY <1>0, Numbers DEF Inv, Types, TaskTypes, Amounts, ExecTask, Inline, Dummy,
      workerVars, mainVars
  <2>5. RunTypes'
    BY <1>0, Numbers DEF Inv, Types, RunTypes, Amounts, TaskTypes, ExecTask, Inline,
      Dummy, workerVars, mainVars
  <2> QED
    BY <2>1, <2>2, <2>3, <2>4, <2>5 DEF Types
<1>2. Places'
  BY <1>0, Numbers DEF Inv, Types, Amounts, MainPlaces, WorkerPlaces, TaskTypes, RunTypes,
    Places, ExecTask, Inline, InBatch, InPool, workerVars, mainVars, Tasks
<1>3. Steps'
  BY <1>0, Numbers DEF Inv, Types, Amounts, MainPlaces, WorkerPlaces, TaskTypes, RunTypes,
    Places, Steps, ExecTask, Inline, workerVars, mainVars
<1>4. Given'
  BY <1>0, Numbers DEF Inv, Types, Amounts, MainPlaces, WorkerPlaces, TaskTypes, RunTypes,
    Places, Steps, Given, Busy, ExecTask, Inline, InBatch, workerVars, mainVars
<1>5. Ran'
  BY <1>0, Numbers DEF Inv, Types, Amounts, MainPlaces, WorkerPlaces, TaskTypes, RunTypes,
    Places, Steps, Given, Busy, Ran, Unfinished, ExecTask, Inline, InBatch, InPool,
    workerVars, mainVars
<1>6. Counts'
  <2>1. BusySet' = BusySet
    BY DEF BusySet, Busy, ExecTask, Inline
  <2>2. count' = count /\ forgotten' = forgotten /\ ending' = ending
    BY DEF ExecTask, Inline
  <2> QED
    BY <2>1, <2>2 DEF Inv, Counts
<1> QED
  BY <1>1, <1>2, <1>3, <1>4, <1>5, <1>6 DEF Inv

\* A worker gets a task.
LEMMA HandOutKeeps ==
  ASSUME MaxThreads \in Nat \ {0}, Inv, ExecTask, HandOut
  PROVE  Inv'
<1>0. /\ taskCount = given /\ given + 1 \in Workers /\ given + 1 \in Tasks /\ given + 1 < taskNum
      /\ given + 1 <= size /\ ~Busy(given + 1) /\ given \in Nat
  <2>1. /\ taskCount = given /\ given + 1 \in Workers /\ given + 1 \in Tasks /\ given + 1 < taskNum
        /\ given + 1 <= size /\ given \in Nat
    BY DEF Inv, Types, Amounts, Places, ExecTask, HandOut, InBatch, Workers, Tasks
  <2> QED
    BY <2>1 DEF Inv, Given, ExecTask, InBatch
<1>1. Types'
  <2>1. Amounts'
    BY <1>0, Numbers DEF Inv, Types, Amounts, WorkerPlaces, TaskTypes, MainPlaces,
      ExecTask, HandOut, Counted, Dummy, workerVars, mainVars
  <2>2. MainPlaces'
    BY <1>0, Numbers DEF Inv, Types, MainPlaces, ExecTask, HandOut, Counted, Dummy,
      workerVars, mainVars
  <2>3. WorkerPlaces'
    BY <1>0, Numbers DEF Inv, Types, WorkerPlaces, Amounts, ExecTask, HandOut, Counted,
      Dummy, workerVars, mainVars
  <2>4. TaskTypes'
    BY <1>0, Numbers DEF Inv, Types, TaskTypes, Amounts, ExecTask, HandOut, Counted,
      Dummy, workerVars, mainVars
  <2>5. RunTypes'
    BY <1>0, Numbers DEF Inv, Types, RunTypes, Amounts, TaskTypes, ExecTask, HandOut,
      Counted, Dummy, workerVars, mainVars
  <2> QED
    BY <2>1, <2>2, <2>3, <2>4, <2>5 DEF Types
<1>2. Places'
  BY <1>0, Numbers DEF Inv, Types, Amounts, MainPlaces, WorkerPlaces, TaskTypes, RunTypes,
    Places, ExecTask, HandOut, Counted, InBatch, InPool, workerVars, mainVars, Tasks
<1>3. Steps'
  <2>1. /\ \A w \in Workers : task'[w] = IF w = given + 1 THEN (given + 1) ELSE task[w]
        /\ at' = at /\ terminated' = terminated /\ size' = size
    BY <1>0, Numbers DEF Inv, Types, TaskTypes, ExecTask, HandOut, Counted, workerVars,
      mainVars
  <2>2. (given + 1) # 0 /\ given + 1 <= size /\ at[given + 1] # "dec"
    BY <1>0, Numbers DEF Inv, Types, Amounts, Busy
  <2>3. \A w \in Workers : w <= size /\ terminated[w] => w = size /\ main' \in {"retire", "join"}
    BY DEF Inv, Steps, ExecTask, HandOut, Counted
  <2> QED
    BY <1>0, <2>1, <2>2, <2>3, Numbers DEF Inv, Types, Amounts, WorkerPlaces, Steps
<1>4. Given'
  BY <1>0, Numbers DEF Inv, Types, Amounts, MainPlaces, WorkerPlaces, TaskTypes, RunTypes,
    Places, Steps, Given, Busy, ExecTask, HandOut, Counted, InBatch, workerVars, mainVars
<1>5. Ran'
  BY <1>0, Numbers DEF Inv, Types, Amounts, MainPlaces, WorkerPlaces, TaskTypes, RunTypes,
    Places, Steps, Given, Busy, Ran, Unfinished, ExecTask, HandOut, Counted, InBatch,
    InPool, workerVars, mainVars
<1>6. Counts'
  <2>1. BusySet' = BusySet \cup {taskCount + 1}
    BY <1>0 DEF Inv, Types, TaskTypes, WorkerPlaces, BusySet, Busy, ExecTask, HandOut
  <2>2. Cardinality(BusySet') = Cardinality(BusySet) + 1
    BY <1>0, <2>1, OneMore
  <2>3. count' = count + 1 /\ forgotten' = forgotten /\ ending' = ending
    BY DEF ExecTask, HandOut, Counted
  <2> QED
    BY <2>2, <2>3, BusyFinite DEF Inv, Types, Amounts, Counts
<1> QED
  BY <1>1, <1>2, <1>3, <1>4, <1>5, <1>6 DEF Inv

\* All tasks are given.
LEMMA EndTaskKeeps ==
  ASSUME MaxThreads \in Nat \ {0}, Inv, EndTask
  PROVE  Inv'
<1>1. Types'
  <2>1. Amounts'
    BY Numbers DEF Inv, Types, Amounts, WorkerPlaces, TaskTypes, MainPlaces, EndTask,
      Dummy, workerVars, mainVars
  <2>2. MainPlaces'
    BY Numbers DEF Inv, Types, MainPlaces, EndTask, Dummy, workerVars, mainVars
  <2>3. WorkerPlaces'
    BY Numbers DEF Inv, Types, WorkerPlaces, Amounts, EndTask, Dummy, workerVars, mainVars
  <2>4. TaskTypes'
    BY Numbers DEF Inv, Types, TaskTypes, Amounts, EndTask, Dummy, workerVars, mainVars
  <2>5. RunTypes'
    BY Numbers DEF Inv, Types, RunTypes, Amounts, TaskTypes, EndTask, Dummy, workerVars,
      mainVars
  <2> QED
    BY <2>1, <2>2, <2>3, <2>4, <2>5 DEF Types
<1>2. Places'
  BY Numbers DEF Inv, Types, Amounts, MainPlaces, WorkerPlaces, TaskTypes, RunTypes,
    Places, EndTask, InBatch, InPool, workerVars, mainVars, Tasks
<1>3. Steps'
  BY Numbers DEF Inv, Types, Amounts, MainPlaces, WorkerPlaces, TaskTypes, RunTypes,
    Places, Steps, EndTask, workerVars, mainVars
<1>4. Given'
  BY Numbers DEF Inv, Types, Amounts, MainPlaces, WorkerPlaces, TaskTypes, RunTypes,
    Places, Steps, Given, Busy, EndTask, InBatch, workerVars, mainVars
<1>5. Ran'
  BY Numbers DEF Inv, Types, Amounts, MainPlaces, WorkerPlaces, TaskTypes, RunTypes,
    Places, Steps, Given, Busy, Ran, Unfinished, EndTask, InBatch, InPool, workerVars,
    mainVars
<1>6. Counts'
  <2>1. BusySet' = BusySet
    BY DEF BusySet, Busy, EndTask, workerVars
  <2> QED
    BY <2>1 DEF Inv, Counts, EndTask, mainVars
<1> QED
  BY <1>1, <1>2, <1>3, <1>4, <1>5, <1>6 DEF Inv

\* The batch ends when nobody counts as running.
LEMMA WaitForTaskKeeps ==
  ASSUME MaxThreads \in Nat \ {0}, Inv, WaitForTask
  PROVE  Inv'
<1>0. \A w \in Workers : ~ Busy(w)
  <2>1. Cardinality(BusySet) = 0
    BY BusyFinite DEF Inv, Types, Amounts, MainPlaces, WorkerPlaces, TaskTypes,
      RunTypes, Places, Counts, WaitForTask, InBatch
  <2> QED
    BY <2>1, BusyFinite, FS_EmptySet DEF BusySet
<1>1. Types'
  <2>1. Amounts'
    BY Numbers DEF Inv, Types, Amounts, WorkerPlaces, TaskTypes, MainPlaces,
      WaitForTask, Dummy, workerVars, mainVars
  <2>2. MainPlaces'
    BY Numbers DEF Inv, Types, MainPlaces, WaitForTask, Dummy, workerVars, mainVars
  <2>3. WorkerPlaces'
    BY Numbers DEF Inv, Types, WorkerPlaces, Amounts, WaitForTask, Dummy, workerVars,
      mainVars
  <2>4. TaskTypes'
    BY Numbers DEF Inv, Types, TaskTypes, Amounts, WaitForTask, Dummy, workerVars, mainVars
  <2>5. RunTypes'
    BY Numbers DEF Inv, Types, RunTypes, Amounts, TaskTypes, WaitForTask, Dummy,
      workerVars, mainVars
  <2> QED
    BY <2>1, <2>2, <2>3, <2>4, <2>5 DEF Types
<1>2. Places'
  BY Numbers DEF Inv, Types, Amounts, MainPlaces, WorkerPlaces, TaskTypes, RunTypes,
    Places, WaitForTask, InBatch, InPool, workerVars, mainVars, Tasks
<1>3. Steps'
  BY Numbers DEF Inv, Types, Amounts, MainPlaces, WorkerPlaces, TaskTypes, RunTypes,
    Places, Steps, WaitForTask, workerVars, mainVars
<1>4. Given'
  BY <1>0, Numbers DEF Inv, Types, Amounts, MainPlaces, WorkerPlaces, TaskTypes, RunTypes,
    Places, Steps, Given, Busy, WaitForTask, InBatch, workerVars, mainVars
<1>5. Ran'
  BY <1>0, Numbers DEF Inv, Types, Amounts, MainPlaces, WorkerPlaces, TaskTypes, RunTypes,
    Places, Steps, Given, Busy, Ran, Unfinished, WaitForTask, InBatch, InPool, workerVars,
    mainVars
<1>6. Counts'
  <2>1. BusySet' = BusySet
    BY DEF BusySet, Busy, WaitForTask, workerVars
  <2> QED
    BY <2>1 DEF Inv, Counts, WaitForTask, mainVars
<1> QED
  BY <1>1, <1>2, <1>3, <1>4, <1>5, <1>6 DEF Inv

\* A worker tests whether it is to end.
LEMMA TestKeeps ==
  ASSUME MaxThreads \in Nat \ {0}, Inv, NEW w \in Workers, Test(w)
  PROVE  Inv'
<1>1. Types'
  <2>1. Amounts'
    BY Numbers DEF Inv, Types, Amounts, WorkerPlaces, TaskTypes, MainPlaces, Test,
      Dummy, workerVars, mainVars
  <2>2. MainPlaces'
    BY Numbers DEF Inv, Types, MainPlaces, Test, Dummy, workerVars, mainVars
  <2>3. WorkerPlaces'
    BY Numbers DEF Inv, Types, WorkerPlaces, Amounts, Test, Dummy, workerVars, mainVars
  <2>4. TaskTypes'
    BY Numbers DEF Inv, Types, TaskTypes, Amounts, Test, Dummy, workerVars, mainVars
  <2>5. RunTypes'
    BY Numbers DEF Inv, Types, RunTypes, Amounts, TaskTypes, Test, Dummy, workerVars,
      mainVars
  <2> QED
    BY <2>1, <2>2, <2>3, <2>4, <2>5 DEF Types
<1>2. Places'
  BY Numbers DEF Inv, Types, Amounts, MainPlaces, WorkerPlaces, TaskTypes, RunTypes,
    Places, Test, InBatch, InPool, workerVars, mainVars, Tasks
<1>3. Steps'
  BY Numbers DEF Inv, Types, Amounts, MainPlaces, WorkerPlaces, TaskTypes, RunTypes,
    Places, Steps, Test, workerVars, mainVars
<1>4. Given'
  BY Numbers DEF Inv, Types, Amounts, MainPlaces, WorkerPlaces, TaskTypes, RunTypes,
    Places, Steps, Given, Busy, Test, InBatch, workerVars, mainVars
<1>5. Ran'
  BY Numbers DEF Inv, Types, Amounts, MainPlaces, WorkerPlaces, TaskTypes, RunTypes,
    Places, Steps, Given, Busy, Ran, Unfinished, Test, InBatch, InPool, workerVars,
    mainVars
<1>6. Counts'
  <2>1. BusySet' = BusySet
    BY Numbers DEF Inv, Types, Amounts, MainPlaces, WorkerPlaces, TaskTypes, RunTypes,
      Steps, BusySet, Busy, Test
  <2> QED
    BY <2>1 DEF Inv, Counts, Test, mainVars
<1> QED
  BY <1>1, <1>2, <1>3, <1>4, <1>5, <1>6 DEF Inv

\* It finds a task.
LEMMA TakeKeeps ==
  ASSUME MaxThreads \in Nat \ {0}, Inv, NEW w \in Workers, Take(w)
  PROVE  Inv'
<1>1. Types'
  <2>1. Amounts'
    BY Numbers DEF Inv, Types, Amounts, WorkerPlaces, TaskTypes, MainPlaces, Take,
      Dummy, workerVars, mainVars
  <2>2. MainPlaces'
    BY Numbers DEF Inv, Types, MainPlaces, Take, Dummy, workerVars, mainVars
  <2>3. WorkerPlaces'
    BY Numbers DEF Inv, Types, WorkerPlaces, Amounts, Take, Dummy, workerVars, mainVars
  <2>4. TaskTypes'
    BY Numbers DEF Inv, Types, TaskTypes, Amounts, Take, Dummy, workerVars, mainVars
  <2>5. RunTypes'
    BY Numbers DEF Inv, Types, RunTypes, Amounts, TaskTypes, Take, Dummy, workerVars,
      mainVars
  <2> QED
    BY <2>1, <2>2, <2>3, <2>4, <2>5 DEF Types
<1>2. Places'
  BY Numbers DEF Inv, Types, Amounts, MainPlaces, WorkerPlaces, TaskTypes, RunTypes,
    Places, Take, InBatch, InPool, workerVars, mainVars, Tasks
<1>3. Steps'
  BY Numbers DEF Inv, Types, Amounts, MainPlaces, WorkerPlaces, TaskTypes, RunTypes,
    Places, Steps, Take, workerVars, mainVars
<1>4. Given'
  BY Numbers DEF Inv, Types, Amounts, MainPlaces, WorkerPlaces, TaskTypes, RunTypes,
    Places, Steps, Given, Busy, Take, InBatch, workerVars, mainVars
<1>5. Ran'
  BY Numbers DEF Inv, Types, Amounts, MainPlaces, WorkerPlaces, TaskTypes, RunTypes,
    Places, Steps, Given, Busy, Ran, Unfinished, Take, InBatch, InPool, workerVars,
    mainVars
<1>6. Counts'
  <2>1. BusySet' = BusySet
    BY Numbers DEF Inv, Types, Amounts, MainPlaces, WorkerPlaces, TaskTypes, RunTypes,
      Steps, BusySet, Busy, Take
  <2> QED
    BY <2>1 DEF Inv, Counts, Take, mainVars
<1> QED
  BY <1>1, <1>2, <1>3, <1>4, <1>5, <1>6 DEF Inv

\* It runs it.
LEMMA RunKeeps ==
  ASSUME MaxThreads \in Nat \ {0}, Inv, NEW w \in Workers, Run(w)
  PROVE  Inv'
<1>1. Types'
  <2>1. Amounts'
    BY Numbers DEF Inv, Types, Amounts, WorkerPlaces, TaskTypes, MainPlaces, Run, Dummy,
      workerVars, mainVars
  <2>2. MainPlaces'
    BY Numbers DEF Inv, Types, MainPlaces, Run, Dummy, workerVars, mainVars
  <2>3. WorkerPlaces'
    BY Numbers DEF Inv, Types, WorkerPlaces, Amounts, Run, Dummy, workerVars, mainVars
  <2>4. TaskTypes'
    BY Numbers DEF Inv, Types, TaskTypes, Amounts, Run, Dummy, workerVars, mainVars
  <2>5. RunTypes'
    BY Numbers DEF Inv, Types, RunTypes, Amounts, TaskTypes, Run, Dummy, workerVars,
      mainVars
  <2> QED
    BY <2>1, <2>2, <2>3, <2>4, <2>5 DEF Types
<1>2. Places'
  BY Numbers DEF Inv, Types, Amounts, MainPlaces, WorkerPlaces, TaskTypes, RunTypes,
    Places, Run, InBatch, InPool, workerVars, mainVars, Tasks
<1>3. Steps'
  BY Numbers DEF Inv, Types, Amounts, MainPlaces, WorkerPlaces, TaskTypes, RunTypes,
    Places, Steps, Run, workerVars, mainVars
<1>4. Given'
  BY Numbers DEF Inv, Types, Amounts, MainPlaces, WorkerPlaces, TaskTypes, RunTypes,
    Places, Steps, Given, Busy, Run, InBatch, workerVars, mainVars
<1>5. Ran'
  BY Numbers DEF Inv, Types, Amounts, MainPlaces, WorkerPlaces, TaskTypes, RunTypes,
    Places, Steps, Given, Busy, Ran, Unfinished, Run, InBatch, InPool, workerVars,
    mainVars
<1>6. Counts'
  <2>1. BusySet' = BusySet
    BY Numbers DEF Inv, Types, Amounts, MainPlaces, WorkerPlaces, TaskTypes, RunTypes,
      Steps, BusySet, Busy, Run
  <2> QED
    BY <2>1 DEF Inv, Counts, Run, mainVars
<1> QED
  BY <1>1, <1>2, <1>3, <1>4, <1>5, <1>6 DEF Inv

\* It clears it.
LEMMA ClearKeeps ==
  ASSUME MaxThreads \in Nat \ {0}, Inv, NEW w \in Workers, Clear(w)
  PROVE  Inv'
<1>1. Types'
  <2>1. Amounts'
    BY Numbers DEF Inv, Types, Amounts, WorkerPlaces, TaskTypes, MainPlaces, Clear,
      Dummy, workerVars, mainVars
  <2>2. MainPlaces'
    BY Numbers DEF Inv, Types, MainPlaces, Clear, Dummy, workerVars, mainVars
  <2>3. WorkerPlaces'
    BY Numbers DEF Inv, Types, WorkerPlaces, Amounts, Clear, Dummy, workerVars, mainVars
  <2>4. TaskTypes'
    BY Numbers DEF Inv, Types, TaskTypes, Amounts, Clear, Dummy, workerVars, mainVars
  <2>5. RunTypes'
    BY Numbers DEF Inv, Types, RunTypes, Amounts, TaskTypes, Clear, Dummy, workerVars,
      mainVars
  <2> QED
    BY <2>1, <2>2, <2>3, <2>4, <2>5 DEF Types
<1>2. Places'
  BY Numbers DEF Inv, Types, Amounts, MainPlaces, WorkerPlaces, TaskTypes, RunTypes,
    Places, Clear, InBatch, InPool, workerVars, mainVars, Tasks
<1>3. Steps'
  BY Numbers DEF Inv, Types, Amounts, MainPlaces, WorkerPlaces, TaskTypes, RunTypes,
    Places, Steps, Clear, workerVars, mainVars
<1>4. Given'
  BY Numbers DEF Inv, Types, Amounts, MainPlaces, WorkerPlaces, TaskTypes, RunTypes,
    Places, Steps, Given, Busy, Clear, InBatch, workerVars, mainVars
<1>5. Ran'
  BY Numbers DEF Inv, Types, Amounts, MainPlaces, WorkerPlaces, TaskTypes, RunTypes,
    Places, Steps, Given, Busy, Ran, Unfinished, Clear, InBatch, InPool, workerVars,
    mainVars
<1>6. Counts'
  <2>1. BusySet' = BusySet
    BY Numbers DEF Inv, Types, Amounts, MainPlaces, WorkerPlaces, TaskTypes, RunTypes,
      Steps, BusySet, Busy, Clear
  <2> QED
    BY <2>1 DEF Inv, Counts, Clear, mainVars
<1> QED
  BY <1>1, <1>2, <1>3, <1>4, <1>5, <1>6 DEF Inv

\* It counts itself off.
LEMMA DecCountKeeps ==
  ASSUME MaxThreads \in Nat \ {0}, Inv, NEW w \in Workers, DecCount(w)
  PROVE  Inv'
<1>1. Types'
  <2>1. Amounts'
    BY Numbers DEF Inv, Types, Amounts, WorkerPlaces, TaskTypes, MainPlaces, DecCount,
      Dummy, workerVars, mainVars
  <2>2. MainPlaces'
    BY Numbers DEF Inv, Types, MainPlaces, DecCount, Dummy, workerVars, mainVars
  <2>3. WorkerPlaces'
    BY Numbers DEF Inv, Types, WorkerPlaces, Amounts, DecCount, Dummy, workerVars, mainVars
  <2>4. TaskTypes'
    BY Numbers DEF Inv, Types, TaskTypes, Amounts, DecCount, Dummy, workerVars, mainVars
  <2>5. RunTypes'
    BY Numbers DEF Inv, Types, RunTypes, Amounts, TaskTypes, DecCount, Dummy,
      workerVars, mainVars
  <2> QED
    BY <2>1, <2>2, <2>3, <2>4, <2>5 DEF Types
<1>2. Places'
  BY Numbers DEF Inv, Types, Amounts, MainPlaces, WorkerPlaces, TaskTypes, RunTypes,
    Places, DecCount, InBatch, InPool, workerVars, mainVars, Tasks
<1>3. Steps'
  BY Numbers DEF Inv, Types, Amounts, MainPlaces, WorkerPlaces, TaskTypes, RunTypes,
    Places, Steps, DecCount, workerVars, mainVars
<1>4. Given'
  BY Numbers DEF Inv, Types, Amounts, MainPlaces, WorkerPlaces, TaskTypes, RunTypes,
    Places, Steps, Given, Busy, DecCount, InBatch, workerVars, mainVars
<1>5. Ran'
  BY Numbers DEF Inv, Types, Amounts, MainPlaces, WorkerPlaces, TaskTypes, RunTypes,
    Places, Steps, Given, Busy, Ran, Unfinished, DecCount, InBatch, InPool, workerVars,
    mainVars
<1>6. Counts'
  <2>1. Busy(w) /\ task[w] = 0
    BY DEF Inv, Steps, Busy, DecCount
  <2>2. BusySet' = BusySet \ {w}
    BY <2>1 DEF Inv, Types, Amounts, MainPlaces, WorkerPlaces, TaskTypes, RunTypes,
      BusySet, Busy, DecCount
  <2>3. Cardinality(BusySet') = Cardinality(BusySet) - 1
    BY <2>1, <2>2, OneLessBusy
  <2> QED
    BY <2>3, BusyFinite DEF Inv, Types, Amounts, MainPlaces, WorkerPlaces, TaskTypes,
      RunTypes, Counts, DecCount, mainVars
<1> QED
  BY <1>1, <1>2, <1>3, <1>4, <1>5, <1>6 DEF Inv

\* Nothing happens.
LEMMA StutterKeeps == ASSUME Inv, UNCHANGED vars PROVE Inv'
BY DEF Inv, Types, Amounts, MainPlaces, WorkerPlaces, TaskTypes, RunTypes, Places, Steps,
  Given, Ran, Counts, BusySet, Busy, Unfinished, InBatch, InPool,
  vars, mainVars, workerVars

\* The invariant is inductive.
LEMMA StepKeeps == ASSUME MaxThreads \in Nat \ {0}, Inv, [Next]_vars PROVE Inv'
<1>1. CASE Pool
  <2>1. CASE Grow
    BY <2>1, GrowKeeps
  <2>2. CASE Shrink
    BY <2>2, ShrinkKeeps
  <2>3. CASE Retire
    BY <2>3, RetireKeeps
  <2>4. CASE Joined
    BY <2>4, JoinedKeeps
  <2>5. CASE Pooled
    BY <2>5, PooledKeeps
  <2>6. CASE ExecTask
    <3>1. Inline \/ HandOut
      BY <2>6 DEF ExecTask
    <3> QED
      BY <2>6, <3>1, InlineKeeps, HandOutKeeps
  <2>7. CASE EndTask
    BY <2>7, EndTaskKeeps
  <2>8. CASE WaitForTask
    BY <2>8, WaitForTaskKeeps
  <2> QED
    BY <1>1, <2>1, <2>2, <2>3, <2>4, <2>5, <2>6, <2>7, <2>8 DEF Pool
<1>2. CASE Script
  BY <1>2, SetNumberKeeps, BeginTaskKeeps, DestroyKeeps DEF Script
<1>3. CASE Work
  BY <1>3, TestKeeps, TakeKeeps, RunKeeps, ClearKeeps, DecCountKeeps DEF Work, Execute
<1> QED
  BY <1>1, <1>2, <1>3, StutterKeeps DEF Next

\* And it holds what the checks ask for.
LEMMA Holds == ASSUME MaxThreads \in Nat \ {0}, Inv PROVE BatchWhole /\ WorkerExists /\ CountExact
<1>1. BatchWhole
  BY Numbers DEF Inv, Types, Amounts, MainPlaces, WorkerPlaces, TaskTypes, RunTypes,
    Places, Given, Ran, BatchWhole, InBatch
<1>2. WorkerExists
  BY DEF Inv, Types, Amounts, MainPlaces, WorkerPlaces, TaskTypes, RunTypes, Places,
    Given, WorkerExists, InBatch, Workers, Tasks
<1>3. CountExact
  BY DEF Inv, Counts, CountExact, BusySet
<1> QED
  BY <1>1, <1>2, <1>3

-----------------------------------------------------------------------------
\* When a function that draws returns, each task of its batch was run once
\* and no worker has anything left to do (BatchWhole); a task is only given
\* to a worker that is there and idle (WorkerExists); and the count is that
\* of the busy workers and of those that were ended too early (CountExact):
\* for any number of threads.
THEOREM BatchesAreDone ==
  ASSUME MaxThreads \in Nat \ {0}
  PROVE  Spec => [](BatchWhole /\ WorkerExists /\ CountExact)
<1>1. Init => Inv
  BY Starts
<1>2. Inv /\ [Next]_vars => Inv'
  BY StepKeeps
<1>3. Inv => BatchWhole /\ WorkerExists /\ CountExact
  BY Holds
<1> QED
  BY <1>1, <1>2, <1>3, PTL DEF Spec
=============================================================================
