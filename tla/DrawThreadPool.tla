---------------------------- MODULE DrawThreadPool ----------------------------
(***************************************************************************)
(* The threads that draw, DrawThreadPool of ThreadIntf.cpp.  A function    *)
(* that draws begins a batch of tasks, hands out each but the last to a    *)
(* worker of its own, runs the last itself and waits until no worker       *)
(* counts as running.  When the script changed System.drawThreadNum the    *)
(* pool grows or shrinks at the beginning of the next batch, and it is     *)
(* emptied when the program ends.                                          *)
(***************************************************************************)
EXTENDS Integers, FiniteSets

CONSTANT MaxThreads   \* TVPMaxThreadNum

Workers == 1 .. MaxThreads - 1
Tasks == 1 .. MaxThreads

VARIABLES
  number,      \* TVPGetThreadNum()
  main,        \* where the main thread is
  ending,      \* the pool is being destroyed
  size,        \* workers.size()
  at,          \* of a worker: where Execute is
  task,        \* of a worker: lpStartAddress with its parameter; 0 is null, Dummy DummyThreadTask
  terminated,  \* of a worker: Terminated
  count,       \* running_thread_count
  taskNum, taskCount,
  given,       \* tasks of the batch the caller has passed to ExecTask
  runs,        \* history: how often a task of the batch was run
  forgotten    \* history: workers that ended without their last task

mainVars == <<number, main, ending, size, taskNum, taskCount, given>>
workerVars == <<at, task, terminated>>
vars == <<mainVars, workerVars, count, runs, forgotten>>

Dummy == MaxThreads + 1

TypeOK ==
  /\ number \in Tasks /\ main \in {"script", "pool", "retire", "join", "exec", "wait", "ended"}
  /\ ending \in BOOLEAN /\ size \in 0 .. MaxThreads - 1
  /\ at \in [Workers -> {"test", "wait", "run", "clear", "dec", "gone"}]
  /\ task \in [Workers -> 0 .. Dummy] /\ terminated \in [Workers -> BOOLEAN]
  /\ count \in Int /\ taskNum \in 0 .. MaxThreads
  /\ taskCount \in 0 .. MaxThreads /\ given \in 0 .. MaxThreads
  /\ runs \in [Tasks -> Nat] /\ forgotten \in Nat

Init ==
  /\ number = 1 /\ main = "script" /\ ending = FALSE /\ size = 0
  /\ at = [w \in Workers |-> "gone"] /\ task = [w \in Workers |-> 0]
  /\ terminated = [w \in Workers |-> FALSE]
  /\ count = 0 /\ taskNum = 0 /\ taskCount = 0 /\ given = 0
  /\ runs = [t \in Tasks |-> 0] /\ forgotten = 0

-----------------------------------------------------------------------------
(* The main thread.                                                        *)
SetNumber(n) ==
  /\ main = "script" /\ number' = n
  /\ UNCHANGED <<main, ending, size, taskNum, taskCount, given, workerVars, count, runs, forgotten>>

\* BeginTask; a small area is one task (GetAdaptiveThreadNum).
BeginTask(n) ==
  /\ main = "script" /\ main' = "pool"
  /\ taskNum' = n /\ taskCount' = 0
  /\ given' = 0 /\ runs' = [t \in Tasks |-> 0]
  /\ UNCHANGED <<number, ending, size, workerVars, count, forgotten>>

\* The destructor, when the program ends.
Destroy ==
  /\ main = "script" /\ main' = "pool" /\ ending' = TRUE
  /\ UNCHANGED <<number, size, taskNum, taskCount, given, workerVars, count, runs, forgotten>>

\* Fault: a worker too few.
OneLess == IF ending \/ number = 1 THEN 0 ELSE number - 2
Wanted == IF ending THEN 0 ELSE number - 1

\* StartTread returns when the thread has started.
Grow ==
  /\ main = "pool" /\ size < Wanted
  /\ size' = size + 1
  /\ at' = [at EXCEPT ![size + 1] = "test"] /\ task' = [task EXCEPT ![size + 1] = 0]
  /\ terminated' = [terminated EXCEPT ![size + 1] = FALSE]
  /\ UNCHANGED <<number, main, ending, taskNum, taskCount, given, count, runs, forgotten>>

\* PoolThread ends workers from the back; the destructor, which deletes them
\* all, does not count them.
Shrink ==
  /\ main = "pool" /\ size > Wanted /\ main' = "retire"
  /\ terminated' = [terminated EXCEPT ![size] = TRUE]
  /\ UNCHANGED <<number, ending, size, taskNum, taskCount, given, at, task, count, runs, forgotten>>

\* Fault: a thread that waits is not woken.
NoTask == 0
LastTask == Dummy

\* Fault: the last task is not counted.
Uncounted == count
LastCounted == IF ending THEN count ELSE count + 1

Retire ==
  /\ main = "retire" /\ main' = "join"
  /\ count' = LastCounted
  /\ task' = [task EXCEPT ![size] = LastTask]
  /\ UNCHANGED <<number, ending, size, taskNum, taskCount, given, at, terminated, runs, forgotten>>

\* WaitFor returned: the worker is deleted.
Joined ==
  /\ main = "join" /\ at[size] = "gone" /\ main' = "pool"
  /\ forgotten' = IF task[size] # 0 /\ ~ending THEN forgotten + 1 ELSE forgotten
  /\ task' = [task EXCEPT ![size] = 0] /\ size' = size - 1
  /\ UNCHANGED <<number, ending, taskNum, taskCount, given, at, terminated, count, runs>>

Pooled ==
  /\ main = "pool" /\ size = Wanted
  /\ main' = IF ending THEN "ended" ELSE "exec"
  /\ UNCHANGED <<number, ending, size, taskNum, taskCount, given, workerVars, count, runs, forgotten>>

\* ExecTask for the next task of the batch.
Inline ==
  /\ taskCount >= taskNum - 1
  /\ runs' = [runs EXCEPT ![given + 1] = @ + 1]
  /\ UNCHANGED <<taskCount, task, count>>

\* Fault: the worker is not counted before it has its task.
NotCounted == count
Counted == count + 1

HandOut ==
  /\ taskCount < taskNum - 1
  /\ count' = Counted
  /\ taskCount' = taskCount + 1 /\ task' = [task EXCEPT ![taskCount + 1] = given + 1]
  /\ UNCHANGED runs

ExecTask ==
  /\ main = "exec" /\ given < taskNum /\ given' = given + 1
  /\ Inline \/ HandOut
  /\ UNCHANGED <<number, main, ending, size, taskNum, at, terminated, forgotten>>

EndTask ==
  /\ main = "exec" /\ given = taskNum /\ main' = "wait"
  /\ UNCHANGED <<number, ending, size, taskNum, taskCount, given, workerVars, count, runs, forgotten>>

\* WaitForTask turns in a loop until then.
WaitForTask ==
  /\ main = "wait" /\ count = 0 /\ main' = "script"
  /\ UNCHANGED <<number, ending, size, taskNum, taskCount, given, workerVars, count, runs, forgotten>>

-----------------------------------------------------------------------------
(* Execute of a worker.  The address is cleared without the lock.          *)
Test(w) ==
  /\ at[w] = "test" /\ at' = [at EXCEPT ![w] = IF terminated[w] THEN "gone" ELSE "wait"]
  /\ UNCHANGED <<mainVars, task, terminated, count, runs, forgotten>>

Take(w) ==
  /\ at[w] = "wait" /\ task[w] # 0 /\ at' = [at EXCEPT ![w] = "run"]
  /\ UNCHANGED <<mainVars, task, terminated, count, runs, forgotten>>

Run(w) ==
  /\ at[w] = "run" /\ at' = [at EXCEPT ![w] = "clear"]
  /\ runs' = IF task[w] \in Tasks THEN [runs EXCEPT ![task[w]] = @ + 1] ELSE runs
  /\ UNCHANGED <<mainVars, task, terminated, count, forgotten>>

Clear(w) ==
  /\ at[w] = "clear" /\ at' = [at EXCEPT ![w] = "dec"] /\ task' = [task EXCEPT ![w] = 0]
  /\ UNCHANGED <<mainVars, terminated, count, runs, forgotten>>

DecCount(w) ==
  /\ at[w] = "dec" /\ at' = [at EXCEPT ![w] = "test"] /\ count' = count - 1
  /\ UNCHANGED <<mainVars, task, terminated, runs, forgotten>>

Execute(w) == Test(w) \/ Take(w) \/ Run(w) \/ Clear(w) \/ DecCount(w)

\* The main thread inside the functions of the pool.
Pool == Grow \/ Shrink \/ Retire \/ Joined \/ Pooled \/ ExecTask \/ EndTask \/ WaitForTask
Script ==
  \/ \E n \in Tasks : SetNumber(n)
  \/ \E n \in {1, number} : BeginTask(n)
  \/ Destroy
Work == \E w \in Workers : Execute(w)
Next == Pool \/ Script \/ Work

Spec == Init /\ [][Next]_vars
Fairness == WF_vars(Pool) /\ \A w \in Workers : WF_vars(Execute(w))
-----------------------------------------------------------------------------
\* A worker that has a task it has not finished.
Busy(w) == task[w] # 0 \/ at[w] = "dec"

\* When a function that draws returns, each of its tasks was run once, none
\* is left with a worker, and no worker touches the picture any more
\* (WaitForTask, ThreadIntf.cpp:419-434), although workers clear their task
\* without the lock and the count is apart from the tasks; and until then no
\* task is run twice.
BatchWhole ==
  /\ \A t \in Tasks : runs[t] <= 1
  /\ main = "script" =>
       /\ \A w \in Workers : ~Busy(w)
       /\ \A t \in Tasks : runs[t] = IF t <= given THEN 1 ELSE 0

\* A worker takes one task of a batch at most, and is one of the pool
\* (ThreadIntf.cpp:409, where the vector is indexed by the count of tasks).
WorkerExists ==
  main = "exec" /\ given < taskNum /\ taskCount < taskNum - 1 =>
    taskCount < size /\ ~Busy(taskCount + 1)

\* running_thread_count is the number of busy workers, and of those that were
\* ended before they took their last task.  One of these is enough to keep
\* WaitForTask waiting: a worker tests Terminated after it has counted itself
\* off, and when System.drawThreadNum is lowered right after a batch, it may
\* end there (ThreadIntf.cpp:439-448).
CountExact ==
  ~ending => count = Cardinality({w \in Workers : Busy(w)}) + forgotten

\* A batch comes to its end, as long as no worker was ended that way, and the
\* pool can always be destroyed.
BatchEnds ==
  main \notin {"script", "ended"} ~> (main \in {"script", "ended"} \/ (main = "wait" /\ forgotten > 0))
=============================================================================
