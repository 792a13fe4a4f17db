----------------------------- MODULE HThreadPool -----------------------------
(***************************************************************************)
(* base/hthreadpool.h: worker threads that take tasks from a queue under a *)
(* mutex and a condition variable. One thread, the owner, calls start,     *)
(* stop, pause, resume and wait; others call commit. status and idle_num   *)
(* are atomics that are read and written without the mutex.                *)
(***************************************************************************)
EXTENDS Integers, Sequences, FiniteSets

CONSTANTS
    Tasks,       \* tasks, each committed once
    Clients,     \* threads that call commit
    pool_size,
    MaxStarts    \* bound: calls of start that start threads

NoTask == "none"      \* a Task that was not assigned

ASSUME PoolAssumption ==
    /\ pool_size \in Nat \ {0}
    /\ MaxStarts \in Nat \ {0}
    /\ IsFiniteSet(Tasks) /\ NoTask \notin Tasks

\* The vector of worker threads: those of the n-th start are <<n, 1>>, ...
Workers == (1..MaxStarts) \X (1..pool_size)

Free == <<0, 0>>      \* the mutex, held by no worker

VARIABLES
    status,     \* "STOP", "RUNNING" or "PAUSE"
    idle_num,
    tasks,
    holder,     \* of _mutex: a worker, or Free
    pc,         \* per worker, where its thread is
    task,       \* per worker, the task it took
    client,     \* per client: before commit, or before notify_one
    owner,      \* what the owner is doing
    starts,     \* threads started so far, in units of pool_size
    committed, done,    \* history: tasks committed, tasks run
    before,     \* history: tasks committed when the owner called wait
    promised    \* history: those a wait that returned vouches for

pool == <<status, idle_num, tasks, holder>>
threads == <<pc, task>>
calls == <<client, owner, starts>>
history == <<committed, done, before, promised>>
vars == <<pool, threads, calls, history>>

Init ==
    /\ status = "STOP"
    /\ idle_num = pool_size
    /\ tasks = <<>>
    /\ holder = Free
    /\ pc = [w \in Workers |-> "none"]
    /\ task = [w \in Workers |-> NoTask]
    /\ client = [c \in Clients |-> "ready"]
    /\ owner = "ready"
    /\ starts = 0
    /\ committed = {} /\ done = {} /\ before = {} /\ promised = {}

\* No thread runs after an exception that nothing catches.
Alive == owner # "threw"

Go(w, from, to) == Alive /\ pc[w] = from /\ pc' = [pc EXCEPT ![w] = to]
-----------------------------------------------------------------------------
(* The worker's loop *)

\* while (status != STOP)
Loop(w) ==
    /\ Go(w, "loop", IF status = "STOP" THEN "exited" ELSE "paused")
    /\ UNCHANGED <<pool, task, calls, history>>

\* while (status == PAUSE) yield()
Paused(w) ==
    /\ status # "PAUSE"
    /\ Go(w, "paused", "lock")
    /\ UNCHANGED <<pool, task, calls, history>>

Lock(w) ==
    /\ holder = Free
    /\ holder' = w
    /\ Go(w, "lock", "test")
    /\ UNCHANGED <<status, idle_num, tasks, task, calls, history>>

\* Mutant: the wait has no condition.
TestNothing(w) ==
    /\ Go(w, "test", "take")
    /\ UNCHANGED <<pool, task, calls, history>>

\* The condition of _cond.wait, evaluated with the mutex held.
Test(w) ==
    /\ Go(w, "test", IF status = "STOP" \/ tasks # <<>> THEN "take" ELSE "block")
    /\ UNCHANGED <<pool, task, calls, history>>

\* The mutex is released and the thread blocks, in one step.
Block(w) ==
    /\ Go(w, "block", "blocked")
    /\ holder' = Free
    /\ UNCHANGED <<status, idle_num, tasks, task, calls, history>>

\* A condition variable may wake its waiter without being notified.
Spurious(w) ==
    /\ Go(w, "blocked", "lock")
    /\ UNCHANGED <<pool, task, calls, history>>

\* if (status == STOP) return, and if (!tasks.empty()) --idle_num; otherwise the
\* thread goes on with an empty task.
TakeOrReturn(w) ==
    LET takes == status # "STOP" /\ tasks # <<>>
    IN  /\ Go(w, "take", IF status = "STOP" THEN "exited" ELSE IF takes THEN "pop" ELSE "run")
        /\ holder' = IF takes THEN holder ELSE Free
        /\ idle_num' = IF takes THEN idle_num - 1 ELSE idle_num
        /\ UNCHANGED <<status, tasks, task, calls, history>>

\* Mutant: the mutex is not released before the task is called.
PopKeepsMutex(w) ==
    /\ tasks # <<>>
    /\ Go(w, "pop", "run")
    /\ task' = [task EXCEPT ![w] = Head(tasks)]
    /\ tasks' = Tail(tasks)
    /\ UNCHANGED <<status, idle_num, holder, calls, history>>

Pop(w) ==
    /\ tasks # <<>>
    /\ Go(w, "pop", "run")
    /\ task' = [task EXCEPT ![w] = Head(tasks)]
    /\ tasks' = Tail(tasks)
    /\ holder' = Free
    /\ UNCHANGED <<status, idle_num, calls, history>>

\* task(): calling an empty one throws, and nothing catches it.
Run(w) ==
    /\ Go(w, "run", "ran")
    /\ IF task[w] = NoTask
         THEN owner' = "threw" /\ UNCHANGED done
         ELSE done' = done \cup {task[w]} /\ UNCHANGED owner
    /\ task' = [task EXCEPT ![w] = NoTask]
    /\ UNCHANGED <<pool, client, starts, committed, before, promised>>

\* Mutant: idle_num is not incremented for a pool that was stopped meanwhile.
RanUnlessStopped(w) ==
    /\ Go(w, "ran", "loop")
    /\ idle_num' = IF status = "STOP" THEN idle_num ELSE idle_num + 1
    /\ UNCHANGED <<status, tasks, holder, task, calls, history>>

Ran(w) ==
    /\ Go(w, "ran", "loop")
    /\ idle_num' = idle_num + 1
    /\ UNCHANGED <<status, tasks, holder, task, calls, history>>
-----------------------------------------------------------------------------
(* commit *)

Commit(c, t) ==
    /\ Alive /\ client[c] = "ready"
    /\ t \notin committed
    /\ holder = Free
    /\ tasks' = Append(tasks, t)
    /\ client' = [client EXCEPT ![c] = "notify"]
    /\ committed' = committed \cup {t}
    /\ UNCHANGED <<status, idle_num, holder, threads, owner, starts, done, before, promised>>

Blocked == {w \in Workers : pc[w] = "blocked"}

\* Mutant: a task that is alone in the queue wakes nobody.
NotifyIfMore(c) ==
    /\ Alive /\ client[c] = "notify"
    /\ client' = [client EXCEPT ![c] = "ready"]
    /\ IF Blocked = {} \/ Len(tasks) = 1
       THEN UNCHANGED pc
       ELSE \E w \in Blocked : pc' = [pc EXCEPT ![w] = "lock"]
    /\ UNCHANGED <<pool, task, owner, starts, history>>

NotifyOne(c) ==
    /\ Alive /\ client[c] = "notify"
    /\ client' = [client EXCEPT ![c] = "ready"]
    /\ IF Blocked = {} THEN UNCHANGED pc ELSE \E w \in Blocked : pc' = [pc EXCEPT ![w] = "lock"]
    /\ UNCHANGED <<pool, task, owner, starts, history>>
-----------------------------------------------------------------------------
(* The owner *)

Start ==
    /\ owner = "ready"
    /\ status = "STOP"
    /\ starts < MaxStarts
    /\ status' = "RUNNING"
    /\ starts' = starts + 1
    /\ pc' = [w \in Workers |-> IF w[1] = starts + 1 THEN "loop" ELSE pc[w]]
    /\ UNCHANGED <<idle_num, tasks, holder, task, client, owner, history>>

\* status = STOP, without the mutex.
StopSet ==
    /\ owner = "ready"
    /\ status # "STOP"
    /\ status' = "STOP"
    /\ owner' = "notify"
    /\ UNCHANGED <<idle_num, tasks, holder, threads, client, starts, history>>

StopNotify ==
    /\ owner = "notify"
    /\ pc' = [w \in Workers |-> IF w \in Blocked THEN "lock" ELSE pc[w]]
    /\ owner' = "join"
    /\ UNCHANGED <<pool, task, client, starts, history>>

\* The threads of an earlier start are still in the vector and not joinable:
\* join throws, and nothing catches it.
StopJoin ==
    /\ owner = "join"
    /\ \/ starts = 1 /\ (\A i \in 1..pool_size : pc[<<1, i>>] = "exited") /\ owner' = "ready"
       \/ starts > 1 /\ owner' = "threw"
    /\ UNCHANGED <<pool, threads, client, starts, history>>

PauseResume ==
    /\ owner = "ready"
    /\ \/ status = "RUNNING" /\ status' = "PAUSE"
       \/ status = "PAUSE" /\ status' = "RUNNING"
    /\ UNCHANGED <<idle_num, tasks, holder, threads, calls, history>>

\* wait returns at once if the pool is stopped.
WaitEnter ==
    /\ owner = "ready"
    /\ status # "STOP"
    /\ owner' = "empty?"
    /\ before' = committed
    /\ UNCHANGED <<pool, threads, client, starts, committed, done, promised>>

\* tasks.empty(), read without the mutex: while it is not, wait yields.
WaitEmpty ==
    /\ owner = "empty?"
    /\ tasks = <<>>
    /\ owner' = "idle?"
    /\ UNCHANGED <<pool, threads, client, starts, history>>

\* Mutant: wait looks at the queue only.
WaitIgnoresIdle ==
    /\ owner = "idle?"
    /\ owner' = "ready"
    /\ promised' = before
    /\ UNCHANGED <<pool, threads, client, starts, committed, done, before>>

\* idle_num == pool_size, read after it.
WaitIdle ==
    /\ owner = "idle?"
    /\ owner' = IF idle_num = pool_size THEN "ready" ELSE "empty?"
    /\ promised' = IF idle_num = pool_size THEN before ELSE promised
    /\ UNCHANGED <<pool, threads, client, starts, committed, done, before>>
-----------------------------------------------------------------------------
WorkerStep(w) ==
    \/ Loop(w) \/ Paused(w) \/ Lock(w) \/ Test(w) \/ Block(w)
    \/ TakeOrReturn(w) \/ Pop(w) \/ Run(w) \/ Ran(w)

OwnerCall == Start \/ StopSet \/ PauseResume \/ WaitEnter
OwnerStep == StopNotify \/ StopJoin \/ WaitEmpty \/ WaitIdle

Next ==
    \/ \E w \in Workers : WorkerStep(w) \/ Spurious(w)
    \/ \E c \in Clients, t \in Tasks : Commit(c, t)
    \/ \E c \in Clients : NotifyOne(c)
    \/ OwnerCall
    \/ OwnerStep

Spec == Init /\ [][Next]_vars

\* Every thread is scheduled, and a free mutex is not withheld from one for
\* ever. The owner and the clients need not call anything.
Fairness ==
    /\ \A w \in Workers : SF_vars(WorkerStep(w))
    /\ \A c \in Clients : WF_vars(NotifyOne(c))
    /\ WF_vars(OwnerStep)

FairSpec == Spec /\ Fairness
-----------------------------------------------------------------------------
(***************************************************************************)
(* Properties                                                              *)
(***************************************************************************)
\* Type invariant of the pool, its threads and its callers.
TypeOK ==
    /\ status \in {"STOP", "RUNNING", "PAUSE"}
    /\ idle_num \in 0..pool_size
    /\ tasks \in Seq(Tasks)
    /\ holder \in Workers \cup {Free}
    /\ pc \in [Workers -> {"none", "loop", "paused", "lock", "test", "block", "blocked",
                           "take", "pop", "run", "ran", "exited"}]
    /\ task \in [Workers -> Tasks \cup {NoTask}]
    /\ client \in [Clients -> {"ready", "notify"}]
    /\ owner \in {"ready", "notify", "join", "threw", "empty?", "idle?"}
    /\ starts \in 0..MaxStarts

\* No empty Task is ever called, although status changes without the mutex
\* between the condition of _cond.wait and the tests after it: a thread that
\* passes them finds a task in the queue.
TaskThere ==
    \A w \in Workers :
        /\ pc[w] = "pop" => tasks # <<>>
        /\ pc[w] = "run" => task[w] # NoTask

\* idle_num counts the threads that are not busy with a task, through stop,
\* restart and pause.
Busy == {w \in Workers : pc[w] \in {"pop", "run", "ran"}}
IdleCount == idle_num + Cardinality(Busy) = pool_size

\* When wait returns from a pool that is not stopped, every task committed
\* before the call has run, although wait reads tasks and idle_num one after the
\* other and without the mutex.
WaitMeansDone == promised \subseteq done

\* The places of a thread that will look at the queue again without a
\* notification.
Active == {"loop", "paused", "lock", "test", "take", "pop", "run", "ran"}

\* A queued task of a pool that is not stopped is never left to blocked threads:
\* a thread is on its way to the queue, or a commit is about to notify one,
\* although commit notifies only one and after it has unlocked the mutex.
NoWakeupLost ==
    tasks # <<>> /\ status # "STOP" =>
        \/ \E w \in Workers : pc[w] \in Active
        \/ \E c \in Clients : client[c] = "notify"

\* No wake-up of commit is lost: a queued task is taken in the end, unless the
\* pool is paused or stopped.
TaskIsTaken ==
    \A t \in Tasks :
        (\E i \in DOMAIN tasks : tasks[i] = t)
            ~> (status # "RUNNING" \/ ~\E i \in DOMAIN tasks : tasks[i] = t)

=============================================================================
