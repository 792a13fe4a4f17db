-------------------------- MODULE HThreadPoolProofs --------------------------
(***************************************************************************)
(* Proofs about the thread pool, for every number of threads, starts,      *)
(* clients and tasks.                                                      *)
(***************************************************************************)
EXTENDS HThreadPool, FiniteSetTheorems, TLAPS

\* The places of a thread that holds the mutex.
Inside == {"test", "block", "take", "pop"}

Places == {"none", "loop", "paused", "lock", "test", "block", "blocked",
           "take", "pop", "run", "ran", "exited"}

\* The type invariant without the bounds of idle_num, which follow from
\* IdleCount, and with the history.
Types ==
    /\ status \in {"STOP", "RUNNING", "PAUSE"}
    /\ idle_num \in Int
    /\ tasks \in Seq(Tasks)
    /\ holder \in Workers \cup {Free}
    /\ pc \in [Workers -> Places]
    /\ task \in [Workers -> Tasks \cup {NoTask}]
    /\ client \in [Clients -> {"ready", "notify"}]
    /\ owner \in {"ready", "notify", "join", "threw", "empty?", "idle?"}
    /\ starts \in 0..MaxStarts

\* Mutual exclusion.
Mutex == \A w \in Workers : pc[w] \in Inside => holder = w

\* Only threads of the last start are active, and none of a stopped pool.
Quiet ==
    /\ \A w \in Workers : w[1] > starts => pc[w] = "none"
    /\ \A w \in Workers : pc[w] \notin {"none", "exited"} => w[1] = starts
    /\ status = "STOP" /\ owner = "ready" =>
          \A w \in Workers : pc[w] \in {"none", "exited"}
    /\ owner \in {"notify", "join", "threw"} => status = "STOP"
    /\ owner \in {"empty?", "idle?"} => status # "STOP"

\* A thread whose condition held, in a pool that is not stopped, has a task.
Ready ==
    /\ \A w \in Workers : pc[w] = "take" /\ status # "STOP" => tasks # <<>>
    /\ TaskThere

LEMMA WorkerShape ==
  ASSUME NEW w \in Workers
  PROVE  /\ w = <<w[1], w[2]>>
         /\ w[1] \in 1..MaxStarts /\ w[2] \in 1..pool_size
         /\ w # Free
BY PoolAssumption DEF Workers, Free

LEMMA TypesNext == Types /\ [Next]_vars => Types'
<1> SUFFICES ASSUME Types, [Next]_vars PROVE Types'
  OBVIOUS
<1> USE PoolAssumption DEF Types, Places, pool, threads, calls, history, Go
<1>1. ASSUME NEW w \in Workers, WorkerStep(w) \/ Spurious(w) PROVE Types'
  <2>1. CASE Loop(w)
    BY <2>1 DEF Loop
  <2>2. CASE Paused(w)
    BY <2>2 DEF Paused
  <2>3. CASE Lock(w)
    BY <2>3 DEF Lock
  <2>4. CASE Test(w)
    BY <2>4 DEF Test
  <2>5. CASE Block(w)
    BY <2>5 DEF Block
  <2>6. CASE Spurious(w)
    BY <2>6 DEF Spurious
  <2>7. CASE TakeOrReturn(w)
    BY <2>7 DEF TakeOrReturn
  <2>8. CASE Pop(w)
    BY <2>8 DEF Pop
  <2>9. CASE Run(w)
    BY <2>9 DEF Run
  <2>10. CASE Ran(w)
    BY <2>10 DEF Ran
  <2> QED
    BY <1>1, <2>1, <2>2, <2>3, <2>4, <2>5, <2>6, <2>7, <2>8, <2>9, <2>10 DEF WorkerStep
<1>2. ASSUME NEW c \in Clients, NEW t \in Tasks, Commit(c, t) PROVE Types'
  BY <1>2 DEF Commit
<1>3. ASSUME NEW c \in Clients, NotifyOne(c) PROVE Types'
  BY <1>3 DEF NotifyOne, Blocked
<1>4. CASE OwnerCall
  BY <1>4 DEF OwnerCall, Start, StopSet, PauseResume, WaitEnter
<1>5. CASE OwnerStep
  BY <1>5 DEF OwnerStep, StopNotify, StopJoin, WaitEmpty, WaitIdle
<1>6. CASE UNCHANGED vars
  BY <1>6 DEF vars
<1> QED
  BY <1>1, <1>2, <1>3, <1>4, <1>5, <1>6 DEF Next

Running(t) == \E w \in Workers : pc[w] = "run" /\ task[w] = t

InQueue(t) == \E i \in DOMAIN tasks : tasks[i] = t

\* No task is lost: it is queued, taken or done.
Accounted == \A t \in committed : t \in done \/ Running(t) \/ InQueue(t)

\* Once wait has seen the queue empty, the tasks it waits for are taken or done.
Vouched ==
    /\ before \subseteq committed
    /\ owner = "idle?" => \A t \in before : t \in done \/ Running(t)

IInv ==
    /\ Types /\ Mutex /\ Quiet /\ Ready
    /\ Accounted /\ Vouched /\ IdleCount /\ WaitMeansDone

LEMMA WorkersFinite == IsFiniteSet(Workers)
<1>1. IsFiniteSet(1..MaxStarts) /\ IsFiniteSet(1..pool_size)
  BY FS_Interval, PoolAssumption
<1> QED
  BY <1>1, FS_Product DEF Workers

LEMMA BusyFinite == IsFiniteSet(Busy) /\ Cardinality(Busy) \in Nat
<1>1. IsFiniteSet(Busy)
  BY WorkersFinite, FS_Subset DEF Busy
<1> QED
  BY <1>1, FS_CardinalityType

LEMMA InitIInv == Init => IInv
<1> SUFFICES ASSUME Init PROVE IInv
  OBVIOUS
<1>1. Types
  BY PoolAssumption DEF Init, Types, Places
<1>2. Mutex /\ Quiet /\ Ready
  BY DEF Init, Mutex, Inside, Quiet, Ready, TaskThere
<1>3. Accounted /\ Vouched /\ WaitMeansDone
  BY DEF Init, Accounted, Vouched, WaitMeansDone
<1>4. IdleCount
  <2>1. Busy = {}
    BY DEF Init, Busy
  <2> QED
    BY <2>1, FS_EmptySet, PoolAssumption DEF Init, IdleCount
<1> QED
  BY <1>1, <1>2, <1>3, <1>4 DEF IInv

LEMMA LoopStep ==
  ASSUME IInv, Types', NEW w \in Workers, Loop(w)
  PROVE  IInv'
<1> USE DEF IInv, pool, threads, calls, history
<1>1. Mutex'
  BY DEF Types, Mutex, Inside, Places, Loop, Go
<1>2. Quiet'
  BY DEF Types, Quiet, Places, Loop, Go
<1>3. Ready'
  BY DEF Types, Mutex, Quiet, Ready, TaskThere, Inside, Places, Loop, Go
<1>4. Accounted'
  BY DEF Types, Accounted, Running, InQueue, Places, Loop, Go
<1>5. Vouched'
  BY DEF Types, Vouched, Running, Places, Loop, Go
<1>6. IdleCount'
  BY DEF Types, IdleCount, Busy, Places, Loop, Go
<1>7. WaitMeansDone'
  BY DEF WaitMeansDone, Loop, Go
<1> QED
  BY <1>1, <1>2, <1>3, <1>4, <1>5, <1>6, <1>7

LEMMA PausedStep ==
  ASSUME IInv, Types', NEW w \in Workers, Paused(w)
  PROVE  IInv'
<1> USE DEF IInv, pool, threads, calls, history
<1>1. Mutex'
  BY DEF Types, Mutex, Inside, Places, Paused, Go
<1>2. Quiet'
  BY DEF Types, Quiet, Places, Paused, Go
<1>3. Ready'
  BY DEF Types, Mutex, Quiet, Ready, TaskThere, Inside, Places, Paused, Go
<1>4. Accounted'
  BY DEF Types, Accounted, Running, InQueue, Places, Paused, Go
<1>5. Vouched'
  BY DEF Types, Vouched, Running, Places, Paused, Go
<1>6. IdleCount'
  BY DEF Types, IdleCount, Busy, Places, Paused, Go
<1>7. WaitMeansDone'
  BY DEF WaitMeansDone, Paused, Go
<1> QED
  BY <1>1, <1>2, <1>3, <1>4, <1>5, <1>6, <1>7

LEMMA LockStep ==
  ASSUME IInv, Types', NEW w \in Workers, Lock(w)
  PROVE  IInv'
<1> USE DEF IInv, pool, threads, calls, history
<1>1. Mutex'
  BY WorkerShape DEF Types, Mutex, Inside, Places, Lock, Go
<1>2. Quiet'
  BY DEF Types, Quiet, Places, Lock, Go
<1>3. Ready'
  BY DEF Types, Mutex, Quiet, Ready, TaskThere, Inside, Places, Lock, Go
<1>4. Accounted'
  BY DEF Types, Accounted, Running, InQueue, Places, Lock, Go
<1>5. Vouched'
  BY DEF Types, Vouched, Running, Places, Lock, Go
<1>6. IdleCount'
  BY DEF Types, IdleCount, Busy, Places, Lock, Go
<1>7. WaitMeansDone'
  BY DEF WaitMeansDone, Lock, Go
<1> QED
  BY <1>1, <1>2, <1>3, <1>4, <1>5, <1>6, <1>7

LEMMA TestStep ==
  ASSUME IInv, Types', NEW w \in Workers, Test(w)
  PROVE  IInv'
<1> USE DEF IInv, pool, threads, calls, history
<1>1. Mutex'
  BY DEF Types, Mutex, Inside, Places, Test, Go
<1>2. Quiet'
  BY DEF Types, Quiet, Places, Test, Go
<1>3. Ready'
  BY DEF Types, Mutex, Quiet, Ready, TaskThere, Inside, Places, Test, Go
<1>4. Accounted'
  BY DEF Types, Accounted, Running, InQueue, Places, Test, Go
<1>5. Vouched'
  BY DEF Types, Vouched, Running, Places, Test, Go
<1>6. IdleCount'
  BY DEF Types, IdleCount, Busy, Places, Test, Go
<1>7. WaitMeansDone'
  BY DEF WaitMeansDone, Test, Go
<1> QED
  BY <1>1, <1>2, <1>3, <1>4, <1>5, <1>6, <1>7

LEMMA BlockStep ==
  ASSUME IInv, Types', NEW w \in Workers, Block(w)
  PROVE  IInv'
<1> USE DEF IInv, pool, threads, calls, history
<1>1. Mutex'
  BY DEF Types, Mutex, Inside, Places, Block, Go
<1>2. Quiet'
  BY DEF Types, Quiet, Places, Block, Go
<1>3. Ready'
  BY DEF Types, Mutex, Quiet, Ready, TaskThere, Inside, Places, Block, Go
<1>4. Accounted'
  BY DEF Types, Accounted, Running, InQueue, Places, Block, Go
<1>5. Vouched'
  BY DEF Types, Vouched, Running, Places, Block, Go
<1>6. IdleCount'
  BY DEF Types, IdleCount, Busy, Places, Block, Go
<1>7. WaitMeansDone'
  BY DEF WaitMeansDone, Block, Go
<1> QED
  BY <1>1, <1>2, <1>3, <1>4, <1>5, <1>6, <1>7

LEMMA SpuriousStep ==
  ASSUME IInv, Types', NEW w \in Workers, Spurious(w)
  PROVE  IInv'
<1> USE DEF IInv, pool, threads, calls, history
<1>1. Mutex'
  BY DEF Types, Mutex, Inside, Places, Spurious, Go
<1>2. Quiet'
  BY DEF Types, Quiet, Places, Spurious, Go
<1>3. Ready'
  BY DEF Types, Mutex, Quiet, Ready, TaskThere, Inside, Places, Spurious, Go
<1>4. Accounted'
  BY DEF Types, Accounted, Running, InQueue, Places, Spurious, Go
<1>5. Vouched'
  BY DEF Types, Vouched, Running, Places, Spurious, Go
<1>6. IdleCount'
  BY DEF Types, IdleCount, Busy, Places, Spurious, Go
<1>7. WaitMeansDone'
  BY DEF WaitMeansDone, Spurious, Go
<1> QED
  BY <1>1, <1>2, <1>3, <1>4, <1>5, <1>6, <1>7

LEMMA TakeOrReturnStep ==
  ASSUME IInv, Types', NEW w \in Workers, TakeOrReturn(w)
  PROVE  IInv'
<1> USE DEF IInv, pool, threads, calls, history
<1>1. Mutex'
  BY DEF Types, Mutex, Inside, Places, TakeOrReturn, Go
<1>2. Quiet'
  BY DEF Types, Quiet, Places, TakeOrReturn, Go
<1>3. Ready'
  BY DEF Types, Mutex, Quiet, Ready, TaskThere, Inside, Places, TakeOrReturn, Go
<1>4. Accounted'
  BY DEF Types, Accounted, Running, InQueue, Places, TakeOrReturn, Go
<1>5. Vouched'
  BY DEF Types, Vouched, Running, Places, TakeOrReturn, Go
<1>6. IdleCount'
  <2>0. status = "STOP" \/ tasks # <<>>
    BY DEF Ready, TakeOrReturn, Go
  <2>1. CASE status = "STOP"
    <3>1. Busy' = Busy /\ idle_num' = idle_num
      BY <2>1 DEF Types, Places, Busy, TakeOrReturn, Go
    <3> QED
      BY <3>1 DEF IdleCount
  <2>2. CASE status # "STOP"
    <3>1. Busy' = Busy \cup {w} /\ w \notin Busy /\ idle_num' = idle_num - 1
      BY <2>0, <2>2 DEF Types, Places, Busy, TakeOrReturn, Go
    <3>2. Cardinality(Busy \cup {w}) = Cardinality(Busy) + 1
      BY <3>1, BusyFinite, FS_AddElement
    <3> QED
      BY <3>1, <3>2, BusyFinite, PoolAssumption DEF IdleCount, Types
  <2> QED
    BY <2>1, <2>2
<1>7. WaitMeansDone'
  BY DEF WaitMeansDone, TakeOrReturn, Go
<1> QED
  BY <1>1, <1>2, <1>3, <1>4, <1>5, <1>6, <1>7

LEMMA PopStep ==
  ASSUME IInv, Types', NEW w \in Workers, Pop(w)
  PROVE  IInv'
<1> USE DEF IInv, pool, threads, calls, history
<1>1. Mutex'
  BY DEF Types, Mutex, Inside, Places, Pop, Go
<1>2. Quiet'
  BY DEF Types, Quiet, Places, Pop, Go
<1>3. Ready'
  <2>1. Head(tasks) \in Tasks /\ Head(tasks) # NoTask
    BY PoolAssumption DEF Types, Pop
  <2>2. task'[w] = Head(tasks) /\ \A v \in Workers : v # w => task'[v] = task[v] /\ pc'[v] = pc[v]
    BY DEF Types, Pop, Go
  <2>3. pc'[w] = "run" /\ \A v \in Workers : pc[v] \in Inside => v = w
    BY DEF Types, Mutex, Inside, Pop, Go
  <2> QED
    BY <2>1, <2>2, <2>3 DEF Ready, TaskThere, Inside
<1>4. Accounted'
  <2> SUFFICES ASSUME NEW t \in committed
               PROVE  t \in done \/ Running(t)' \/ InQueue(t)'
    BY DEF Accounted, Pop
  <2>1. CASE Running(t)
    BY <2>1 DEF Running, Types, Places, Pop, Go
  <2>2. CASE InQueue(t)
    <3>1. PICK i \in 1..Len(tasks) : tasks[i] = t
      BY <2>2 DEF InQueue, Types
    <3>2. CASE i = 1
      BY <3>1, <3>2 DEF Running, Types, Places, Pop, Go
    <3>3. CASE i # 1
      <4>1. i - 1 \in 1..Len(Tail(tasks)) /\ Tail(tasks)[i - 1] = t
        BY <3>1, <3>3 DEF Types, Pop
      <4>2. tasks' = Tail(tasks) /\ DOMAIN tasks' = 1..Len(tasks')
        BY DEF Types, Pop
      <4>3. i - 1 \in DOMAIN tasks' /\ tasks'[i - 1] = t
        BY <4>1, <4>2
      <4> QED
        BY <4>3 DEF InQueue
    <3> QED
      BY <3>2, <3>3
  <2> QED
    BY <2>1, <2>2 DEF Accounted
<1>5. Vouched'
  BY DEF Types, Vouched, Running, Places, Pop, Go
<1>6. IdleCount'
  BY DEF Types, IdleCount, Busy, Places, Pop, Go
<1>7. WaitMeansDone'
  BY DEF WaitMeansDone, Pop, Go
<1> QED
  BY <1>1, <1>2, <1>3, <1>4, <1>5, <1>6, <1>7

LEMMA RunStep ==
  ASSUME IInv, Types', NEW w \in Workers, Run(w)
  PROVE  IInv'
<1> USE DEF IInv, pool, threads, calls, history
<1>0. /\ task[w] # NoTask /\ done' = done \cup {task[w]}
      /\ UNCHANGED <<owner, status, starts, tasks, committed, before>>
  BY DEF Ready, TaskThere, Run, Go
<1>1. Mutex'
  BY DEF Types, Mutex, Inside, Places, Run, Go
<1>2. Quiet'
  BY <1>0 DEF Types, Quiet, Places, Run, Go
<1>3. Ready'
  BY DEF Types, Mutex, Quiet, Ready, TaskThere, Inside, Places, Run, Go
<1>4. Accounted'
  <2>1. ASSUME NEW t, Running(t)
        PROVE  t \in done' \/ Running(t)'
    <3>1. PICK v \in Workers : pc[v] = "run" /\ task[v] = t
      BY <2>1 DEF Running
    <3>2. CASE v = w
      BY <1>0, <3>1, <3>2
    <3>3. CASE v # w
      <4>1. pc'[v] = "run" /\ task'[v] = t
        BY <3>1, <3>3 DEF Types, Run, Go
      <4> QED
        BY <4>1 DEF Running
    <3> QED
      BY <3>2, <3>3
  <2>2. \A t : InQueue(t) => InQueue(t)'
    BY <1>0 DEF InQueue
  <2> QED
    BY <1>0, <2>1, <2>2 DEF Accounted
<1>5. Vouched'
  BY <1>0 DEF Types, Vouched, Running, Places, Run, Go
<1>6. IdleCount'
  BY DEF Types, IdleCount, Busy, Places, Run, Go
<1>7. WaitMeansDone'
  BY <1>0 DEF WaitMeansDone, Run, Go
<1> QED
  BY <1>1, <1>2, <1>3, <1>4, <1>5, <1>6, <1>7

LEMMA RanStep ==
  ASSUME IInv, Types', NEW w \in Workers, Ran(w)
  PROVE  IInv'
<1> USE DEF IInv, pool, threads, calls, history
<1>1. Mutex'
  BY DEF Types, Mutex, Inside, Places, Ran, Go
<1>2. Quiet'
  BY DEF Types, Quiet, Places, Ran, Go
<1>3. Ready'
  BY DEF Types, Mutex, Quiet, Ready, TaskThere, Inside, Places, Ran, Go
<1>4. Accounted'
  BY DEF Types, Accounted, Running, InQueue, Places, Ran, Go
<1>5. Vouched'
  BY DEF Types, Vouched, Running, Places, Ran, Go
<1>6. IdleCount'
  <2>1. Busy' = Busy \ {w} /\ w \in Busy /\ idle_num' = idle_num + 1
    BY DEF Types, Places, Busy, Ran, Go
  <2>2. Cardinality(Busy \ {w}) = Cardinality(Busy) - 1
    BY <2>1, BusyFinite, FS_RemoveElement
  <2> QED
    BY <2>1, <2>2, BusyFinite, PoolAssumption DEF IdleCount, Types
<1>7. WaitMeansDone'
  BY DEF WaitMeansDone, Ran, Go
<1> QED
  BY <1>1, <1>2, <1>3, <1>4, <1>5, <1>6, <1>7

LEMMA CommitStep ==
  ASSUME IInv, Types', NEW c \in Clients, NEW t \in Tasks, Commit(c, t)
  PROVE  IInv'
<1> USE DEF IInv, pool, threads, calls, history
<1>1. Mutex'
  BY DEF Types, Mutex, Inside, Places, Commit
<1>2. Quiet'
  BY DEF Types, Quiet, Places, Commit
<1>3. Ready'
  BY DEF Types, Mutex, Quiet, Ready, TaskThere, Inside, Places, Commit
<1>4. Accounted'
  <2>1. /\ committed' = committed \cup {t} /\ tasks' = Append(tasks, t)
        /\ UNCHANGED <<pc, task, done>>
    BY DEF Commit
  <2>2. /\ Len(tasks) \in Nat /\ DOMAIN tasks = 1..Len(tasks)
        /\ DOMAIN tasks' = 1..(Len(tasks) + 1)
        /\ tasks'[Len(tasks) + 1] = t
        /\ \A i \in 1..Len(tasks) : tasks'[i] = tasks[i]
    BY <2>1 DEF Types
  <2>3. InQueue(t)'
    BY <2>2 DEF InQueue
  <2>4. \A u : InQueue(u) => InQueue(u)'
    BY <2>2 DEF InQueue
  <2>5. \A u : Running(u) => Running(u)'
    BY <2>1 DEF Running
  <2> QED
    BY <2>1, <2>3, <2>4, <2>5 DEF Accounted
<1>5. Vouched'
  BY DEF Types, Vouched, Running, Places, Commit
<1>6. IdleCount'
  BY DEF Types, IdleCount, Busy, Places, Commit
<1>7. WaitMeansDone'
  BY DEF WaitMeansDone, Commit
<1> QED
  BY <1>1, <1>2, <1>3, <1>4, <1>5, <1>6, <1>7

LEMMA NotifyOneStep ==
  ASSUME IInv, Types', NEW c \in Clients, NotifyOne(c)
  PROVE  IInv'
<1> USE DEF IInv, pool, threads, calls, history
<1>1. Mutex'
  BY DEF Types, Mutex, Inside, Places, NotifyOne, Blocked
<1>2. Quiet'
  BY DEF Types, Quiet, Places, NotifyOne, Blocked
<1>3. Ready'
  BY DEF Types, Mutex, Quiet, Ready, TaskThere, Inside, Places, NotifyOne, Blocked
<1>4. Accounted'
  BY DEF Types, Accounted, Running, InQueue, Places, NotifyOne, Blocked
<1>5. Vouched'
  BY DEF Types, Vouched, Running, Places, NotifyOne, Blocked
<1>6. IdleCount'
  BY DEF Types, IdleCount, Busy, Places, NotifyOne, Blocked
<1>7. WaitMeansDone'
  BY DEF WaitMeansDone, NotifyOne, Blocked
<1> QED
  BY <1>1, <1>2, <1>3, <1>4, <1>5, <1>6, <1>7

LEMMA StartStep ==
  ASSUME IInv, Types', Start
  PROVE  IInv'
<1> USE DEF IInv, pool, threads, calls, history
<1>1. Mutex'
  BY DEF Types, Mutex, Inside, Places, Start
<1>2. Quiet'
  BY WorkerShape, PoolAssumption DEF Types, Quiet, Places, Start
<1>3. Ready'
  BY DEF Types, Mutex, Quiet, Ready, TaskThere, Inside, Places, Start
<1>4. Accounted'
  <2>1. \A t : Running(t) => Running(t)'
    BY DEF Types, Quiet, Running, Places, Start
  <2>2. \A t : InQueue(t) => InQueue(t)'
    BY DEF InQueue, Start
  <2> QED
    BY <2>1, <2>2 DEF Accounted, Start
<1>5. Vouched'
  BY DEF Types, Vouched, Running, Places, Start
<1>6. IdleCount'
  <2>1. Busy' = Busy
    BY DEF Types, Quiet, Places, Busy, Start
  <2> QED
    BY <2>1 DEF IdleCount, Start
<1>7. WaitMeansDone'
  BY DEF WaitMeansDone, Start
<1> QED
  BY <1>1, <1>2, <1>3, <1>4, <1>5, <1>6, <1>7

LEMMA StopSetStep ==
  ASSUME IInv, Types', StopSet
  PROVE  IInv'
<1> USE DEF IInv, pool, threads, calls, history
<1>1. Mutex'
  BY DEF Types, Mutex, Inside, Places, StopSet
<1>2. Quiet'
  BY DEF Types, Quiet, Places, StopSet
<1>3. Ready'
  BY DEF Types, Mutex, Quiet, Ready, TaskThere, Inside, Places, StopSet
<1>4. Accounted'
  BY DEF Types, Accounted, Running, InQueue, Places, StopSet
<1>5. Vouched'
  BY DEF Types, Vouched, Running, Places, StopSet
<1>6. IdleCount'
  BY DEF Types, IdleCount, Busy, Places, StopSet
<1>7. WaitMeansDone'
  BY DEF WaitMeansDone, StopSet
<1> QED
  BY <1>1, <1>2, <1>3, <1>4, <1>5, <1>6, <1>7

LEMMA StopNotifyStep ==
  ASSUME IInv, Types', StopNotify
  PROVE  IInv'
<1> USE DEF IInv, pool, threads, calls, history
<1>1. Mutex'
  BY DEF Types, Mutex, Inside, Places, StopNotify, Blocked
<1>2. Quiet'
  BY DEF Types, Quiet, Places, StopNotify, Blocked
<1>3. Ready'
  BY DEF Types, Mutex, Quiet, Ready, TaskThere, Inside, Places, StopNotify, Blocked
<1>4. Accounted'
  BY DEF Types, Accounted, Running, InQueue, Places, StopNotify, Blocked
<1>5. Vouched'
  BY DEF Types, Vouched, Running, Places, StopNotify, Blocked
<1>6. IdleCount'
  BY DEF Types, IdleCount, Busy, Places, StopNotify, Blocked
<1>7. WaitMeansDone'
  BY DEF WaitMeansDone, StopNotify, Blocked
<1> QED
  BY <1>1, <1>2, <1>3, <1>4, <1>5, <1>6, <1>7

LEMMA StopJoinStep ==
  ASSUME IInv, Types', StopJoin
  PROVE  IInv'
<1> USE DEF IInv, pool, threads, calls, history
<1>1. Mutex'
  BY DEF Types, Mutex, Inside, Places, StopJoin
<1>2. Quiet'
  <2>1. CASE starts = 1 /\ (\A i \in 1..pool_size : pc[<<1, i>>] = "exited") /\ owner' = "ready"
    <3>1. ASSUME NEW w \in Workers PROVE pc[w] \in {"none", "exited"}
      <4>1. w = <<w[1], w[2]>> /\ w[1] \in 1..MaxStarts /\ w[2] \in 1..pool_size
        BY WorkerShape
      <4>2. CASE w[1] = 1
        BY <2>1, <4>1, <4>2
      <4>3. CASE w[1] # 1
        BY <2>1, <4>1, <4>3, PoolAssumption DEF Quiet
      <4> QED
        BY <4>2, <4>3
    <3> QED
      BY <2>1, <3>1 DEF Types, Quiet, Places, StopJoin
  <2>2. CASE starts > 1 /\ owner' = "threw"
    BY <2>2 DEF Types, Quiet, StopJoin
  <2> QED
    BY <2>1, <2>2 DEF StopJoin
<1>3. Ready'
  BY DEF Types, Mutex, Quiet, Ready, TaskThere, Inside, Places, StopJoin
<1>4. Accounted'
  BY DEF Types, Accounted, Running, InQueue, Places, StopJoin
<1>5. Vouched'
  BY DEF Types, Vouched, Running, Places, StopJoin
<1>6. IdleCount'
  BY DEF Types, IdleCount, Busy, Places, StopJoin
<1>7. WaitMeansDone'
  BY DEF WaitMeansDone, StopJoin
<1> QED
  BY <1>1, <1>2, <1>3, <1>4, <1>5, <1>6, <1>7

LEMMA PauseResumeStep ==
  ASSUME IInv, Types', PauseResume
  PROVE  IInv'
<1> USE DEF IInv, pool, threads, calls, history
<1>1. Mutex'
  BY DEF Types, Mutex, Inside, Places, PauseResume
<1>2. Quiet'
  BY DEF Types, Quiet, Places, PauseResume
<1>3. Ready'
  BY DEF Types, Mutex, Quiet, Ready, TaskThere, Inside, Places, PauseResume
<1>4. Accounted'
  BY DEF Types, Accounted, Running, InQueue, Places, PauseResume
<1>5. Vouched'
  BY DEF Types, Vouched, Running, Places, PauseResume
<1>6. IdleCount'
  BY DEF Types, IdleCount, Busy, Places, PauseResume
<1>7. WaitMeansDone'
  BY DEF WaitMeansDone, PauseResume
<1> QED
  BY <1>1, <1>2, <1>3, <1>4, <1>5, <1>6, <1>7

LEMMA WaitEnterStep ==
  ASSUME IInv, Types', WaitEnter
  PROVE  IInv'
<1> USE DEF IInv, pool, threads, calls, history
<1>1. Mutex'
  BY DEF Types, Mutex, Inside, Places, WaitEnter
<1>2. Quiet'
  BY DEF Types, Quiet, Places, WaitEnter
<1>3. Ready'
  BY DEF Types, Mutex, Quiet, Ready, TaskThere, Inside, Places, WaitEnter
<1>4. Accounted'
  BY DEF Types, Accounted, Running, InQueue, Places, WaitEnter
<1>5. Vouched'
  BY DEF Types, Vouched, Running, Places, WaitEnter
<1>6. IdleCount'
  BY DEF Types, IdleCount, Busy, Places, WaitEnter
<1>7. WaitMeansDone'
  BY DEF WaitMeansDone, WaitEnter
<1> QED
  BY <1>1, <1>2, <1>3, <1>4, <1>5, <1>6, <1>7

LEMMA WaitEmptyStep ==
  ASSUME IInv, Types', WaitEmpty
  PROVE  IInv'
<1> USE DEF IInv, pool, threads, calls, history
<1>1. Mutex'
  BY DEF Types, Mutex, Inside, Places, WaitEmpty
<1>2. Quiet'
  BY DEF Types, Quiet, Places, WaitEmpty
<1>3. Ready'
  BY DEF Types, Mutex, Quiet, Ready, TaskThere, Inside, Places, WaitEmpty
<1>4. Accounted'
  BY DEF Types, Accounted, Running, InQueue, Places, WaitEmpty
<1>5. Vouched'
  <2>1. \A t : ~InQueue(t)
    BY DEF InQueue, WaitEmpty
  <2>2. \A t : Running(t) => Running(t)'
    BY DEF Running, WaitEmpty
  <2> QED
    BY <2>1, <2>2 DEF Accounted, Vouched, WaitEmpty
<1>6. IdleCount'
  BY DEF Types, IdleCount, Busy, Places, WaitEmpty
<1>7. WaitMeansDone'
  BY DEF WaitMeansDone, WaitEmpty
<1> QED
  BY <1>1, <1>2, <1>3, <1>4, <1>5, <1>6, <1>7

LEMMA WaitIdleStep ==
  ASSUME IInv, Types', WaitIdle
  PROVE  IInv'
<1> USE DEF IInv, pool, threads, calls, history
<1>1. Mutex'
  BY DEF Types, Mutex, Inside, Places, WaitIdle
<1>2. Quiet'
  BY DEF Types, Quiet, Places, WaitIdle
<1>3. Ready'
  BY DEF Types, Mutex, Quiet, Ready, TaskThere, Inside, Places, WaitIdle
<1>4. Accounted'
  BY DEF Types, Accounted, Running, InQueue, Places, WaitIdle
<1>5. Vouched'
  BY DEF Types, Vouched, Running, Places, WaitIdle
<1>6. IdleCount'
  BY DEF Types, IdleCount, Busy, Places, WaitIdle
<1>7. WaitMeansDone'
  <2>1. CASE idle_num = pool_size
    <3>1. Cardinality(Busy) = 0
      BY <2>1, BusyFinite, PoolAssumption DEF IdleCount
    <3>2. Busy = {}
      BY <3>1, BusyFinite, FS_EmptySet
    <3>3. \A t : ~Running(t)
      BY <3>2 DEF Running, Busy
    <3> QED
      BY <2>1, <3>3 DEF Vouched, WaitIdle, WaitMeansDone
  <2>2. CASE idle_num # pool_size
    BY <2>2 DEF WaitIdle, WaitMeansDone
  <2> QED
    BY <2>1, <2>2
<1> QED
  BY <1>1, <1>2, <1>3, <1>4, <1>5, <1>6, <1>7

LEMMA StutterStep ==
  ASSUME IInv, Types', UNCHANGED vars
  PROVE  IInv'
<1> USE DEF IInv, pool, threads, calls, history
<1>1. Mutex'
  BY DEF Types, Mutex, Inside, Places, vars
<1>2. Quiet'
  BY DEF Types, Quiet, Places, vars
<1>3. Ready'
  BY DEF Types, Mutex, Quiet, Ready, TaskThere, Inside, Places, vars
<1>4. Accounted'
  BY DEF Types, Accounted, Running, InQueue, Places, vars
<1>5. Vouched'
  BY DEF Types, Vouched, Running, Places, vars
<1>6. IdleCount'
  BY DEF Types, IdleCount, Busy, Places, vars
<1>7. WaitMeansDone'
  BY DEF WaitMeansDone, vars
<1> QED
  BY <1>1, <1>2, <1>3, <1>4, <1>5, <1>6, <1>7

LEMMA NextIInv == IInv /\ [Next]_vars => IInv'
<1> SUFFICES ASSUME IInv, [Next]_vars PROVE IInv'
  OBVIOUS
<1>1. Types'
  BY TypesNext DEF IInv
<1>2. ASSUME NEW w \in Workers, WorkerStep(w) \/ Spurious(w) PROVE IInv'
  BY <1>1, <1>2, LoopStep, PausedStep, LockStep, TestStep, BlockStep,
     SpuriousStep, TakeOrReturnStep, PopStep, RunStep, RanStep DEF WorkerStep
<1>3. ASSUME NEW c \in Clients, NEW t \in Tasks, Commit(c, t) PROVE IInv'
  BY <1>1, <1>3, CommitStep
<1>4. ASSUME NEW c \in Clients, NotifyOne(c) PROVE IInv'
  BY <1>1, <1>4, NotifyOneStep
<1>5. CASE OwnerCall
  BY <1>1, <1>5, StartStep, StopSetStep, PauseResumeStep, WaitEnterStep DEF OwnerCall
<1>6. CASE OwnerStep
  BY <1>1, <1>6, StopNotifyStep, StopJoinStep, WaitEmptyStep, WaitIdleStep DEF OwnerStep
<1>7. CASE UNCHANGED vars
  BY <1>1, <1>7, StutterStep
<1> QED
  BY <1>2, <1>3, <1>4, <1>5, <1>6, <1>7 DEF Next

LEMMA AlwaysIInv == Spec => []IInv
BY InitIInv, NextIInv, PTL DEF Spec

\* The busy threads are threads of one start.
LEMMA BusyBounded == IInv => Cardinality(Busy) <= pool_size
<1> SUFFICES ASSUME IInv PROVE Cardinality(Busy) <= pool_size
  OBVIOUS
<1> DEFINE One == {starts} \X (1..pool_size)
<1>1. Busy \subseteq One
  <2> SUFFICES ASSUME NEW w \in Busy PROVE w \in One
    OBVIOUS
  <2>1. w \in Workers /\ w[1] = starts
    BY DEF Busy, IInv, Quiet
  <2> QED
    BY <2>1, WorkerShape
<1>2. IsFiniteSet(1..pool_size) /\ Cardinality(1..pool_size) = pool_size
  BY FS_Interval, PoolAssumption
<1>3. IsFiniteSet({starts}) /\ Cardinality({starts}) = 1
  BY FS_Singleton
<1>4. IsFiniteSet(One) /\ Cardinality(One) = 1 * pool_size
  BY <1>2, <1>3, FS_Product
<1> QED
  BY <1>1, <1>4, FS_Subset, PoolAssumption

\* Type correctness of the pool: idle_num never leaves 0..pool_size.
THEOREM TypeCorrect == Spec => []TypeOK
<1>1. IInv => TypeOK
  <2> SUFFICES ASSUME IInv PROVE TypeOK
    OBVIOUS
  <2>1. idle_num \in 0..pool_size
    BY BusyBounded, BusyFinite, PoolAssumption DEF IInv, Types, IdleCount
  <2> QED
    BY <2>1 DEF IInv, Types, Places, TypeOK
<1> QED
  BY <1>1, AlwaysIInv, PTL

\* A thread of the pool that goes to the queue for a task finds one there,
\* although stop changes status without the mutex.
THEOREM NoEmptyTask == Spec => []TaskThere
<1>1. IInv => TaskThere
  BY DEF IInv, Ready
<1> QED
  BY <1>1, AlwaysIInv, PTL

\* idle_num is the number of threads without a task, through stop, restart and
\* pause.
THEOREM IdleIsCounted == Spec => []IdleCount
<1>1. IInv => IdleCount
  BY DEF IInv
<1> QED
  BY <1>1, AlwaysIInv, PTL

\* wait, which reads the queue and then idle_num without the mutex, returns from
\* a running pool only when the tasks committed before the call have run.
THEOREM WaitIsSound == Spec => []WaitMeansDone
<1>1. IInv => WaitMeansDone
  BY DEF IInv
<1> QED
  BY <1>1, AlwaysIInv, PTL

-----------------------------------------------------------------------------
(* Wake-ups: what TaskIsTaken rests on in every state. *)

\* A pool that is not stopped has all the threads of its last start.
Manned ==
    status # "STOP" =>
        /\ starts > 0
        /\ \A w \in Workers : w[1] = starts => pc[w] \notin {"none", "exited"}

\* Nothing is queued between a thread's test and its wait: it has the mutex.
Blocking == \A w \in Workers : pc[w] = "block" => tasks = <<>>

WakeInv == Manned /\ Blocking /\ NoWakeupLost

LEMMA WakeWorkerStep ==
  ASSUME IInv, WakeInv, NEW w \in Workers, WorkerStep(w) \/ Spurious(w)
  PROVE  WakeInv'
<1> USE DEF pool, threads, calls, history, Go
<1>1. pc \in [Workers -> Places] /\ pc' = [pc EXCEPT ![w] = pc'[w]]
      /\ UNCHANGED <<status, starts, client>>
  BY DEF IInv, Types, WorkerStep, Loop, Paused, Lock, Test, Block, Spurious,
     TakeOrReturn, Pop, Run, Ran
<1>2. pc[w] \notin {"none", "exited"} /\ (pc'[w] \in {"none", "exited"} => status = "STOP")
  BY DEF IInv, Types, WorkerStep, Loop, Paused, Lock, Test, Block, Spurious,
     TakeOrReturn, Pop, Run, Ran
<1>3. Manned'
  BY <1>1, <1>2 DEF WakeInv, Manned
<1>4. CASE Pop(w)
  <2>1. pc'[w] = "run" /\ pc[w] = "pop"
    BY <1>1, <1>4 DEF Pop
  <2>2. \A v \in Workers : pc[v] = "block" => v = w
    BY <2>1 DEF IInv, Mutex, Inside
  <2>3. Blocking'
    BY <1>1, <2>1, <2>2 DEF Blocking
  <2>4. NoWakeupLost'
    BY <2>1 DEF NoWakeupLost, Active
  <2> QED
    BY <1>3, <2>3, <2>4 DEF WakeInv
<1>5. CASE ~Pop(w)
  <2>1. tasks' = tasks
    BY <1>5 DEF WorkerStep, Loop, Paused, Lock, Test, Block, Spurious, TakeOrReturn,
       Run, Ran
  <2>2. pc'[w] = "block" => tasks = <<>>
    BY <1>1, <1>5 DEF WorkerStep, Loop, Paused, Lock, Test, Block, Spurious,
       TakeOrReturn, Run, Ran
  <2>3. Blocking'
    BY <1>1, <2>1, <2>2 DEF WakeInv, Blocking
  <2>4. pc'[w] \in Active \/ tasks = <<>> \/ status = "STOP"
    BY <1>1, <1>5 DEF WakeInv, Blocking, Active, WorkerStep, Loop, Paused, Lock, Test,
       Block, Spurious, TakeOrReturn, Run, Ran
  <2>5. NoWakeupLost'
    BY <1>1, <2>1, <2>4 DEF NoWakeupLost
  <2> QED
    BY <1>3, <2>3, <2>5 DEF WakeInv
<1> QED
  BY <1>4, <1>5

LEMMA WakeClientStep ==
  ASSUME IInv, WakeInv, NEW c \in Clients,
         NotifyOne(c) \/ \E t \in Tasks : Commit(c, t)
  PROVE  WakeInv'
<1> USE DEF pool, threads, calls, history
<1>1. CASE \E t \in Tasks : Commit(c, t)
  <2>1. holder = Free /\ UNCHANGED <<pc, status, starts>> /\ client'[c] = "notify"
    BY <1>1 DEF Commit, IInv, Types
  <2>2. \A w \in Workers : pc[w] # "block"
    BY <2>1, WorkerShape DEF IInv, Mutex, Inside
  <2> QED
    BY <2>1, <2>2 DEF WakeInv, Manned, Blocking, NoWakeupLost
<1>2. CASE NotifyOne(c)
  <2>1. UNCHANGED <<tasks, status, starts>>
    BY <1>2 DEF NotifyOne
  <2>2. CASE Blocked = {}
    <3>1. pc' = pc /\ \A w \in Workers : pc[w] # "blocked"
      BY <1>2, <2>2 DEF NotifyOne, Blocked
    <3>2. Manned' /\ Blocking'
      BY <2>1, <3>1 DEF WakeInv, Manned, Blocking
    <3>3. NoWakeupLost'
      <4> SUFFICES ASSUME tasks # <<>>, status # "STOP"
                   PROVE  \E w \in Workers : pc[w] \in Active
        BY <2>1, <3>1 DEF NoWakeupLost
      <4> DEFINE w == <<starts, 1>>
      <4>1. w \in Workers /\ w[1] = starts
        BY PoolAssumption DEF WakeInv, Manned, Workers, IInv, Types
      <4>2. pc[w] \notin {"none", "exited", "blocked", "block"}
        BY <3>1, <4>1 DEF WakeInv, Manned, Blocking
      <4>3. pc[w] \in Active
        BY <4>1, <4>2 DEF IInv, Types, Places, Active
      <4> QED
        BY <4>1, <4>3
    <3> QED
      BY <3>2, <3>3 DEF WakeInv
  <2>3. CASE Blocked # {}
    <3>1. PICK w \in Workers : pc[w] = "blocked" /\ pc' = [pc EXCEPT ![w] = "lock"]
      BY <1>2, <2>3 DEF NotifyOne, Blocked
    <3>2. pc'[w] = "lock" /\ \A v \in Workers : pc'[v] = pc[v] \/ pc'[v] = "lock"
      BY <3>1 DEF IInv, Types
    <3>3. Manned' /\ Blocking'
      BY <2>1, <3>2 DEF WakeInv, Manned, Blocking
    <3>4. NoWakeupLost'
      BY <3>2 DEF NoWakeupLost, Active
    <3> QED
      BY <3>3, <3>4 DEF WakeInv
  <2> QED
    BY <2>2, <2>3
<1> QED
  BY <1>1, <1>2

LEMMA WakeOwnerStep ==
  ASSUME IInv, WakeInv, OwnerCall \/ OwnerStep
  PROVE  WakeInv'
<1> USE DEF pool, threads, calls, history
<1>1. CASE Start
  <2> DEFINE w == <<starts + 1, 1>>
  <2>1. w \in Workers /\ w[1] = starts + 1 /\ starts' = starts + 1 /\ starts + 1 > 0
    BY <1>1, PoolAssumption DEF Start, Workers, IInv, Types
  <2>2. \A v \in Workers : pc'[v] = IF v[1] = starts + 1 THEN "loop" ELSE pc[v]
    BY <1>1 DEF Start
  <2>3. Manned'
    BY <2>1, <2>2 DEF Manned
  <2>4. Blocking'
    BY <1>1, <2>2 DEF Start, WakeInv, Blocking
  <2>5. pc'[w] \in Active
    BY <2>1, <2>2 DEF Active
  <2>6. NoWakeupLost'
    BY <2>1, <2>5 DEF NoWakeupLost
  <2> QED
    BY <2>3, <2>4, <2>6 DEF WakeInv
<1>2. CASE StopSet
  BY <1>2 DEF StopSet, WakeInv, Manned, Blocking, NoWakeupLost
<1>3. CASE StopNotify
  <2>1. status' = "STOP" /\ tasks' = tasks
        /\ \A v \in Workers : pc'[v] = IF v \in Blocked THEN "lock" ELSE pc[v]
    BY <1>3 DEF StopNotify, IInv, Quiet
  <2> QED
    BY <2>1 DEF WakeInv, Manned, Blocking, NoWakeupLost
<1>4. CASE StopJoin \/ WaitEnter \/ WaitEmpty \/ WaitIdle
  BY <1>4 DEF StopJoin, WaitEnter, WaitEmpty, WaitIdle, WakeInv, Manned, Blocking,
     NoWakeupLost
<1>5. CASE PauseResume
  BY <1>5 DEF PauseResume, WakeInv, Manned, Blocking, NoWakeupLost
<1> QED
  BY <1>1, <1>2, <1>3, <1>4, <1>5 DEF OwnerCall, OwnerStep

\* Whatever commits, notifications, pauses, stops and restarts come together, no
\* task waits in a running pool for threads that all wait for it.
THEOREM WakeupNeverLost == Spec => []NoWakeupLost
<1>1. Init => WakeInv
  BY DEF Init, WakeInv, Manned, Blocking, NoWakeupLost
<1>2. IInv /\ WakeInv /\ [Next]_vars => WakeInv'
  <2> SUFFICES ASSUME IInv, WakeInv, [Next]_vars PROVE WakeInv'
    OBVIOUS
  <2>1. CASE UNCHANGED vars
    BY <2>1 DEF vars, pool, threads, calls, WakeInv, Manned, Blocking, NoWakeupLost
  <2> QED
    BY <2>1, WakeWorkerStep, WakeClientStep, WakeOwnerStep DEF Next
<1>3. WakeInv => NoWakeupLost
  BY DEF WakeInv
<1> QED
  BY <1>1, <1>2, <1>3, AlwaysIInv, PTL DEF Spec
==============================================================================
