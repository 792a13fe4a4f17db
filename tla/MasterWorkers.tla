--------------------------- MODULE MasterWorkers ---------------------------
(***************************************************************************)
(* utils/hmain.cpp and base/hproc.h: a master process starts N workers,    *)
(* respawns those that die, and on signals stops or reloads them. Signal   *)
(* handlers interrupt the master between any two of its steps; a handler   *)
(* blocks only its own signal. Workers are numbered in the order of their  *)
(* forks; pids are not reused.                                             *)
(***************************************************************************)
EXTENDS Integers, FiniteSets

CONSTANTS
    N,           \* worker_processes
    MaxDeaths,   \* bound: workers that die by themselves or by a signal
    MaxReloads   \* bound: reload signals

ASSUME MasterAssumption == N \in Nat \ {0} /\ MaxDeaths \in Nat /\ MaxReloads \in Nat

Slots == 1..N

VARIABLES
    pid,       \* proc_ctxs[i].pid: 0 never started, -1 dead, else a worker
    cnt,       \* proc_ctxs[i].spawn_cnt
    next,      \* the slot master_workers_run starts next
    born,      \* its child between fork and ctx->pid = pid, or 0
    inChld,    \* the SIGCHLD handler runs
    hslot,     \* the slot it respawns
    hborn,     \* its child between fork and ctx->pid = pid, or 0
    killing,   \* the slot the loop of the stop signal has reached, or 0
    why,       \* "none" while the master runs, then why it exited
    chld,      \* SIGCHLD is pending
    live,      \* running workers
    zombie,    \* exited workers not waited for
    elders,    \* <<p, q>>: worker p would kill worker q on a stop signal
    forks,     \* workers forked so far
    deaths,
    longRuns,  \* per slot, workers replaced after more than an hour
    whole,     \* the stop signal met a full table, outside other handlers
    pidfile,   \* the pid file names the master
    rslot,     \* the slot the loop of the reload signal has reached, or 0
    rpid,      \* the pid it has found there and not yet signalled, or 0
    reloading, \* that loop runs, not a handler that has interrupted it
    since,     \* history: the workers of the table when the loop began
    told,      \* history: the workers it has signalled
    reloads    \* reload signals so far

table == <<pid, cnt, longRuns>>
main == <<next, born>>
handler == <<inChld, hslot, hborn>>
stop == <<killing, why, whole>>
procs == <<live, zombie, chld, deaths>>
forked == <<forks, elders>>
loop == <<rslot, rpid, since, told, reloads>>
reload == <<loop, reloading>>
vars == <<table, main, handler, stop, procs, forked, pidfile, reload>>

Init ==
    /\ pid = [i \in Slots |-> 0]
    /\ cnt = [i \in Slots |-> 0]
    /\ longRuns = [i \in Slots |-> 0]
    /\ next = 1 /\ born = 0
    /\ inChld = FALSE /\ hslot = 1 /\ hborn = 0
    /\ killing = 0 /\ why = "none" /\ whole = FALSE
    /\ live = {} /\ zombie = {} /\ chld = FALSE /\ deaths = 0
    /\ forks = 0 /\ elders = {}
    /\ pidfile = TRUE
    /\ rslot = 0 /\ rpid = 0 /\ reloading = FALSE
    /\ since = {} /\ told = {} /\ reloads = 0

\* The slots the loops of signal_handler reach: they break at the first one
\* without a worker.
Reached(p) == {i \in Slots : \A j \in 1..i : p[j] > 0}

\* fork() for slot i; the child inherits the table and the stop handler, which
\* kills the workers before its own slot and then itself, up to a gap.
Fork(i) ==
    /\ forks' = forks + 1
    /\ live' = live \cup {forks + 1}
    /\ LET copy == [pid EXCEPT ![i] = forks + 1]
       IN  elders' = elders \cup {<<forks + 1, copy[j]>> : j \in Reached(copy) \cap 1..i}

Free == why = "none" /\ killing = 0

\* Where the master executes: in no handler, or in the SIGCHLD handler.
InMain == Free /\ ~inChld /\ rslot = 0
InChldHandler == Free /\ inChld /\ ~reloading

\* The processes in S are gone: the master is signalled unless it ignores it.
Gone(S) ==
    /\ live' = live \ S
    /\ zombie' = IF Free THEN zombie \cup (S \cap live) ELSE zombie
    /\ chld' = (chld \/ (Free /\ S \cap live # {}))
    /\ deaths' = deaths + Cardinality(S \cap live)

\* Mutant: only the first slot is looked at.
have_workerFirst(p) == p[1] > 0

have_worker(p) == \E i \in Slots : p[i] > 0

-----------------------------------------------------------------------------
(* master_workers_run *)

SpawnFork ==
    /\ InMain
    /\ next <= N /\ born = 0
    /\ cnt' = [cnt EXCEPT ![next] = @ + 1]
    /\ \/ Fork(next) /\ born' = forks + 1 /\ next' = next
       \/ born' = 0 /\ next' = next + 1 /\ UNCHANGED <<forked, live>>
    /\ UNCHANGED <<pid, longRuns, handler, stop, zombie, chld, deaths, pidfile, reload>>

SpawnStore ==
    /\ InMain
    /\ born > 0
    /\ pid' = [pid EXCEPT ![next] = born]
    /\ next' = next + 1
    /\ born' = 0
    /\ UNCHANGED <<cnt, longRuns, handler, stop, procs, forked, pidfile, reload>>
-----------------------------------------------------------------------------
(* The workers *)

\* worker_proc returns and exit(0) runs delete_pidfile, which the worker has
\* inherited with the other atexit functions; or the worker crashes.
Die(p) ==
    /\ deaths < MaxDeaths
    /\ Gone({p})
    /\ pidfile' \in {pidfile, FALSE}
    /\ UNCHANGED <<table, main, handler, stop, forked, reload>>

\* A stop signal to a worker runs the inherited signal_handler: SIGKILL reaches
\* it before exit(0), unless the loop breaks before its slot.
WorkerTerm(p) ==
    /\ deaths + Cardinality({q \in live \ {p} : <<p, q>> \in elders}) < MaxDeaths
    /\ Gone({p} \cup {q \in live : <<p, q>> \in elders})
    /\ pidfile' = (pidfile /\ <<p, p>> \in elders)
    /\ UNCHANGED <<table, main, handler, stop, forked, reload>>
-----------------------------------------------------------------------------
(* signal_handler, case SIGCHLD *)

ChldEnter ==
    /\ Free /\ ~inChld /\ chld
    /\ inChld' = TRUE
    /\ chld' = FALSE
    /\ reloading' = FALSE
    /\ UNCHANGED <<table, main, hslot, hborn, stop, live, zombie, deaths, forked,
                   pidfile, loop>>

\* Mutant: one respawn too many.
RespawnFour(i, ranLong) ==
    /\ cnt[i] <= 3 \/ ranLong
    /\ cnt' = [cnt EXCEPT ![i] = @ + 1]
    /\ longRuns' = [longRuns EXCEPT ![i] = IF ranLong THEN @ + 1 ELSE @]
    /\ hslot' = i
    /\ \/ Fork(i) /\ hborn' = forks + 1
       \/ hborn' = 0 /\ UNCHANGED <<forked, live>>
    /\ UNCHANGED why

\* The slot's worker is replaced unless it crashes too often.
Respawn(i, ranLong) ==
    /\ cnt[i] < 3 \/ ranLong
    /\ cnt' = [cnt EXCEPT ![i] = @ + 1]
    /\ longRuns' = [longRuns EXCEPT ![i] = IF ranLong THEN @ + 1 ELSE @]
    /\ hslot' = i
    /\ \/ Fork(i) /\ hborn' = forks + 1
       \/ hborn' = 0 /\ UNCHANGED <<forked, live>>
    /\ UNCHANGED why

\* It does; the master of a table without workers exits.
GiveUp(i) ==
    /\ cnt[i] >= 3
    /\ why' = IF have_worker(pid') THEN why ELSE "no_worker"
    /\ UNCHANGED <<cnt, longRuns, forked, live, hslot, hborn>>

\* waitpid returns p.
ChldReap(p) ==
    /\ InChldHandler /\ hborn = 0
    /\ \/ /\ p \notin {pid[i] : i \in Slots}
          /\ UNCHANGED <<table, forked, live, hslot, hborn, why>>
       \/ \E i \in Slots :
             /\ pid[i] = p
             /\ pid' = [pid EXCEPT ![i] = -1]
             /\ (\E ranLong \in BOOLEAN : Respawn(i, ranLong)) \/ GiveUp(i)
    /\ zombie' = IF why' = "none" THEN zombie \ {p} ELSE {}
    /\ chld' = (why' = "none" /\ chld)
    /\ pidfile' = (why' = "none" /\ pidfile)
    /\ UNCHANGED <<main, inChld, killing, whole, deaths, reload>>

\* Mutant: the pid of the new child is not stored.
ChldStoreLost ==
    /\ InChldHandler /\ hborn > 0
    /\ hborn' = 0
    /\ UNCHANGED <<table, main, inChld, hslot, stop, procs, forked, pidfile, reload>>

\* Mutant: if instead of while around waitpid.
ChldLeaveEarly ==
    /\ InChldHandler /\ hborn = 0
    /\ inChld' = FALSE
    /\ reloading' = (rslot # 0)
    /\ UNCHANGED <<table, main, hslot, hborn, stop, procs, forked, pidfile, loop>>

ChldStore ==
    /\ InChldHandler /\ hborn > 0
    /\ pid' = [pid EXCEPT ![hslot] = hborn]
    /\ hborn' = 0
    /\ UNCHANGED <<cnt, longRuns, main, inChld, hslot, stop, procs, forked, pidfile,
                   reload>>

\* waitpid finds no more.
ChldLeave ==
    /\ InChldHandler /\ hborn = 0 /\ zombie = {}
    /\ inChld' = FALSE
    /\ reloading' = (rslot # 0)
    /\ UNCHANGED <<table, main, hslot, hborn, stop, procs, forked, pidfile, loop>>
-----------------------------------------------------------------------------
(* signal_handler, cases SIGINT and SIGNAL_TERMINATE *)

\* A reload that the stop signal interrupts is never resumed.
TermEnter ==
    /\ Free
    /\ killing' = 1
    /\ chld' = FALSE
    /\ whole' = (~inChld /\ born = 0 /\ \A i \in Slots : pid[i] > 0)
    /\ rslot' = 0 /\ rpid' = 0 /\ reloading' = FALSE /\ since' = {} /\ told' = {}
    /\ UNCHANGED <<table, main, handler, why, live, zombie, deaths, forked, pidfile,
                   reloads>>

\* exit(0): the zombies pass to init.
Exit ==
    /\ why' = "stop"
    /\ pidfile' = FALSE
    /\ zombie' = {}
    /\ chld' = FALSE

\* Mutant: the last slot is left out.
KillOneShort ==
    /\ why = "none" /\ killing > 0 /\ rslot = 0
    /\ IF killing < N /\ pid[killing] > 0
       THEN /\ live' = live \ {pid[killing]}
            /\ pid' = [pid EXCEPT ![killing] = -1]
            /\ killing' = killing + 1
            /\ UNCHANGED <<why, zombie, chld, pidfile>>
       ELSE Exit /\ UNCHANGED <<live, pid, killing>>
    /\ UNCHANGED <<cnt, longRuns, main, handler, whole, deaths, forked, reload>>

\* One round of the loop, or its end and exit(0).
KillOne ==
    /\ why = "none" /\ killing > 0 /\ rslot = 0
    /\ IF killing \in Slots /\ pid[killing] > 0
       THEN /\ live' = live \ {pid[killing]}
            /\ pid' = [pid EXCEPT ![killing] = -1]
            /\ killing' = killing + 1
            /\ UNCHANGED <<why, zombie, chld, pidfile>>
       ELSE Exit /\ UNCHANGED <<live, pid, killing>>
    /\ UNCHANGED <<cnt, longRuns, main, handler, whole, deaths, forked, reload>>

\* The other stop signal interrupts the loop and runs it again from the start.
TermSecond ==
    /\ why = "none" /\ killing > 0
    /\ live' = live \ {pid[i] : i \in Reached(pid)}
    /\ pid' = [i \in Slots |-> IF i \in Reached(pid) THEN -1 ELSE pid[i]]
    /\ whole' = FALSE
    /\ Exit
    /\ UNCHANGED <<cnt, longRuns, main, handler, killing, deaths, forked, reload>>

-----------------------------------------------------------------------------
(* signal_handler, case SIGNAL_RELOAD *)

\* Mutant: the loop begins with the second slot.
ReloadEnterAtTwo ==
    /\ why = "none" /\ rslot = 0 /\ reloads < MaxReloads
    /\ reloads' = reloads + 1
    /\ IF pidfile
         THEN /\ rslot' = 2 /\ reloading' = TRUE
              /\ since' = {pid[i] : i \in {j \in Slots : pid[j] > 0}}
         ELSE UNCHANGED <<rslot, reloading, since>>
    /\ UNCHANGED <<table, main, handler, stop, procs, forked, pidfile, rpid, told>>

\* reload_fn is set. The workers are told if the pid file still names the master.
ReloadEnter ==
    /\ why = "none" /\ rslot = 0 /\ reloads < MaxReloads
    /\ reloads' = reloads + 1
    /\ IF pidfile
         THEN /\ rslot' = 1 /\ reloading' = TRUE
              /\ since' = {pid[i] : i \in {j \in Slots : pid[j] > 0}}
         ELSE UNCHANGED <<rslot, reloading, since>>
    /\ UNCHANGED <<table, main, handler, stop, procs, forked, pidfile, rpid, told>>

\* The head of the loop and its test of the slot.
ReloadTest ==
    /\ why = "none" /\ reloading /\ rpid = 0
    /\ IF rslot \in Slots /\ pid[rslot] > 0
         THEN rpid' = pid[rslot] /\ UNCHANGED <<rslot, reloading, since, told>>
         ELSE /\ rslot' = 0 /\ reloading' = FALSE /\ since' = {} /\ told' = {}
              /\ UNCHANGED rpid
    /\ UNCHANGED <<table, main, handler, stop, procs, forked, pidfile, reloads>>

\* kill: the pid may be read once or, as it is written, once more; meanwhile the
\* SIGCHLD handler may have emptied the slot, and kill(-1) reaches everyone.
ReloadKill ==
    /\ why = "none" /\ reloading /\ rpid > 0
    /\ \E p \in {rpid, pid[rslot]} : told' = told \cup (IF p > 0 THEN {p} ELSE live)
    /\ rslot' = rslot + 1
    /\ rpid' = 0
    /\ UNCHANGED <<table, main, handler, stop, procs, forked, pidfile, reloading,
                   since, reloads>>
-----------------------------------------------------------------------------
Next ==
    \/ SpawnFork
    \/ SpawnStore
    \/ \E p \in live : Die(p)
    \/ \E p \in live : WorkerTerm(p)
    \/ ChldEnter
    \/ \E p \in zombie : ChldReap(p)
    \/ ChldStore
    \/ ChldLeave
    \/ TermEnter
    \/ KillOne
    \/ TermSecond
    \/ ReloadEnter
    \/ ReloadTest
    \/ ReloadKill

Spec == Init /\ [][Next]_vars

\* The master is scheduled again and again, and a pending signal is delivered.
Fairness ==
    /\ WF_vars(SpawnFork) /\ WF_vars(SpawnStore)
    /\ WF_vars(ChldEnter) /\ WF_vars(\E p \in zombie : ChldReap(p))
    /\ WF_vars(ChldStore) /\ WF_vars(ChldLeave)
    /\ WF_vars(KillOne)
    /\ WF_vars(ReloadTest) /\ WF_vars(ReloadKill)

FairSpec == Spec /\ Fairness
-----------------------------------------------------------------------------
(***************************************************************************)
(* Properties                                                              *)
(***************************************************************************)
\* Type invariant of the worker table, the signal state and the processes.
TypeOK ==
    /\ pid \in [Slots -> Int]
    /\ cnt \in [Slots -> Nat]
    /\ longRuns \in [Slots -> Nat]
    /\ next \in 1..(N + 1)
    /\ born \in Nat
    /\ inChld \in BOOLEAN
    /\ hslot \in Slots
    /\ hborn \in Nat
    /\ killing \in 0..(N + 1)
    /\ why \in {"none", "stop", "no_worker"}
    /\ whole \in BOOLEAN
    /\ chld \in BOOLEAN
    /\ pidfile \in BOOLEAN
    /\ forks \in Nat
    /\ live \subseteq 1..forks
    /\ zombie \subseteq 1..forks
    /\ rslot \in 0..(N + 1)
    /\ rpid \in Nat
    /\ reloading \in BOOLEAN
    /\ since \subseteq 1..forks
    /\ told \subseteq Nat
    /\ reloads \in Nat

\* As long as the master runs it knows every running worker: it is in a slot of
\* proc_ctxs, or is the child that hproc_spawn, in master_workers_run or in the
\* SIGCHLD handler, has forked and not yet stored.
WorkersKnown ==
    why = "none" => live \subseteq {pid[i] : i \in Slots} \cup {born, hborn}

\* A master that exits in the SIGCHLD handler because no slot has a worker
\* leaves none running, unless it was interrupted between fork and ctx->pid = pid.
ExitLeavesNone == why = "no_worker" /\ born = 0 => live = {}

\* A stop signal that finds every slot filled, outside the SIGCHLD handler and
\* not interrupted by the other stop signal, leaves no worker running.
StopLeavesNone == why = "stop" /\ whole => live = {}

\* "avoid frequent crash and restart": a slot is started at most 3 times, and
\* once more for each worker that ran longer than an hour.
RespawnsBounded == \A i \in Slots : cnt[i] <= 3 + longRuns[i]

\* Although SIGCHLD is not queued, every dead worker is waited for: the handler
\* calls waitpid until it finds none, and runs again for a worker that dies
\* meanwhile.
ZombiesReaped == \A p \in 1..(N + MaxDeaths) : p \in zombie ~> p \notin zombie

\* "master send SIGNAL_RELOAD => workers": although deaths and respawns interrupt
\* the loop and change the table under it, a worker that was in the table when
\* it began and lives when it ends has been told, unless the loop broke at an
\* empty slot at or before its own.
ReloadReachesAll ==
    [][ReloadTest /\ rslot' = 0 =>
          \A i \in Slots : pid[i] \in since \cap live =>
              pid[i] \in told \/ \E j \in 1..i : pid[j] <= 0]_vars
=============================================================================
