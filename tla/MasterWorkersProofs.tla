------------------------ MODULE MasterWorkersProofs ------------------------
(***************************************************************************)
(* Proofs about the master and its workers, for every number of slots and  *)
(* of deaths.                                                              *)
(***************************************************************************)
EXTENDS MasterWorkers, TLAPS

\* The type invariant in parts: the table and its counters, the processes, where
\* a dead one is not running, and the flags.
TableType ==
    /\ pid \in [Slots -> Int]
    /\ cnt \in [Slots -> Nat]
    /\ longRuns \in [Slots -> Nat]
    /\ next \in 1..(N + 1)
    /\ hslot \in Slots
    /\ killing \in 0..(N + 1)

ProcsType ==
    /\ born \in Nat
    /\ hborn \in Nat
    /\ forks \in Nat
    /\ live \subseteq 1..forks
    /\ zombie \subseteq 1..forks
    /\ live \cap zombie = {}

FlagsType ==
    /\ inChld \in BOOLEAN
    /\ whole \in BOOLEAN
    /\ chld \in BOOLEAN
    /\ pidfile \in BOOLEAN
    /\ reloading \in BOOLEAN
    /\ why \in {"none", "stop", "no_worker"}

ReloadType ==
    /\ rslot \in 0..(N + 1)
    /\ rpid \in Nat
    /\ rpid > 0 => rslot \in Slots
    /\ reloading => rslot > 0
    /\ since \subseteq 1..forks
    /\ told \subseteq Nat
    /\ reloads \in Nat

\* The numbers in use are of workers that were forked.
Numbered ==
    /\ born <= forks /\ hborn <= forks
    /\ \A i \in Slots : pid[i] <= forks

\* The reload loop has told the workers behind it that were there when it began.
\* Only the SIGCHLD handler changes the table under it, and what that stores
\* was not there; so a pid that the loop has read is that of the slot, or the
\* slot has none that it must tell.
Told ==
    why = "none" =>
        /\ \A i \in Slots : i < rslot /\ pid[i] \in since /\ pid[i] \in live => pid[i] \in told
        /\ ~reloading => hborn \notin since
        /\ rpid > 0 => pid[rslot] = rpid \/ pid[rslot] \notin since

\* master_workers_run has not touched the slots from next on, except for the
\* count of the one whose child it is about to store, nor has the handler.
Startup ==
    /\ born > 0 => next <= N
    /\ \A i \in Slots : i >= next => pid[i] = 0
    /\ \A i \in Slots : i > next \/ (i = next /\ born = 0) => cnt[i] = 0
    /\ hborn > 0 => hslot < next /\ pid[hslot] <= 0

\* Outside the SIGCHLD handler no respawn is under way.
HandlerIdle == ~inChld => hborn = 0

\* While the loop of a stop signal that met a full table runs, the workers still
\* running are those of the slots it has not reached.
Sweep ==
    killing > 0 /\ whole /\ why = "none" =>
        /\ ~inChld /\ born = 0
        /\ \A i \in Slots : i >= killing => pid[i] > 0
        /\ \A q \in live : \E i \in Slots : i >= killing /\ pid[i] = q

LEMMA TypeParts == TableType /\ ProcsType /\ FlagsType /\ ReloadType => TypeOK
BY DEF TypeOK, TableType, ProcsType, FlagsType, ReloadType

\* WorkersKnown, slot by slot.
Known ==
    why = "none" =>
        \A q \in live : q = born \/ q = hborn \/ \E i \in Slots : pid[i] = q

LEMMA KnownIsWorkersKnown == Known => WorkersKnown
BY DEF Known, WorkersKnown

\* Startup keeps next inside the table and lets RespawnsBounded hold; Known and
\* Sweep are what the two ways to exit rest on, and Told what reloading does.
IInv ==
    /\ TableType /\ ProcsType /\ FlagsType /\ ReloadType /\ Numbered /\ Told
    /\ Startup /\ HandlerIdle /\ Sweep /\ Known
    /\ ExitLeavesNone /\ StopLeavesNone /\ RespawnsBounded

LEMMA InitIInv == Init => IInv
<1> SUFFICES ASSUME Init PROVE IInv
  OBVIOUS
<1>1. TableType
  BY MasterAssumption DEF Init, TableType, Slots
<1>2. ProcsType
  BY MasterAssumption DEF Init, ProcsType, Slots
<1>3. FlagsType
  BY MasterAssumption DEF Init, FlagsType, Slots
<1>4. Startup
  BY MasterAssumption DEF Init, Startup, Slots
<1>5. HandlerIdle
  BY MasterAssumption DEF Init, HandlerIdle, Slots
<1>6. Sweep
  BY MasterAssumption DEF Init, Sweep, Slots
<1>7. Known
  BY MasterAssumption DEF Init, Known, Slots
<1>8. ExitLeavesNone
  BY MasterAssumption DEF Init, ExitLeavesNone, Slots
<1>9. StopLeavesNone
  BY MasterAssumption DEF Init, StopLeavesNone, Slots
<1>10. RespawnsBounded
  BY MasterAssumption DEF Init, RespawnsBounded, Slots
<1>11. ReloadType
  BY MasterAssumption DEF Init, ReloadType, Slots
<1>12. Numbered
  BY MasterAssumption DEF Init, Numbered, Slots
<1>13. Told
  BY MasterAssumption DEF Init, Told, Slots
<1> QED
  BY <1>1, <1>2, <1>3, <1>4, <1>5, <1>6, <1>7, <1>8, <1>9, <1>10,
     <1>11, <1>12, <1>13 DEF IInv

LEMMA ForkEffect ==
  ASSUME NEW i, Fork(i)
  PROVE  forks' = forks + 1 /\ live' = live \cup {forks + 1}
BY DEF Fork

LEMMA SpawnForkStep ==
  ASSUME IInv, SpawnFork
  PROVE  IInv'
<1> USE MasterAssumption DEF IInv, table, main, handler, stop, procs, forked, loop, reload
<1>1. TableType'
  BY ForkEffect DEF TableType, ProcsType, Startup, Slots, SpawnFork, InMain, Free
<1>2. ProcsType'
  <2>1. CASE Fork(next) /\ born' = forks + 1
    <3>1. forks' = forks + 1 /\ live' = live \cup {forks + 1} /\ zombie' = zombie /\ hborn' = hborn
      BY <2>1, ForkEffect DEF SpawnFork, InMain
    <3> QED
      BY <2>1, <3>1 DEF ProcsType
  <2>2. CASE born' = 0 /\ UNCHANGED <<forked, live>>
    BY <2>2 DEF ProcsType, SpawnFork
  <2> QED
    BY <2>1, <2>2 DEF SpawnFork, InMain
<1>3. FlagsType'
  BY ForkEffect DEF FlagsType, SpawnFork, InMain, Free
<1>4. Startup'
  BY ForkEffect DEF Startup, TableType, ProcsType, Slots, SpawnFork, InMain, Free
<1>5. HandlerIdle'
  BY ForkEffect DEF HandlerIdle, SpawnFork, InMain, Free
<1>6. Sweep'
  BY ForkEffect DEF Sweep, TableType, ProcsType, HandlerIdle, Known, Slots, SpawnFork, InMain, Free
<1>7. Known'
  <2>1. CASE Fork(next) /\ born' = forks + 1
    <3>1. /\ live' = live \cup {forks + 1}
          /\ UNCHANGED <<pid, hborn, why>>
          /\ born = 0
      BY <2>1, ForkEffect DEF SpawnFork, InMain
    <3> QED
      BY <2>1, <3>1 DEF Known, ProcsType
  <2>2. CASE born' = 0 /\ UNCHANGED <<forked, live>>
    BY <2>2 DEF Known, ProcsType, SpawnFork
  <2> QED
    BY <2>1, <2>2 DEF SpawnFork, InMain
<1>8. ExitLeavesNone'
  BY ForkEffect DEF ExitLeavesNone, TableType, ProcsType, Known, SpawnFork, InMain, Free
<1>9. StopLeavesNone'
  BY ForkEffect DEF StopLeavesNone, TableType, ProcsType, Sweep, Slots, SpawnFork, InMain, Free
<1>10. RespawnsBounded'
  <2>1. next \in Slots /\ born = 0 /\ cnt' = [cnt EXCEPT ![next] = @ + 1] /\ longRuns' = longRuns
    BY DEF SpawnFork, TableType, Slots
  <2>2. cnt[next] = 0 /\ cnt'[next] = 1
    BY <2>1 DEF Startup, TableType
  <2>3. \A i \in Slots : i # next => cnt'[i] = cnt[i]
    BY <2>1 DEF TableType
  <2>4. longRuns[next] \in Nat
    BY <2>1 DEF TableType
  <2>5. cnt'[next] <= 3 + longRuns[next]
    BY <2>2, <2>4
  <2> QED
    BY <2>1, <2>3, <2>5 DEF RespawnsBounded
<1>11. ReloadType'
  BY ForkEffect DEF ReloadType, TableType, ProcsType, Slots, SpawnFork, InMain, Free
<1>12. Numbered'
  <2>1. /\ UNCHANGED <<pid, hborn>>
        /\ \/ forks' = forks + 1 /\ born' = forks + 1
           \/ forks' = forks /\ born' = 0
    BY ForkEffect DEF SpawnFork
  <2>2. forks \in Nat /\ hborn \in Nat /\ \A i \in Slots : pid[i] \in Int
    BY DEF ProcsType, TableType
  <2> QED
    BY <2>1, <2>2 DEF Numbered
<1>13. Told'
  BY ForkEffect DEF Told, ReloadType, Numbered, TableType, ProcsType, HandlerIdle, Slots, SpawnFork, InMain, Free
<1> QED
  BY <1>1, <1>2, <1>3, <1>4, <1>5, <1>6, <1>7, <1>8, <1>9, <1>10,
     <1>11, <1>12, <1>13

LEMMA SpawnStoreStep ==
  ASSUME IInv, SpawnStore
  PROVE  IInv'
<1> USE MasterAssumption DEF IInv, table, main, handler, stop, procs, forked, loop, reload
<1>1. TableType'
  BY DEF TableType, ProcsType, Startup, Slots, SpawnStore, InMain, Free
<1>2. ProcsType'
  BY DEF ProcsType, SpawnStore, InMain, Free
<1>3. FlagsType'
  BY DEF FlagsType, SpawnStore, InMain, Free
<1>4. Startup'
  BY DEF Startup, TableType, ProcsType, Slots, SpawnStore, InMain, Free
<1>5. HandlerIdle'
  BY DEF HandlerIdle, SpawnStore, InMain, Free
<1>6. Sweep'
  BY DEF Sweep, TableType, ProcsType, HandlerIdle, Known, Slots, SpawnStore, InMain, Free
<1>7. Known'
  BY DEF Known, TableType, ProcsType, Startup, Slots, SpawnStore, InMain, Free
<1>8. ExitLeavesNone'
  BY DEF ExitLeavesNone, TableType, ProcsType, Known, SpawnStore, InMain, Free
<1>9. StopLeavesNone'
  BY DEF StopLeavesNone, TableType, ProcsType, Sweep, Slots, SpawnStore, InMain, Free
<1>10. RespawnsBounded'
  BY DEF RespawnsBounded, TableType, ProcsType, Startup, Slots, SpawnStore, InMain, Free
<1>11. ReloadType'
  BY DEF ReloadType, TableType, ProcsType, Slots, SpawnStore, InMain, Free
<1>12. Numbered'
  BY DEF Numbered, TableType, ProcsType, Slots, SpawnStore, InMain, Free
<1>13. Told'
  BY DEF Told, ReloadType, Numbered, TableType, ProcsType, HandlerIdle, Slots, SpawnStore, InMain, Free
<1> QED
  BY <1>1, <1>2, <1>3, <1>4, <1>5, <1>6, <1>7, <1>8, <1>9, <1>10,
     <1>11, <1>12, <1>13

LEMMA DieStep ==
  ASSUME IInv, NEW p \in live, Die(p)
  PROVE  IInv'
<1> USE MasterAssumption DEF IInv, table, main, handler, stop, procs, forked, loop, reload
<1>1. TableType'
  BY DEF TableType, ProcsType, Startup, Slots, Die, Gone, Free
<1>2. ProcsType'
  BY DEF ProcsType, Die, Gone, Free
<1>3. FlagsType'
  BY DEF FlagsType, Die, Gone, Free
<1>4. Startup'
  BY DEF Startup, TableType, ProcsType, Slots, Die, Gone, Free
<1>5. HandlerIdle'
  BY DEF HandlerIdle, Die, Gone, Free
<1>6. Sweep'
  BY DEF Sweep, TableType, ProcsType, HandlerIdle, Known, Slots, Die, Gone, Free
<1>7. Known'
  BY DEF Known, TableType, ProcsType, Startup, Slots, Die, Gone, Free
<1>8. ExitLeavesNone'
  BY DEF ExitLeavesNone, TableType, ProcsType, Known, Die, Gone, Free
<1>9. StopLeavesNone'
  BY DEF StopLeavesNone, TableType, ProcsType, Sweep, Slots, Die, Gone, Free
<1>10. RespawnsBounded'
  BY DEF RespawnsBounded, TableType, ProcsType, Startup, Slots, Die, Gone, Free
<1>11. ReloadType'
  BY DEF ReloadType, TableType, ProcsType, Slots, Die, Gone, Free
<1>12. Numbered'
  BY DEF Numbered, TableType, ProcsType, Slots, Die, Gone, Free
<1>13. Told'
  BY DEF Told, ReloadType, Numbered, TableType, ProcsType, HandlerIdle, Slots, Die, Gone, Free
<1> QED
  BY <1>1, <1>2, <1>3, <1>4, <1>5, <1>6, <1>7, <1>8, <1>9, <1>10,
     <1>11, <1>12, <1>13

LEMMA WorkerTermStep ==
  ASSUME IInv, NEW p \in live, WorkerTerm(p)
  PROVE  IInv'
<1> USE MasterAssumption DEF IInv, table, main, handler, stop, procs, forked, loop, reload
<1>1. TableType'
  BY DEF TableType, ProcsType, Startup, Slots, WorkerTerm, Gone, Free
<1>2. ProcsType'
  BY DEF ProcsType, WorkerTerm, Gone, Free
<1>3. FlagsType'
  BY DEF FlagsType, WorkerTerm, Gone, Free
<1>4. Startup'
  BY DEF Startup, TableType, ProcsType, Slots, WorkerTerm, Gone, Free
<1>5. HandlerIdle'
  BY DEF HandlerIdle, WorkerTerm, Gone, Free
<1>6. Sweep'
  BY DEF Sweep, TableType, ProcsType, HandlerIdle, Known, Slots, WorkerTerm, Gone, Free
<1>7. Known'
  BY DEF Known, TableType, ProcsType, Startup, Slots, WorkerTerm, Gone, Free
<1>8. ExitLeavesNone'
  BY DEF ExitLeavesNone, TableType, ProcsType, Known, WorkerTerm, Gone, Free
<1>9. StopLeavesNone'
  BY DEF StopLeavesNone, TableType, ProcsType, Sweep, Slots, WorkerTerm, Gone, Free
<1>10. RespawnsBounded'
  BY DEF RespawnsBounded, TableType, ProcsType, Startup, Slots, WorkerTerm, Gone, Free
<1>11. ReloadType'
  BY DEF ReloadType, TableType, ProcsType, Slots, WorkerTerm, Gone, Free
<1>12. Numbered'
  BY DEF Numbered, TableType, ProcsType, Slots, WorkerTerm, Gone, Free
<1>13. Told'
  BY DEF Told, ReloadType, Numbered, TableType, ProcsType, HandlerIdle, Slots, WorkerTerm, Gone, Free
<1> QED
  BY <1>1, <1>2, <1>3, <1>4, <1>5, <1>6, <1>7, <1>8, <1>9, <1>10,
     <1>11, <1>12, <1>13

LEMMA ChldEnterStep ==
  ASSUME IInv, ChldEnter
  PROVE  IInv'
<1> USE MasterAssumption DEF IInv, table, main, handler, stop, procs, forked, loop, reload
<1>1. TableType'
  BY DEF TableType, ProcsType, Startup, Slots, ChldEnter, Free
<1>2. ProcsType'
  BY DEF ProcsType, ChldEnter, Free
<1>3. FlagsType'
  BY DEF FlagsType, ChldEnter, Free
<1>4. Startup'
  BY DEF Startup, TableType, ProcsType, Slots, ChldEnter, Free
<1>5. HandlerIdle'
  BY DEF HandlerIdle, ChldEnter, Free
<1>6. Sweep'
  BY DEF Sweep, TableType, ProcsType, HandlerIdle, Known, Slots, ChldEnter, Free
<1>7. Known'
  BY DEF Known, TableType, ProcsType, Startup, Slots, ChldEnter, Free
<1>8. ExitLeavesNone'
  BY DEF ExitLeavesNone, TableType, ProcsType, Known, ChldEnter, Free
<1>9. StopLeavesNone'
  BY DEF StopLeavesNone, TableType, ProcsType, Sweep, Slots, ChldEnter, Free
<1>10. RespawnsBounded'
  BY DEF RespawnsBounded, TableType, ProcsType, Startup, Slots, ChldEnter, Free
<1>11. ReloadType'
  BY DEF ReloadType, TableType, ProcsType, Slots, ChldEnter, Free
<1>12. Numbered'
  BY DEF Numbered, TableType, ProcsType, Slots, ChldEnter, Free
<1>13. Told'
  BY DEF Told, ReloadType, Numbered, TableType, ProcsType, HandlerIdle, Slots, ChldEnter, Free
<1> QED
  BY <1>1, <1>2, <1>3, <1>4, <1>5, <1>6, <1>7, <1>8, <1>9, <1>10,
     <1>11, <1>12, <1>13

LEMMA ChldStoreStep ==
  ASSUME IInv, ChldStore
  PROVE  IInv'
<1> USE MasterAssumption DEF IInv, table, main, handler, stop, procs, forked, loop, reload
<1>1. TableType'
  BY DEF TableType, ProcsType, Startup, Slots, ChldStore, InChldHandler, Free
<1>2. ProcsType'
  BY DEF ProcsType, ChldStore, InChldHandler, Free
<1>3. FlagsType'
  BY DEF FlagsType, ChldStore, InChldHandler, Free
<1>4. Startup'
  BY DEF Startup, TableType, ProcsType, Slots, ChldStore, InChldHandler, Free
<1>5. HandlerIdle'
  BY DEF HandlerIdle, ChldStore, InChldHandler, Free
<1>6. Sweep'
  BY DEF Sweep, TableType, ProcsType, HandlerIdle, Known, Slots, ChldStore, InChldHandler, Free
<1>7. Known'
  BY DEF Known, TableType, ProcsType, Startup, Slots, ChldStore, InChldHandler, Free
<1>8. ExitLeavesNone'
  BY DEF ExitLeavesNone, TableType, ProcsType, Known, ChldStore, InChldHandler, Free
<1>9. StopLeavesNone'
  BY DEF StopLeavesNone, TableType, ProcsType, Sweep, Slots, ChldStore, InChldHandler, Free
<1>10. RespawnsBounded'
  BY DEF RespawnsBounded, TableType, ProcsType, Startup, Slots, ChldStore, InChldHandler, Free
<1>11. ReloadType'
  BY DEF ReloadType, TableType, ProcsType, Slots, ChldStore, InChldHandler, Free
<1>12. Numbered'
  BY DEF Numbered, TableType, ProcsType, Slots, ChldStore, InChldHandler, Free
<1>13. Told'
  BY DEF Told, ReloadType, Numbered, TableType, ProcsType, HandlerIdle, Slots, ChldStore, InChldHandler, Free
<1> QED
  BY <1>1, <1>2, <1>3, <1>4, <1>5, <1>6, <1>7, <1>8, <1>9, <1>10,
     <1>11, <1>12, <1>13

LEMMA ChldLeaveStep ==
  ASSUME IInv, ChldLeave
  PROVE  IInv'
<1> USE MasterAssumption DEF IInv, table, main, handler, stop, procs, forked, loop, reload
<1>1. TableType'
  BY DEF TableType, ProcsType, Startup, Slots, ChldLeave, InChldHandler, Free
<1>2. ProcsType'
  BY DEF ProcsType, ChldLeave, InChldHandler, Free
<1>3. FlagsType'
  <2>1. reloading' \in BOOLEAN
    BY Zenon DEF ChldLeave
  <2> QED
    BY <2>1 DEF FlagsType, ChldLeave, InChldHandler, Free
<1>4. Startup'
  BY DEF Startup, TableType, ProcsType, Slots, ChldLeave, InChldHandler, Free
<1>5. HandlerIdle'
  BY DEF HandlerIdle, ChldLeave, InChldHandler, Free
<1>6. Sweep'
  BY DEF Sweep, TableType, ProcsType, HandlerIdle, Known, Slots, ChldLeave, InChldHandler, Free
<1>7. Known'
  BY DEF Known, TableType, ProcsType, Startup, Slots, ChldLeave, InChldHandler, Free
<1>8. ExitLeavesNone'
  BY DEF ExitLeavesNone, TableType, ProcsType, Known, ChldLeave, InChldHandler, Free
<1>9. StopLeavesNone'
  BY DEF StopLeavesNone, TableType, ProcsType, Sweep, Slots, ChldLeave, InChldHandler, Free
<1>10. RespawnsBounded'
  BY DEF RespawnsBounded, TableType, ProcsType, Startup, Slots, ChldLeave, InChldHandler, Free
<1>11. ReloadType'
  <2>1. UNCHANGED <<rslot, rpid, since, told, reloads, forks>>
    BY DEF ChldLeave
  <2>2. reloading' => rslot # 0
    BY Zenon DEF ChldLeave
  <2>3. reloading' => rslot > 0
    BY <2>2 DEF ReloadType
  <2> QED
    BY <2>1, <2>3 DEF ReloadType
<1>12. Numbered'
  BY DEF Numbered, TableType, ProcsType, Slots, ChldLeave, InChldHandler, Free
<1>13. Told'
  BY DEF Told, ReloadType, Numbered, TableType, ProcsType, HandlerIdle, Slots, ChldLeave, InChldHandler, Free
<1> QED
  BY <1>1, <1>2, <1>3, <1>4, <1>5, <1>6, <1>7, <1>8, <1>9, <1>10,
     <1>11, <1>12, <1>13

LEMMA TermEnterStep ==
  ASSUME IInv, TermEnter
  PROVE  IInv'
<1> USE MasterAssumption DEF IInv, table, main, handler, stop, procs, forked, loop, reload
<1>1. TableType'
  BY DEF TableType, ProcsType, Startup, Slots, TermEnter, Free
<1>2. ProcsType'
  BY DEF ProcsType, TermEnter, Free
<1>3. FlagsType'
  BY DEF FlagsType, TermEnter, Free
<1>4. Startup'
  BY DEF Startup, TableType, ProcsType, Slots, TermEnter, Free
<1>5. HandlerIdle'
  BY DEF HandlerIdle, TermEnter, Free
<1>6. Sweep'
  <2> SUFFICES ASSUME whole'
               PROVE  /\ ~inChld /\ born = 0
                      /\ \A i \in Slots : pid[i] > 0
                      /\ \A q \in live : \E i \in Slots : i >= 1 /\ pid[i] = q
    BY DEF Sweep, TermEnter, Free
  <2>1. ~inChld /\ born = 0 /\ \A i \in Slots : pid[i] > 0
    BY DEF TermEnter
  <2>2. hborn = 0 /\ why = "none"
    BY <2>1 DEF HandlerIdle, TermEnter, Free
  <2>3. ASSUME NEW q \in live PROVE \E i \in Slots : i >= 1 /\ pid[i] = q
    <3>1. q > 0
      BY DEF ProcsType
    <3> QED
      BY <2>1, <2>2, <3>1 DEF Known, Slots
  <2> QED
    BY <2>1, <2>3
<1>7. Known'
  BY DEF Known, TableType, ProcsType, Startup, Slots, TermEnter, Free
<1>8. ExitLeavesNone'
  BY DEF ExitLeavesNone, TableType, ProcsType, Known, TermEnter, Free
<1>9. StopLeavesNone'
  BY DEF StopLeavesNone, TableType, ProcsType, Sweep, Slots, TermEnter, Free
<1>10. RespawnsBounded'
  BY DEF RespawnsBounded, TableType, ProcsType, Startup, Slots, TermEnter, Free
<1>11. ReloadType'
  BY DEF ReloadType, TableType, ProcsType, Slots, TermEnter, Free
<1>12. Numbered'
  BY DEF Numbered, TableType, ProcsType, Slots, TermEnter, Free
<1>13. Told'
  BY DEF Told, ReloadType, Numbered, TableType, ProcsType, HandlerIdle, Slots, TermEnter, Free
<1> QED
  BY <1>1, <1>2, <1>3, <1>4, <1>5, <1>6, <1>7, <1>8, <1>9, <1>10,
     <1>11, <1>12, <1>13

LEMMA KillOneStep ==
  ASSUME IInv, KillOne
  PROVE  IInv'
<1> USE MasterAssumption DEF IInv, table, main, handler, stop, procs, forked, loop, reload
<1>1. TableType'
  <2>1. CASE killing \in Slots /\ pid[killing] > 0
    <3>1. killing' = killing + 1 /\ pid' = [pid EXCEPT ![killing] = -1]
      BY <2>1 DEF KillOne
    <3>2. UNCHANGED <<cnt, longRuns, next, hslot>>
      BY DEF KillOne
    <3> QED
      BY <2>1, <3>1, <3>2 DEF TableType, Slots
  <2>2. CASE ~(killing \in Slots /\ pid[killing] > 0)
    BY <2>2 DEF TableType, KillOne, Slots
  <2> QED
    BY <2>1, <2>2
<1>2. ProcsType'
  BY DEF ProcsType, KillOne, Exit
<1>3. FlagsType'
  BY DEF FlagsType, KillOne, Exit
<1>4. Startup'
  <2>1. CASE killing \in Slots /\ pid[killing] > 0
    <3>1. /\ pid' = [pid EXCEPT ![killing] = -1]
          /\ UNCHANGED <<next, born, cnt, hborn, hslot>>
      BY <2>1 DEF KillOne
    <3>2. killing < next
      BY <2>1 DEF Startup, TableType, Slots
    <3> QED
      BY <2>1, <3>1, <3>2 DEF Startup, TableType, ProcsType, Slots
  <2>2. CASE ~(killing \in Slots /\ pid[killing] > 0)
    BY <2>2 DEF Startup, KillOne, Exit
  <2> QED
    BY <2>1, <2>2
<1>5. HandlerIdle'
  BY DEF HandlerIdle, KillOne, Exit
<1>6. Sweep'
  <2>1. CASE killing \in Slots /\ pid[killing] > 0
    <3>1. /\ killing' = killing + 1 /\ pid' = [pid EXCEPT ![killing] = -1]
          /\ live' = live \ {pid[killing]}
          /\ UNCHANGED <<why, whole, inChld, born>>
      BY <2>1 DEF KillOne
    <3>2. killing > 0 /\ why = "none"
      BY DEF KillOne
    <3> SUFFICES ASSUME whole
                 PROVE  /\ ~inChld /\ born = 0
                        /\ \A i \in Slots : i >= killing + 1 => pid'[i] > 0
                        /\ \A q \in live' : \E i \in Slots : i >= killing + 1 /\ pid'[i] = q
      BY <3>1 DEF Sweep
    <3>3. /\ ~inChld /\ born = 0
          /\ \A i \in Slots : i >= killing => pid[i] > 0
          /\ \A q \in live : \E i \in Slots : i >= killing /\ pid[i] = q
      BY <3>2 DEF Sweep
    <3>4. \A i \in Slots : i >= killing + 1 => i # killing /\ i >= killing
      BY DEF TableType, Slots
    <3>5. \A i \in Slots : i >= killing + 1 => pid'[i] = pid[i]
      BY <3>1, <3>4 DEF TableType
    <3>6. ASSUME NEW q \in live' PROVE \E i \in Slots : i >= killing + 1 /\ pid'[i] = q
      <4>1. PICK i \in Slots : i >= killing /\ pid[i] = q
        BY <3>1, <3>3
      <4>2. i # killing
        BY <3>1, <4>1
      <4>3. i >= killing + 1
        BY <4>1, <4>2 DEF TableType, Slots
      <4> QED
        BY <4>1, <4>3, <3>5
    <3> QED
      BY <3>3, <3>4, <3>5, <3>6
  <2>2. CASE ~(killing \in Slots /\ pid[killing] > 0)
    BY <2>2 DEF Sweep, KillOne, Exit
  <2> QED
    BY <2>1, <2>2
<1>7. Known'
  <2>1. CASE killing \in Slots /\ pid[killing] > 0
    <3>1. /\ pid' = [pid EXCEPT ![killing] = -1]
          /\ live' = live \ {pid[killing]}
          /\ UNCHANGED <<why, hborn, born>>
      BY <2>1 DEF KillOne
    <3>2. why = "none"
      BY DEF KillOne
    <3> SUFFICES ASSUME NEW q \in live'
                 PROVE  q = born \/ q = hborn \/ \E i \in Slots : pid'[i] = q
      BY <3>1 DEF Known
    <3>3. CASE q = born \/ q = hborn
      BY <3>3
    <3>4. ASSUME NEW i \in Slots, pid[i] = q PROVE \E j \in Slots : pid'[j] = q
      <4>1. i # killing
        BY <3>1, <3>4
      <4> QED
        BY <3>1, <3>4, <4>1 DEF TableType
    <3> QED
      BY <3>1, <3>2, <3>3, <3>4 DEF Known
  <2>2. CASE ~(killing \in Slots /\ pid[killing] > 0)
    BY <2>2 DEF Known, KillOne, Exit
  <2> QED
    BY <2>1, <2>2
<1>8. ExitLeavesNone'
  BY DEF ExitLeavesNone, TableType, ProcsType, Known, KillOne, Exit
<1>9. StopLeavesNone'
  <2>1. CASE killing \in Slots /\ pid[killing] > 0
    BY <2>1 DEF StopLeavesNone, KillOne
  <2>2. CASE ~(killing \in Slots /\ pid[killing] > 0)
    <3>1. live' = live /\ whole' = whole /\ why = "none" /\ killing > 0
      BY <2>2 DEF KillOne
    <3> SUFFICES ASSUME whole, live # {} PROVE FALSE
      BY <3>1 DEF StopLeavesNone
    <3>2. PICK i \in Slots : i >= killing
      BY <3>1 DEF Sweep
    <3>3. killing \in Slots
      BY <3>1, <3>2 DEF TableType, Slots
    <3>4. pid[killing] > 0
      BY <3>1, <3>3 DEF Sweep, TableType, Slots
    <3> QED
      BY <2>2, <3>3, <3>4
  <2> QED
    BY <2>1, <2>2
<1>10. RespawnsBounded'
  BY DEF RespawnsBounded, TableType, ProcsType, Startup, Slots, KillOne, Exit
<1>11. ReloadType'
  BY DEF ReloadType, TableType, ProcsType, Slots, KillOne, Exit
<1>12. Numbered'
  <2>1. UNCHANGED <<born, hborn, forks>> /\ forks \in Nat
    BY DEF KillOne, ProcsType
  <2>2. pid' = pid \/ pid' = [pid EXCEPT ![killing] = -1]
    BY DEF KillOne
  <2>3. \A i \in Slots : pid'[i] = pid[i] \/ pid'[i] = -1
    BY <2>2 DEF TableType
  <2>4. \A i \in Slots : pid'[i] <= forks
    BY <2>1, <2>3 DEF Numbered
  <2> QED
    BY <2>1, <2>4 DEF Numbered
<1>13. Told'
  BY DEF Told, ReloadType, Numbered, TableType, ProcsType, HandlerIdle, Slots, KillOne, Exit
<1> QED
  BY <1>1, <1>2, <1>3, <1>4, <1>5, <1>6, <1>7, <1>8, <1>9, <1>10,
     <1>11, <1>12, <1>13

LEMMA TermSecondStep ==
  ASSUME IInv, TermSecond
  PROVE  IInv'
<1> USE MasterAssumption DEF IInv, table, main, handler, stop, procs, forked, loop, reload
<1>1. TableType'
  BY DEF TableType, ProcsType, Startup, Slots, TermSecond, Exit, Reached
<1>2. ProcsType'
  BY DEF ProcsType, TermSecond, Exit, Reached
<1>3. FlagsType'
  BY DEF FlagsType, TermSecond, Exit, Reached
<1>4. Startup'
  BY DEF Startup, TableType, ProcsType, Slots, TermSecond, Exit, Reached
<1>5. HandlerIdle'
  BY DEF HandlerIdle, TermSecond, Exit, Reached
<1>6. Sweep'
  BY DEF Sweep, TableType, ProcsType, HandlerIdle, Known, Slots, TermSecond, Exit, Reached
<1>7. Known'
  BY DEF Known, TableType, ProcsType, Startup, Slots, TermSecond, Exit, Reached
<1>8. ExitLeavesNone'
  BY DEF ExitLeavesNone, TableType, ProcsType, Known, TermSecond, Exit, Reached
<1>9. StopLeavesNone'
  BY DEF StopLeavesNone, TableType, ProcsType, Sweep, Slots, TermSecond, Exit, Reached
<1>10. RespawnsBounded'
  BY DEF RespawnsBounded, TableType, ProcsType, Startup, Slots, TermSecond, Exit, Reached
<1>11. ReloadType'
  BY DEF ReloadType, TableType, ProcsType, Slots, TermSecond, Exit, Reached
<1>12. Numbered'
  BY DEF Numbered, TableType, ProcsType, Slots, TermSecond, Exit, Reached
<1>13. Told'
  BY DEF Told, ReloadType, Numbered, TableType, ProcsType, HandlerIdle, Slots, TermSecond, Exit, Reached
<1> QED
  BY <1>1, <1>2, <1>3, <1>4, <1>5, <1>6, <1>7, <1>8, <1>9, <1>10,
     <1>11, <1>12, <1>13

LEMMA ReloadEnterStep ==
  ASSUME IInv, ReloadEnter
  PROVE  IInv'
<1> USE MasterAssumption DEF IInv, table, main, handler, stop, procs, forked, loop, reload
<1>1. TableType'
  BY DEF TableType, ProcsType, Startup, Slots, ReloadEnter
<1>2. ProcsType'
  BY DEF ProcsType, ReloadEnter
<1>3. FlagsType'
  BY DEF FlagsType, ReloadEnter
<1>4. Startup'
  BY DEF Startup, TableType, ProcsType, Slots, ReloadEnter
<1>5. HandlerIdle'
  BY DEF HandlerIdle, ReloadEnter
<1>6. Sweep'
  BY DEF Sweep, TableType, ProcsType, HandlerIdle, Known, Slots, ReloadEnter
<1>7. Known'
  BY DEF Known, TableType, ProcsType, Startup, Slots, ReloadEnter
<1>8. ExitLeavesNone'
  BY DEF ExitLeavesNone, TableType, ProcsType, Known, ReloadEnter
<1>9. StopLeavesNone'
  BY DEF StopLeavesNone, TableType, ProcsType, Sweep, Slots, ReloadEnter
<1>10. RespawnsBounded'
  BY DEF RespawnsBounded, TableType, ProcsType, Startup, Slots, ReloadEnter
<1>11. ReloadType'
  <2>1. CASE pidfile
    <3>1. \A i \in Slots : pid[i] > 0 => pid[i] \in 1..forks
      BY DEF Numbered, TableType, ProcsType
    <3>2. since' = {pid[i] : i \in {j \in Slots : pid[j] > 0}}
      BY <2>1 DEF ReloadEnter
    <3>3. forks' = forks /\ since' \subseteq 1..forks
      BY <3>1, <3>2 DEF ReloadEnter
    <3>4. rslot' = 1 /\ rpid' = rpid /\ told' = told /\ rpid = 0 /\ reloads' \in Nat
      BY <2>1 DEF ReloadEnter, ReloadType, Slots
    <3> QED
      BY <3>3, <3>4 DEF ReloadType
  <2>2. CASE ~pidfile
    <3>1. UNCHANGED <<rslot, rpid, reloading, since, told, forks>>
      BY <2>2 DEF ReloadEnter
    <3>2. reloads' \in Nat
      BY DEF ReloadEnter, ReloadType
    <3> QED
      BY <3>1, <3>2 DEF ReloadType
  <2> QED
    BY <2>1, <2>2
<1>12. Numbered'
  BY DEF Numbered, TableType, ProcsType, Slots, ReloadEnter
<1>13. Told'
  BY DEF Told, ReloadType, Numbered, TableType, ProcsType, HandlerIdle, Slots, ReloadEnter
<1> QED
  BY <1>1, <1>2, <1>3, <1>4, <1>5, <1>6, <1>7, <1>8, <1>9, <1>10,
     <1>11, <1>12, <1>13

LEMMA ReloadTestStep ==
  ASSUME IInv, ReloadTest
  PROVE  IInv'
<1> USE MasterAssumption DEF IInv, table, main, handler, stop, procs, forked, loop, reload
<1>1. TableType'
  BY DEF TableType, ProcsType, Startup, Slots, ReloadTest
<1>2. ProcsType'
  BY DEF ProcsType, ReloadTest
<1>3. FlagsType'
  BY DEF FlagsType, ReloadTest
<1>4. Startup'
  BY DEF Startup, TableType, ProcsType, Slots, ReloadTest
<1>5. HandlerIdle'
  BY DEF HandlerIdle, ReloadTest
<1>6. Sweep'
  BY DEF Sweep, TableType, ProcsType, HandlerIdle, Known, Slots, ReloadTest
<1>7. Known'
  BY DEF Known, TableType, ProcsType, Startup, Slots, ReloadTest
<1>8. ExitLeavesNone'
  BY DEF ExitLeavesNone, TableType, ProcsType, Known, ReloadTest
<1>9. StopLeavesNone'
  BY DEF StopLeavesNone, TableType, ProcsType, Sweep, Slots, ReloadTest
<1>10. RespawnsBounded'
  BY DEF RespawnsBounded, TableType, ProcsType, Startup, Slots, ReloadTest
<1>11. ReloadType'
  <2>1. UNCHANGED <<forks, reloads>>
    BY DEF ReloadTest
  <2>2. CASE rslot \in Slots /\ pid[rslot] > 0
    <3>1. rpid' = pid[rslot] /\ UNCHANGED <<rslot, reloading, since, told>>
      BY <2>2 DEF ReloadTest
    <3>2. rpid' \in Nat
      BY <2>2, <3>1 DEF TableType
    <3> QED
      BY <2>1, <2>2, <3>1, <3>2 DEF ReloadType
  <2>3. CASE ~(rslot \in Slots /\ pid[rslot] > 0)
    <3>1. rslot' = 0 /\ ~reloading' /\ since' = {} /\ told' = {} /\ rpid' = 0
      BY <2>3 DEF ReloadTest
    <3> QED
      BY <2>1, <3>1 DEF ReloadType
  <2> QED
    BY <2>2, <2>3
<1>12. Numbered'
  BY DEF Numbered, TableType, ProcsType, Slots, ReloadTest
<1>13. Told'
  BY DEF Told, ReloadType, Numbered, TableType, ProcsType, HandlerIdle, Slots, ReloadTest
<1> QED
  BY <1>1, <1>2, <1>3, <1>4, <1>5, <1>6, <1>7, <1>8, <1>9, <1>10,
     <1>11, <1>12, <1>13

LEMMA ReloadKillStep ==
  ASSUME IInv, ReloadKill
  PROVE  IInv'
<1> USE MasterAssumption DEF IInv, table, main, handler, stop, procs, forked, loop, reload
<1>1. TableType'
  BY DEF TableType, ProcsType, Startup, Slots, ReloadKill
<1>2. ProcsType'
  BY DEF ProcsType, ReloadKill
<1>3. FlagsType'
  BY DEF FlagsType, ReloadKill
<1>4. Startup'
  BY DEF Startup, TableType, ProcsType, Slots, ReloadKill
<1>5. HandlerIdle'
  BY DEF HandlerIdle, ReloadKill
<1>6. Sweep'
  BY DEF Sweep, TableType, ProcsType, HandlerIdle, Known, Slots, ReloadKill
<1>7. Known'
  BY DEF Known, TableType, ProcsType, Startup, Slots, ReloadKill
<1>8. ExitLeavesNone'
  BY DEF ExitLeavesNone, TableType, ProcsType, Known, ReloadKill
<1>9. StopLeavesNone'
  BY DEF StopLeavesNone, TableType, ProcsType, Sweep, Slots, ReloadKill
<1>10. RespawnsBounded'
  BY DEF RespawnsBounded, TableType, ProcsType, Startup, Slots, ReloadKill
<1>11. ReloadType'
  BY DEF ReloadType, TableType, ProcsType, Slots, ReloadKill
<1>12. Numbered'
  BY DEF Numbered, TableType, ProcsType, Slots, ReloadKill
<1>13. Told'
  BY DEF Told, ReloadType, Numbered, TableType, ProcsType, HandlerIdle, Slots, ReloadKill
<1> QED
  BY <1>1, <1>2, <1>3, <1>4, <1>5, <1>6, <1>7, <1>8, <1>9, <1>10,
     <1>11, <1>12, <1>13

LEMMA StutterStep ==
  ASSUME IInv, UNCHANGED vars
  PROVE  IInv'
<1> USE MasterAssumption DEF IInv, table, main, handler, stop, procs, forked, loop, reload
<1>1. TableType'
  BY DEF TableType, ProcsType, Startup, Slots, vars
<1>2. ProcsType'
  BY DEF ProcsType, vars
<1>3. FlagsType'
  BY DEF FlagsType, vars
<1>4. Startup'
  BY DEF Startup, TableType, ProcsType, Slots, vars
<1>5. HandlerIdle'
  BY DEF HandlerIdle, vars
<1>6. Sweep'
  BY DEF Sweep, TableType, ProcsType, HandlerIdle, Known, Slots, vars
<1>7. Known'
  BY DEF Known, TableType, ProcsType, Startup, Slots, vars
<1>8. ExitLeavesNone'
  BY DEF ExitLeavesNone, TableType, ProcsType, Known, vars
<1>9. StopLeavesNone'
  BY DEF StopLeavesNone, TableType, ProcsType, Sweep, Slots, vars
<1>10. RespawnsBounded'
  BY DEF RespawnsBounded, TableType, ProcsType, Startup, Slots, vars
<1>11. ReloadType'
  BY DEF ReloadType, TableType, ProcsType, Slots, vars
<1>12. Numbered'
  BY DEF Numbered, TableType, ProcsType, Slots, vars
<1>13. Told'
  BY DEF Told, ReloadType, Numbered, TableType, ProcsType, HandlerIdle, Slots, vars
<1> QED
  BY <1>1, <1>2, <1>3, <1>4, <1>5, <1>6, <1>7, <1>8, <1>9, <1>10,
     <1>11, <1>12, <1>13

\* waitpid returns p; its slot, if it has one, is emptied before anything else.
LEMMA ChldReapStep ==
  ASSUME IInv, NEW p \in zombie, ChldReap(p)
  PROVE  IInv'
<1> USE MasterAssumption DEF IInv
<1>1. /\ why = "none" /\ killing = 0 /\ inChld /\ hborn = 0
      /\ UNCHANGED <<next, born, inChld, killing, whole>>
      /\ zombie' = IF why' = "none" THEN zombie \ {p} ELSE {}
      /\ chld' \in BOOLEAN /\ pidfile' \in BOOLEAN
      /\ ~reloading /\ UNCHANGED <<rslot, rpid, reloading, since, told, reloads>>
  BY DEF ChldReap, InChldHandler, Free, main, reload, loop
<1>2. p > 0 /\ p \notin live
  BY DEF ProcsType
<1>3. HandlerIdle' /\ Sweep'
  BY <1>1 DEF HandlerIdle, Sweep
<1>4. CASE UNCHANGED <<table, forked, live, hslot, hborn, why>>
  <2> USE <1>1, <1>4 DEF table, forked
  <2>1. TableType' /\ ProcsType' /\ FlagsType'
    BY DEF TableType, ProcsType, FlagsType
  <2>4. ReloadType' /\ Numbered' /\ Told'
    BY DEF ReloadType, Numbered, Told
  <2>2. Startup' /\ Known' /\ RespawnsBounded'
    BY DEF Startup, Known, RespawnsBounded
  <2>3. ExitLeavesNone' /\ StopLeavesNone'
    BY DEF ExitLeavesNone, StopLeavesNone
  <2> QED
    BY <1>3, <2>1, <2>2, <2>3, <2>4
<1>5. ASSUME NEW i \in Slots, pid[i] = p, pid' = [pid EXCEPT ![i] = -1],
             (\E ranLong \in BOOLEAN : Respawn(i, ranLong)) \/ GiveUp(i)
      PROVE  IInv'
  <2>1. i < next /\ pid' \in [Slots -> Int] /\ pid'[i] = -1
    BY <1>2, <1>5 DEF Startup, TableType, Slots
  <2>2. \A q \in live : q = born \/ \E j \in Slots : pid'[j] = q
    <3> SUFFICES ASSUME NEW q \in live, q # born PROVE \E j \in Slots : pid'[j] = q
      OBVIOUS
    <3>1. PICK j \in Slots : pid[j] = q
      <4>1. q # hborn
        BY <1>1 DEF ProcsType
      <4> QED
        BY <1>1, <4>1 DEF Known
    <3>2. j # i
      BY <1>2, <1>5, <3>1
    <3> QED
      BY <1>5, <3>1, <3>2 DEF TableType
  <2>3. \A j \in Slots : j >= next => pid'[j] = 0
    BY <1>5, <2>1 DEF Startup, TableType, Slots
  <2>6. \A j \in Slots : pid'[j] \in since => pid'[j] = pid[j]
    <3>1. -1 \notin since
      BY DEF ReloadType
    <3> QED
      BY <1>5, <3>1 DEF TableType
  <2>4. ASSUME NEW ranLong \in BOOLEAN, Respawn(i, ranLong) PROVE IInv'
    <3>1. /\ cnt[i] < 3 \/ ranLong
          /\ cnt' = [cnt EXCEPT ![i] = @ + 1]
          /\ longRuns' = [longRuns EXCEPT ![i] = IF ranLong THEN @ + 1 ELSE @]
          /\ hslot' = i /\ why' = why
      BY <2>4 DEF Respawn
    <3>2. \/ forks' = forks + 1 /\ live' = live \cup {forks + 1} /\ hborn' = forks + 1
          \/ forks' = forks /\ live' = live /\ hborn' = 0
      BY <2>4, ForkEffect DEF Respawn, forked
    <3>3. TableType'
      BY <1>1, <2>1, <3>1 DEF TableType
    <3>4. ProcsType'
      <4>1. born' = born /\ zombie' = zombie \ {p}
        BY <1>1, <3>1
      <4>2. CASE forks' = forks + 1 /\ live' = live \cup {forks + 1} /\ hborn' = forks + 1
        BY <4>1, <4>2 DEF ProcsType
      <4>3. CASE forks' = forks /\ live' = live /\ hborn' = 0
        BY <4>1, <4>3 DEF ProcsType
      <4> QED
        BY <3>2, <4>2, <4>3
    <3>5. FlagsType'
      BY <1>1, <3>1 DEF FlagsType
    <3>6. Startup'
      <4>1. UNCHANGED <<next, born>> /\ i < next /\ pid'[i] <= 0 /\ next \in Nat
        BY <1>1, <1>5, <2>1, <2>3 DEF Startup, TableType
      <4>2. \A j \in Slots : j # i => cnt'[j] = cnt[j]
        BY <3>1 DEF TableType
      <4>3. \A j \in Slots : j > next \/ (j = next /\ born = 0) => cnt'[j] = 0
        BY <4>1, <4>2 DEF Startup, Slots
      <4> QED
        BY <2>3, <3>1, <4>1, <4>3 DEF Startup
    <3>7. Known'
      BY <1>1, <2>2, <3>1, <3>2 DEF Known
    <3>8. ExitLeavesNone' /\ StopLeavesNone'
      BY <1>1, <3>1 DEF ExitLeavesNone, StopLeavesNone
    <3>9. RespawnsBounded'
      BY <3>1 DEF RespawnsBounded, TableType
    <3>10. ReloadType'
      BY <1>1, <3>2 DEF ReloadType, ProcsType
    <3>11. Numbered'
      <4>1. \A j \in Slots : pid'[j] = pid[j] \/ pid'[j] = -1
        BY <1>5 DEF TableType
      <4>2. born' = born /\ forks <= forks' /\ hborn' <= forks' /\ forks \in Nat
        BY <1>1, <3>2 DEF ProcsType
      <4>3. born <= forks /\ forks' \in Nat /\ \A j \in Slots : pid[j] <= forks /\ pid[j] \in Int
        BY <3>2 DEF Numbered, TableType, ProcsType
      <4>4. \A j \in Slots : pid'[j] <= forks'
        BY <4>1, <4>2, <4>3
      <4>5. born \in Nat /\ born <= forks'
        BY <4>2, <4>3 DEF ProcsType
      <4> QED
        BY <4>2, <4>4, <4>5 DEF Numbered
    <3>12. hborn' \notin since /\ \A q \in live' : q \in since => q \in live
      BY <3>2 DEF ReloadType, ProcsType
    <3>13. Told'
      BY <1>1, <2>6, <3>12 DEF Told, ReloadType
    <3> QED
      BY <1>3, <3>3, <3>4, <3>5, <3>6, <3>7, <3>8, <3>9, <3>10, <3>11, <3>13
  <2>5. CASE GiveUp(i)
    <3>1. /\ UNCHANGED <<cnt, longRuns, forks, live, hslot, hborn>>
          /\ why' = IF have_worker(pid') THEN why ELSE "no_worker"
      BY <2>5 DEF GiveUp, forked
    <3>2. TableType' /\ RespawnsBounded'
      BY <1>1, <2>1, <3>1 DEF TableType, RespawnsBounded
    <3>3. ProcsType'
      BY <1>1, <3>1 DEF ProcsType
    <3>4. FlagsType'
      BY <1>1, <3>1 DEF FlagsType
    <3>5. Startup'
      BY <1>1, <2>1, <2>3, <3>1 DEF Startup, TableType, ProcsType, Slots
    <3>6. Known' /\ StopLeavesNone'
      BY <1>1, <2>2, <3>1 DEF Known, StopLeavesNone
    <3>7. ExitLeavesNone'
      <4> SUFFICES ASSUME ~have_worker(pid'), born = 0, NEW q \in live PROVE FALSE
        BY <1>1, <3>1 DEF ExitLeavesNone
      <4>1. q > 0
        BY DEF ProcsType
      <4> QED
        BY <2>2, <4>1 DEF have_worker
    <3>8. ReloadType'
      BY <1>1, <3>1 DEF ReloadType
    <3>9. Numbered'
      BY <1>1, <1>5, <3>1 DEF Numbered, TableType, ProcsType
    <3>10. Told'
      BY <1>1, <2>6, <3>1 DEF Told, ReloadType
    <3> QED
      BY <1>3, <3>2, <3>3, <3>4, <3>5, <3>6, <3>7, <3>8, <3>9, <3>10
  <2> QED
    BY <1>5, <2>4, <2>5
<1> QED
  BY <1>4, <1>5 DEF ChldReap

LEMMA NextIInv == IInv /\ [Next]_vars => IInv'
BY SpawnForkStep, SpawnStoreStep, DieStep, WorkerTermStep, ChldEnterStep,
   ChldReapStep, ChldStoreStep, ChldLeaveStep, TermEnterStep, KillOneStep,
   TermSecondStep, ReloadEnterStep, ReloadTestStep, ReloadKillStep, StutterStep DEF Next

LEMMA AlwaysIInv == Spec => []IInv
BY InitIInv, NextIInv, PTL DEF Spec

\* Type correctness of the master's table and of the processes.
THEOREM TypeCorrect == Spec => []TypeOK
<1>1. IInv => TypeOK
  BY TypeParts DEF IInv
<1> QED
  BY <1>1, AlwaysIInv, PTL

\* Whatever signal interrupts hproc_spawn or a handler, the master loses track of
\* no running worker.
THEOREM NoWorkerForgotten == Spec => []WorkersKnown
<1>1. IInv => WorkersKnown
  BY KnownIsWorkersKnown DEF IInv
<1> QED
  BY <1>1, AlwaysIInv, PTL

\* A master that exits because it has no worker left (GiveUp), and is not
\* between fork and the store of a pid, leaves none running.
THEOREM ExitLeavesNoWorker == Spec => []ExitLeavesNone
<1>1. IInv => ExitLeavesNone
  BY DEF IInv
<1> QED
  BY <1>1, AlwaysIInv, PTL

\* A stop whose kill loop meets a full table leaves no worker running.
THEOREM StopLeavesNoWorker == Spec => []StopLeavesNone
<1>1. IInv => StopLeavesNone
  BY DEF IInv
<1> QED
  BY <1>1, AlwaysIInv, PTL

\* A reload loop that comes to its end has told every worker that was there when
\* it began and still lives, up to an empty slot at which it broke, whatever
\* deaths and respawns interrupted it.
THEOREM ReloadIsForwarded == Spec => ReloadReachesAll
<1> DEFINE A == ReloadTest /\ rslot' = 0 =>
                  \A i \in Slots : pid[i] \in since \cap live =>
                      pid[i] \in told \/ \E j \in 1..i : pid[j] <= 0
<1>1. IInv /\ [Next]_vars => [A]_vars
  <2> SUFFICES ASSUME IInv, ReloadTest, rslot' = 0, NEW i \in Slots,
                      pid[i] \in since, pid[i] \in live,
                      \A j \in 1..i : ~(pid[j] <= 0)
               PROVE  pid[i] \in told
    OBVIOUS
  <2>1. ~(rslot \in Slots /\ pid[rslot] > 0) /\ why = "none"
    <3> SUFFICES ASSUME rslot \in Slots, pid[rslot] > 0 PROVE FALSE
      BY DEF ReloadTest
    <3>1. rslot' = rslot
      BY DEF ReloadTest
    <3> QED
      BY <3>1 DEF Slots
  <2>2. pid \in [Slots -> Int] /\ rslot \in 0..(N + 1)
    BY DEF IInv, TableType, ReloadType
  <2>3. rslot > 0
    BY <2>2 DEF ReloadTest, IInv, ReloadType
  <2>4. i < rslot
    <3> SUFFICES ASSUME rslot <= i PROVE FALSE
      BY <2>2 DEF Slots
    <3>1. rslot \in 1..i /\ rslot \in Slots
      BY <2>2, <2>3, MasterAssumption DEF Slots
    <3> QED
      BY <2>1, <2>2, <3>1
  <2> QED
    BY <2>1, <2>4 DEF IInv, Told
<1> HIDE DEF A
<1>2. Spec => [][A]_vars
  BY <1>1, AlwaysIInv, PTL DEF Spec
<1> QED
  BY <1>2 DEF A, ReloadReachesAll

\* No slot is started more often than the limit of the SIGCHLD handler allows.
THEOREM CrashLoopEnds == Spec => []RespawnsBounded
<1>1. IInv => RespawnsBounded
  BY DEF IInv
<1> QED
  BY <1>1, AlwaysIInv, PTL

-----------------------------------------------------------------------------
(* What ZombiesReaped rests on in every state. *)

\* While the master runs and is not stopping, a dead worker that was not waited
\* for has SIGCHLD pending or its handler at work.
DeathIsSignalled == Free /\ zombie # {} => chld \/ inChld

\* No death is forgotten, although SIGCHLD is not queued: the handler clears it
\* on entry, before its first waitpid, and leaves only when none is dead.
THEOREM DeathAlwaysSignalled == Spec => []DeathIsSignalled
<1>1. Init => DeathIsSignalled
  BY DEF Init, DeathIsSignalled
<1>2. IInv /\ DeathIsSignalled /\ [Next]_vars => DeathIsSignalled'
  <2> SUFFICES ASSUME IInv, DeathIsSignalled, [Next]_vars PROVE DeathIsSignalled'
    OBVIOUS
  <2> USE DEF DeathIsSignalled, Free, table, main, handler, stop, procs, forked, loop, reload
  <2>1. CASE SpawnFork \/ SpawnStore \/ ChldStore \/ UNCHANGED vars
    BY <2>1 DEF SpawnFork, SpawnStore, ChldStore, vars
  <2>7. CASE ReloadEnter \/ ReloadTest \/ ReloadKill
    BY <2>7 DEF ReloadEnter, ReloadTest, ReloadKill
  <2>2. CASE \E p \in live : Die(p) \/ WorkerTerm(p)
    BY <2>2 DEF Die, WorkerTerm, Gone
  <2>3. CASE ChldEnter
    BY <2>3 DEF ChldEnter
  <2>4. CASE \E p \in zombie : ChldReap(p)
    <3>1. inChld /\ inChld' = inChld
      BY <2>4 DEF ChldReap, InChldHandler
    <3> QED
      BY <3>1
  <2>5. CASE ChldLeave
    BY <2>5 DEF ChldLeave
  <2>6. CASE TermEnter \/ KillOne \/ TermSecond
    <3>1. killing' # 0 \/ why' # "none"
      <4>1. CASE TermEnter \/ TermSecond
        BY <4>1 DEF TermEnter, TermSecond, Exit
      <4>2. CASE KillOne
        <5>1. killing > 0 /\ (killing' = killing + 1 \/ why' = "stop")
          BY <4>2 DEF KillOne, Exit
        <5> QED
          BY <5>1 DEF IInv, TableType
      <4> QED
        BY <2>6, <4>1, <4>2
    <3> QED
      BY <3>1
  <2> QED
    BY <2>1, <2>2, <2>3, <2>4, <2>5, <2>6, <2>7 DEF Next
<1> QED
  BY <1>1, <1>2, AlwaysIInv, PTL DEF Spec
=============================================================================
