-------------------------- MODULE LoopEventsProofs --------------------------
(***************************************************************************)
(* Proofs about LoopEvents for any number of threads and posts, and about  *)
(* HttpServerStop, whose stop relies on the event that it posts, for any   *)
(* number of workers.                                                      *)
(***************************************************************************)
EXTENDS LoopEvents, HttpServerStop, FiniteSetTheorems, TLAPS

\* The effect of a step on the event queue: one case per action.
LEMMA StepCases ==
    ASSUME [Next]_vars
    PROVE  \/ \E t \in Threads : postEvent(t)
           \/ \E t \in Threads : PostRaw(t)
           \/ \E t \in Threads : LockAndWrite(t)
           \/ \E t \in Threads : PushAndUnlock(t)
           \/ ReadSockpair
           \/ TakeEvent
           \/ onCustomEvent
           \/ Return
           \/ UNCHANGED vars
  BY DEF Next, Post, LoopStep

\* A thread inside hloop_post_event has an event to post.
ArgInv == \A t \in Threads : pc[t] # "idle" => arg[t] \in Event

\* custom_events_mutex is held by the thread between hwrite and push_back.
MutexInv == \A t \in Threads : pc[t] = "push" <=> custom_events_mutex = t

\* A handler about to run has an event.
CurrentInv == lpc = "custom" => current \in Event

CoreInv == TypeOK /\ ArgInv /\ MutexInv /\ CurrentInv

LEMMA CoreInit == Init => CoreInv
  BY LoopEventsAssumption DEF Init, CoreInv, TypeOK, ArgInv, MutexInv, CurrentInv, Threads

LEMMA CoreStep ==
    ASSUME CoreInv, [Next]_vars
    PROVE  CoreInv'
  <1> USE LoopEventsAssumption
  <1>1. ASSUME NEW t \in Threads, NEW k \in {"fn", "raw"}, Begin(t, k)
        PROVE  /\ nposted' \in 0..MaxPosts
               /\ [id |-> nposted + 1, kind |-> k, by |-> t] \in Event
               /\ arg' \in [Threads -> Event \cup {None}]
               /\ ArgInv'
               /\ pc' \in [Threads -> {"idle", "post", "push"}]
               /\ MutexInv'
    <2> DEFINE e == [id |-> nposted + 1, kind |-> k, by |-> t]
    <2>1. /\ nposted' = nposted + 1
          /\ arg' = [arg EXCEPT ![t] = e]
          /\ pc' = [pc EXCEPT ![t] = "post"]
          /\ nposted < MaxPosts
          /\ pc[t] = "idle"
          /\ custom_events_mutex' = custom_events_mutex
      BY <1>1 DEF Begin, MayPost
    <2>2. nposted' \in 0..MaxPosts /\ e \in Event
      BY <2>1 DEF CoreInv, TypeOK, Event
    <2> HIDE DEF e
    <2>3. arg' \in [Threads -> Event \cup {None}] /\ ArgInv'
      BY <2>1, <2>2 DEF CoreInv, TypeOK, ArgInv
    <2>4. pc' \in [Threads -> {"idle", "post", "push"}] /\ MutexInv'
      BY <2>1 DEF CoreInv, TypeOK, MutexInv
    <2> QED
      BY <2>2, <2>3, <2>4 DEF e
  <1>2. ASSUME NEW t \in Threads, postEvent(t)
        PROVE  CoreInv'
    <2>1. Begin(t, "fn")
      BY <1>2 DEF postEvent
    <2>2. customEvents' \in Seq(Event)
      <3> DEFINE e == [id |-> nposted + 1, kind |-> "fn", by |-> t]
      <3>1. e \in Event
        BY <1>1, <2>1
      <3>2. customEvents' = Append(customEvents, e)
        BY <1>2 DEF postEvent
      <3> HIDE DEF e
      <3> QED
        BY <3>1, <3>2 DEF CoreInv, TypeOK
    <2> QED
      BY <1>1, <2>1, <2>2 DEF Begin, CoreInv, TypeOK, CurrentInv
  <1>3. ASSUME NEW t \in Threads, PostRaw(t)
        PROVE  CoreInv'
    <2>1. Begin(t, "raw") /\ customEvents' = customEvents
      BY <1>3 DEF PostRaw
    <2> QED
      BY <1>1, <2>1 DEF Begin, CoreInv, TypeOK, CurrentInv
  <1>4. ASSUME NEW t \in Threads, LockAndWrite(t)
        PROVE  CoreInv'
    BY <1>4 DEF LockAndWrite, CoreInv, TypeOK, ArgInv, MutexInv, CurrentInv, Threads
  <1>5. ASSUME NEW t \in Threads, PushAndUnlock(t)
        PROVE  CoreInv'
    BY <1>5 DEF PushAndUnlock, CoreInv, TypeOK, ArgInv, MutexInv, CurrentInv, Threads
  <1>6. CASE ReadSockpair
    BY <1>6 DEF ReadSockpair, CoreInv, TypeOK, ArgInv, MutexInv, CurrentInv
  <1>7. CASE TakeEvent
    <2>1. CASE custom_events = <<>>
      BY <1>7, <2>1 DEF TakeEvent, CoreInv, TypeOK, ArgInv, MutexInv, CurrentInv
    <2>2. CASE custom_events # <<>>
      <3> DEFINE ev == Head(custom_events)
      <3>1. ev \in Event /\ Tail(custom_events) \in Seq(Event)
        BY <2>2 DEF CoreInv, TypeOK
      <3>2. ran' \in Seq(Event)
        BY <1>7, <3>1 DEF TakeEvent, CoreInv, TypeOK
      <3> QED
        BY <1>7, <2>2, <3>1, <3>2 DEF TakeEvent, CoreInv, TypeOK, ArgInv, MutexInv, CurrentInv
    <2> QED
      BY <2>1, <2>2
  <1>8. CASE onCustomEvent
    <2>1. Head(customEvents) \in Event /\ Tail(customEvents) \in Seq(Event)
      BY <1>8 DEF onCustomEvent, CoreInv, TypeOK
    <2>2. ran' \in Seq(Event)
      BY <1>8, <2>1 DEF onCustomEvent, CoreInv, TypeOK
    <2> QED
      BY <1>8, <2>1, <2>2 DEF onCustomEvent, CoreInv, TypeOK, ArgInv, MutexInv, CurrentInv
  <1>9. CASE Return
    BY <1>9 DEF Return, CoreInv, TypeOK, ArgInv, MutexInv, CurrentInv
  <1>10. CASE UNCHANGED vars
    BY <1>10 DEF vars, CoreInv, TypeOK, ArgInv, MutexInv, CurrentInv
  <1> QED
    BY <1>2, <1>3, <1>4, <1>5, <1>6, <1>7, <1>8, <1>9, <1>10, StepCases

LEMMA Core == Spec => []CoreInv
  BY CoreInit, CoreStep, PTL DEF Spec

\* Type correctness of the posting protocol.
THEOREM TypeCorrect == Spec => []TypeOK
  <1>1. CoreInv => TypeOK
    BY DEF CoreInv
  <1> QED
    BY <1>1, Core, PTL
-----------------------------------------------------------------------------
\* One byte for every queued event, whatever the interleaving of posters with
\* the loop's reads.
THEOREM Wakeups == Spec => []WakeupPerEvent
  <1>1. Init => WakeupPerEvent
    BY DEF Init, WakeupPerEvent, InPush
  <1>2. CoreInv /\ WakeupPerEvent /\ [Next]_vars => WakeupPerEvent'
    <2> SUFFICES ASSUME CoreInv, WakeupPerEvent, [Next]_vars PROVE WakeupPerEvent'
      OBVIOUS
    <2>0. /\ sockpair \in Nat /\ readbytes \in Nat
          /\ custom_events \in Seq(Event)
          /\ None \notin Threads
      BY LoopEventsAssumption DEF CoreInv, TypeOK
    <2>1. ASSUME NEW t \in Threads, postEvent(t) \/ PostRaw(t)
          PROVE  WakeupPerEvent'
      BY <2>1 DEF postEvent, PostRaw, Begin, WakeupPerEvent, InPush
    <2>2. ASSUME NEW t \in Threads, LockAndWrite(t)
          PROVE  WakeupPerEvent'
      BY <2>0, <2>2 DEF LockAndWrite, WakeupPerEvent, InPush
    <2>3. ASSUME NEW t \in Threads, PushAndUnlock(t)
          PROVE  WakeupPerEvent'
      <3>1. custom_events_mutex = t /\ arg[t] \in Event
        BY <2>3 DEF PushAndUnlock, CoreInv, MutexInv, ArgInv
      <3>2. Len(custom_events') = Len(custom_events) + 1
        BY <2>0, <2>3, <3>1 DEF PushAndUnlock
      <3> QED
        BY <2>0, <2>3, <3>1, <3>2 DEF PushAndUnlock, WakeupPerEvent, InPush
    <2>4. CASE ReadSockpair
      BY <2>0, <2>4, LoopEventsAssumption DEF ReadSockpair, WakeupPerEvent, InPush
    <2>5. CASE TakeEvent
      <3>1. custom_events # <<>>
        BY <2>0, <2>5 DEF TakeEvent, WakeupPerEvent, InPush
      <3>2. Len(Tail(custom_events)) = Len(custom_events) - 1
        BY <2>0, <3>1
      <3> QED
        BY <2>0, <2>5, <3>1, <3>2 DEF TakeEvent, WakeupPerEvent, InPush
    <2>6. CASE onCustomEvent \/ Return \/ UNCHANGED vars
      BY <2>6 DEF onCustomEvent, Return, vars, WakeupPerEvent, InPush
    <2> QED
      BY <2>1, <2>2, <2>3, <2>4, <2>5, <2>6, StepCases
  <1> QED
    BY <1>1, <1>2, Core, PTL DEF Spec
-----------------------------------------------------------------------------
(***************************************************************************)
(* FrontExists and RunOnce.  Neither is inductive.  The argument follows   *)
(* the posted events by their ids: an event is in one place at a time      *)
(* (Placed), and the onCustomEvent handlers still to run (Markers) are as  *)
(* many as the callbacks waiting in customEvents (SameNumber), although    *)
(* they are not the same set.                                              *)
(***************************************************************************)
Ids(q) == {q[i].id : i \in DOMAIN q}
KindIds(q, k) == {q[i].id : i \in {j \in DOMAIN q : q[j].kind = k}}
Distinct(q) == \A i, j \in DOMAIN q : q[i].id = q[j].id => i = j
Busy(t) == pc[t] # "idle"
HandIds(k) == {arg[t].id : t \in {u \in Threads : Busy(u) /\ arg[u].kind = k}}
InLoop == IF lpc = "custom" THEN {current.id} ELSE {}

\* Ids of posted handlers that have not taken a callback yet.
Markers == KindIds(custom_events, "fn") \cup HandIds("fn") \cup InLoop

\* Ids of direct events that have not run yet.
RawPending == KindIds(custom_events, "raw") \cup HandIds("raw")

Placed ==
    /\ Distinct(custom_events)
    /\ Distinct(customEvents)
    /\ Distinct(ran)
    /\ \A x \in Ids(custom_events) \cup Ids(customEvents) \cup Ids(ran) : x <= nposted
    /\ \A t \in Threads : Busy(t) => /\ arg[t].id \notin Ids(custom_events)
                                     /\ arg[t].id <= nposted
    /\ \A t, u \in Threads : Busy(t) /\ Busy(u) /\ arg[t].id = arg[u].id => t = u
    /\ lpc = "custom" => /\ current.id <= nposted
                         /\ current.id \notin Ids(custom_events)
                         /\ \A t \in Threads : Busy(t) => arg[t].id # current.id
    /\ Ids(ran) \cap Ids(customEvents) = {}
    /\ RawPending \cap (Ids(ran) \cup Ids(customEvents)) = {}

LEMMA AppendIds ==
    ASSUME NEW q \in Seq(Event), NEW e \in Event
    PROVE  /\ Ids(Append(q, e)) = Ids(q) \cup {e.id}
           /\ \A k : KindIds(Append(q, e), k) =
                       IF e.kind = k THEN KindIds(q, k) \cup {e.id} ELSE KindIds(q, k)
           /\ Distinct(q) /\ e.id \notin Ids(q) => Distinct(Append(q, e))
  <1> DEFINE r == Append(q, e)
             n == Len(q)
  <1>1. /\ n \in Nat /\ DOMAIN q = 1..n /\ DOMAIN r = 1..(n + 1)
        /\ \A i \in 1..n : r[i] = q[i]
        /\ r[n + 1] = e
    OBVIOUS
  <1> HIDE DEF r, n
  <1>2. \A i \in DOMAIN r : i \in DOMAIN q \/ i = n + 1
    BY <1>1
  <1>3. DOMAIN q \subseteq DOMAIN r /\ n + 1 \in DOMAIN r /\ n + 1 \notin DOMAIN q
    BY <1>1
  <1>4. Ids(r) = Ids(q) \cup {e.id}
    BY <1>1, <1>2, <1>3 DEF Ids
  <1>5. ASSUME NEW k
        PROVE  KindIds(r, k) =
                  IF e.kind = k THEN KindIds(q, k) \cup {e.id} ELSE KindIds(q, k)
    <2>1. CASE e.kind = k
      BY <1>1, <1>2, <1>3, <2>1 DEF KindIds
    <2>2. CASE e.kind # k
      BY <1>1, <1>2, <1>3, <2>2 DEF KindIds
    <2> QED
      BY <2>1, <2>2
  <1>6. Distinct(q) /\ e.id \notin Ids(q) => Distinct(r)
    <2> SUFFICES ASSUME Distinct(q), e.id \notin Ids(q),
                        NEW i \in DOMAIN r, NEW j \in DOMAIN r, r[i].id = r[j].id
                 PROVE  i = j
      BY DEF Distinct
    <2> QED
      BY <1>1, <1>2 DEF Distinct, Ids
  <1> QED
    BY <1>4, <1>5, <1>6 DEF r

LEMMA TailIds ==
    ASSUME NEW q \in Seq(Event), q # <<>>, Distinct(q)
    PROVE  /\ Head(q) \in Event /\ Head(q).id \in Ids(q)
           /\ Ids(Tail(q)) = Ids(q) \ {Head(q).id}
           /\ \A k : KindIds(Tail(q), k) = KindIds(q, k) \ {Head(q).id}
           /\ Head(q).id \in KindIds(q, Head(q).kind)
           /\ \A k : Head(q).kind # k => Head(q).id \notin KindIds(q, k)
           /\ Distinct(Tail(q))
  <1> DEFINE r == Tail(q)
             n == Len(q)
             h == Head(q)
  <1>1. /\ n \in Nat /\ n > 0 /\ DOMAIN q = 1..n /\ DOMAIN r = 1..(n - 1)
        /\ \A i \in 1..(n - 1) : r[i] = q[i + 1]
        /\ h = q[1] /\ h \in Event
    OBVIOUS
  <1> HIDE DEF r, n, h
  <1>2. 1 \in DOMAIN q /\ \A i \in DOMAIN r : i + 1 \in DOMAIN q /\ i + 1 # 1
    BY <1>1
  <1>3. \A j \in DOMAIN q : j = 1 \/ (j - 1 \in DOMAIN r /\ r[j - 1] = q[j])
    BY <1>1
  <1>4. h.id \in Ids(q) /\ Ids(r) = Ids(q) \ {h.id}
    <2>1. ASSUME NEW i \in DOMAIN r PROVE r[i].id \in Ids(q) /\ r[i].id # h.id
      BY <1>1, <1>2 DEF Ids, Distinct
    <2>2. ASSUME NEW j \in DOMAIN q, q[j].id # h.id PROVE q[j].id \in Ids(r)
      BY <1>1, <1>3, <2>2 DEF Ids
    <2>3. h.id \in Ids(q)
      BY <1>1, <1>2 DEF Ids
    <2> QED
      BY <2>1, <2>2, <2>3 DEF Ids
  <1>5. ASSUME NEW k
        PROVE  KindIds(r, k) = KindIds(q, k) \ {h.id}
    <2>1. ASSUME NEW i \in DOMAIN r, r[i].kind = k
          PROVE  r[i].id \in KindIds(q, k) /\ r[i].id # h.id
      BY <1>1, <1>2, <2>1 DEF KindIds, Distinct
    <2>2. ASSUME NEW j \in DOMAIN q, q[j].kind = k, q[j].id # h.id
          PROVE  q[j].id \in KindIds(r, k)
      BY <1>1, <1>3, <2>2 DEF KindIds
    <2> QED
      BY <2>1, <2>2 DEF KindIds
  <1>6. h.id \in KindIds(q, h.kind)
    BY <1>1, <1>2 DEF KindIds
  <1>7. ASSUME NEW k, h.kind # k
        PROVE  h.id \notin KindIds(q, k)
    BY <1>1, <1>2, <1>7 DEF KindIds, Distinct
  <1>8. Distinct(r)
    <2> SUFFICES ASSUME NEW i \in DOMAIN r, NEW j \in DOMAIN r, r[i].id = r[j].id
                 PROVE  i = j
      BY DEF Distinct
    <2>1. i + 1 = j + 1
      BY <1>1, <1>2 DEF Distinct
    <2> QED
      BY <1>1, <2>1
  <1> QED
    BY <1>1, <1>4, <1>5, <1>6, <1>7, <1>8 DEF r, h

\* The threads' hands when one thread starts to post the event with a new id.
LEMMA BeginHands ==
    ASSUME CoreInv, Placed, NEW t \in Threads, NEW k \in {"fn", "raw"}, Begin(t, k)
    PROVE  /\ HandIds(k)' = HandIds(k) \cup {nposted + 1}
           /\ \A kk \in {"fn", "raw"} \ {k} : HandIds(kk)' = HandIds(kk)
           /\ \A u \in Threads : Busy(u)' <=> Busy(u) \/ u = t
           /\ \A u \in Threads : Busy(u) => arg'[u] = arg[u] /\ u # t
           /\ arg'[t].id = nposted + 1
           /\ nposted \in Nat /\ nposted' = nposted + 1
  <1> DEFINE e == [id |-> nposted + 1, kind |-> k, by |-> t]
  <1>1. /\ nposted' = nposted + 1
        /\ arg' = [arg EXCEPT ![t] = e]
        /\ pc' = [pc EXCEPT ![t] = "post"]
        /\ pc[t] = "idle"
        /\ nposted \in Nat
    BY DEF Begin, MayPost, CoreInv, TypeOK
  <1>2. e.id = nposted + 1 /\ e.kind = k
    OBVIOUS
  <1> HIDE DEF e
  <1>3. /\ arg'[t] = e
        /\ \A u \in Threads \ {t} : arg'[u] = arg[u] /\ pc'[u] = pc[u]
        /\ pc'[t] = "post"
    BY <1>1 DEF CoreInv, TypeOK
  <1>4. /\ \A u \in Threads : Busy(u)' <=> Busy(u) \/ u = t
        /\ \A u \in Threads : Busy(u) => arg'[u] = arg[u] /\ u # t
    BY <1>1, <1>3 DEF Busy
  <1>5. HandIds(k)' = HandIds(k) \cup {nposted + 1}
    BY <1>2, <1>3, <1>4 DEF HandIds
  <1>6. ASSUME NEW kk \in {"fn", "raw"} \ {k}
        PROVE  HandIds(kk)' = HandIds(kk)
    BY <1>2, <1>3, <1>4 DEF HandIds
  <1> QED
    BY <1>1, <1>2, <1>3, <1>4, <1>5, <1>6

\* The threads' hands when one thread has queued its event.
LEMMA PushHands ==
    ASSUME CoreInv, Placed, NEW t \in Threads, PushAndUnlock(t)
    PROVE  /\ \A k : HandIds(k)' = HandIds(k) \ {arg[t].id}
           /\ arg[t].id \in HandIds(arg[t].kind)
           /\ \A k : arg[t].kind # k => arg[t].id \notin HandIds(k)
           /\ \A u \in Threads : Busy(u)' <=> Busy(u) /\ u # t
           /\ \A u \in Threads : Busy(u)' => arg'[u] = arg[u]
           /\ Busy(t)
           /\ arg[t] \in Event
  <1>1. /\ pc[t] = "push"
        /\ pc' = [pc EXCEPT ![t] = "idle"]
        /\ arg' = [arg EXCEPT ![t] = None]
    BY DEF PushAndUnlock
  <1>2. /\ pc'[t] = "idle"
        /\ \A u \in Threads \ {t} : arg'[u] = arg[u] /\ pc'[u] = pc[u]
    BY <1>1 DEF CoreInv, TypeOK
  <1>3. /\ \A u \in Threads : Busy(u)' <=> Busy(u) /\ u # t
        /\ \A u \in Threads : Busy(u)' => arg'[u] = arg[u]
        /\ Busy(t)
    BY <1>1, <1>2 DEF Busy
  <1>4. \A u \in Threads : Busy(u) /\ arg[u].id = arg[t].id => u = t
    BY <1>3 DEF Placed
  <1>5. ASSUME NEW k
        PROVE  /\ HandIds(k)' = HandIds(k) \ {arg[t].id}
               /\ arg[t].kind # k => arg[t].id \notin HandIds(k)
    BY <1>3, <1>4 DEF HandIds
  <1>6. arg[t].id \in HandIds(arg[t].kind)
    BY <1>3 DEF HandIds
  <1>7. arg[t] \in Event
    BY <1>3 DEF CoreInv, ArgInv, Busy
  <1> QED
    BY <1>3, <1>5, <1>6, <1>7

AllIds == Markers \cup RawPending \cup Ids(custom_events) \cup Ids(customEvents) \cup Ids(ran)

\* Every id in use belongs to an event already posted.
LEMMA Bounded ==
    ASSUME CoreInv, Placed
    PROVE  AllIds \subseteq 1..nposted
  <1>1. nposted \in Nat
    BY DEF CoreInv, TypeOK
  <1>2. ASSUME NEW q \in Seq(Event), NEW k
        PROVE  KindIds(q, k) \subseteq Ids(q) /\ Ids(q) \subseteq 1..MaxPosts
    <2>1. \A i \in DOMAIN q : q[i].id \in 1..MaxPosts
      <3>1. \A i \in DOMAIN q : q[i] \in Event
        OBVIOUS
      <3> QED
        BY <3>1 DEF Event
    <2> QED
      BY <2>1 DEF KindIds, Ids
  <1>3. Ids(custom_events) \cup Ids(customEvents) \cup Ids(ran) \subseteq 1..nposted
    <2>1. Ids(custom_events) \cup Ids(customEvents) \cup Ids(ran) \subseteq 1..MaxPosts
      BY <1>2 DEF CoreInv, TypeOK
    <2>2. \A x \in Ids(custom_events) \cup Ids(customEvents) \cup Ids(ran) : x <= nposted
      BY DEF Placed
    <2> QED
      BY <1>1, <2>1, <2>2, LoopEventsAssumption
  <1>4. ASSUME NEW k PROVE KindIds(custom_events, k) \subseteq 1..nposted
    BY <1>2, <1>3 DEF CoreInv, TypeOK
  <1>5. ASSUME NEW k PROVE HandIds(k) \subseteq 1..nposted
    <2> SUFFICES ASSUME NEW t \in Threads, Busy(t) PROVE arg[t].id \in 1..nposted
      BY DEF HandIds
    <2>1. arg[t].id \in 1..MaxPosts
      BY DEF CoreInv, ArgInv, Busy, Event
    <2>2. arg[t].id <= nposted
      BY DEF Placed
    <2> QED
      BY <1>1, <2>1, <2>2, LoopEventsAssumption
  <1>6. InLoop \subseteq 1..nposted
    <2>1. CASE lpc = "custom"
      <3>1. current.id \in 1..MaxPosts /\ current.id <= nposted
        BY <2>1 DEF CoreInv, CurrentInv, Placed, Event
      <3> QED
        BY <1>1, <2>1, <3>1, LoopEventsAssumption DEF InLoop
    <2>2. CASE lpc # "custom"
      BY <2>2 DEF InLoop
    <2> QED
      BY <2>1, <2>2
  <1> QED
    BY <1>3, <1>4, <1>5, <1>6 DEF AllIds, Markers, RawPending

LEMMA PlacedInit == Init => Placed
  BY DEF Init, Placed, Ids, KindIds, Distinct, Busy, HandIds, RawPending

LEMMA PlacedPost ==
    ASSUME CoreInv, Placed, NEW t \in Threads, postEvent(t) \/ PostRaw(t)
    PROVE  Placed'
  <1> DEFINE n == nposted + 1
  <1>1. PICK k \in {"fn", "raw"} :
           /\ Begin(t, k)
           /\ \/ k = "fn" /\ postEvent(t)
              \/ k = "raw" /\ PostRaw(t)
    BY DEF postEvent, PostRaw
  <1>2. /\ HandIds(k)' = HandIds(k) \cup {n}
        /\ \A kk \in {"fn", "raw"} \ {k} : HandIds(kk)' = HandIds(kk)
        /\ \A u \in Threads : Busy(u)' <=> Busy(u) \/ u = t
        /\ \A u \in Threads : Busy(u) => arg'[u] = arg[u] /\ u # t
        /\ arg'[t].id = n
        /\ nposted \in Nat /\ nposted' = n
    BY <1>1, BeginHands
  <1>3. /\ custom_events' = custom_events /\ ran' = ran
        /\ lpc' = lpc /\ current' = current
    BY <1>1 DEF Begin
  <1>4. n \notin AllIds /\ \A x \in AllIds : x \in Nat /\ x < n /\ x <= n
    BY <1>2, Bounded
  <1>5. /\ Ids(customEvents)' = Ids(customEvents) \cup (IF k = "fn" THEN {n} ELSE {})
        /\ Distinct(customEvents)'
    <2>1. CASE k = "fn"
      <3> DEFINE e == [id |-> n, kind |-> "fn", by |-> t]
      <3>1. e \in Event /\ e.id = n
        BY <1>1, LoopEventsAssumption DEF Begin, MayPost, CoreInv, TypeOK, Event
      <3>2. customEvents' = Append(customEvents, e)
        BY <1>1, <2>1 DEF postEvent
      <3>3. e.id \notin Ids(customEvents)
        BY <1>4, <3>1 DEF AllIds
      <3> HIDE DEF e
      <3> QED
        BY <2>1, <3>1, <3>2, <3>3, AppendIds DEF CoreInv, TypeOK, Placed
    <2>2. CASE k = "raw"
      BY <1>1, <2>2 DEF PostRaw, Placed
    <2> QED
      BY <2>1, <2>2
  <1> HIDE DEF n
  <1>6. RawPending' = RawPending \cup (IF k = "raw" THEN {n} ELSE {})
    BY <1>2, <1>3 DEF RawPending
  <1>7. RawPending' \cap (Ids(ran)' \cup Ids(customEvents)') = {}
    BY <1>3, <1>4, <1>5, <1>6 DEF AllIds, Placed
  <1>8. Ids(ran)' \cap Ids(customEvents)' = {}
    BY <1>3, <1>4, <1>5 DEF AllIds, Placed
  <1>9. /\ \A u \in Threads : Busy(u)' => /\ arg'[u].id \notin Ids(custom_events)
                                          /\ arg'[u].id <= n
    <2> SUFFICES ASSUME NEW u \in Threads, Busy(u)'
                 PROVE  arg'[u].id \notin Ids(custom_events) /\ arg'[u].id <= n
      OBVIOUS
    <2>1. CASE u = t
      BY <1>2, <1>4, <2>1 DEF AllIds, n
    <2>2. CASE u # t
      <3>1. Busy(u) /\ arg'[u] = arg[u]
        BY <1>2, <2>2
      <3>2. arg[u].id \notin Ids(custom_events) /\ arg[u].id <= nposted
        BY <3>1 DEF Placed
      <3>3. arg[u].id \in Nat
        BY <3>1 DEF CoreInv, ArgInv, Busy, Event
      <3> QED
        BY <1>2, <3>1, <3>2, <3>3 DEF n
    <2> QED
      BY <2>1, <2>2
  <1>10. \A u \in Threads : Busy(u) => arg[u].id # n
    <2> SUFFICES ASSUME NEW u \in Threads, Busy(u) PROVE arg[u].id # n
      OBVIOUS
    <2>1. arg[u] \in Event
      BY DEF CoreInv, ArgInv, Busy
    <2>2. arg[u].kind \in {"fn", "raw"}
      BY <2>1 DEF Event
    <2>3. arg[u].id \in HandIds(arg[u].kind)
      BY DEF HandIds
    <2> QED
      BY <1>4, <2>2, <2>3 DEF AllIds, Markers, RawPending
  <1>11. \A u, v \in Threads : Busy(u)' /\ Busy(v)' /\ arg'[u].id = arg'[v].id => u = v
    BY <1>2, <1>10 DEF Placed
  <1>12. lpc = "custom" => current.id \in AllIds
    BY DEF AllIds, Markers, InLoop
  <1>13. lpc' = "custom" => /\ current'.id <= n
                            /\ current'.id \notin Ids(custom_events)
                            /\ \A u \in Threads : Busy(u)' => arg'[u].id # current'.id
    BY <1>2, <1>3, <1>4, <1>12 DEF Placed
  <1>14. \A x \in Ids(custom_events) \cup Ids(customEvents)' \cup Ids(ran) : x <= n
    BY <1>2, <1>4, <1>5 DEF AllIds, n
  <1> QED
    BY <1>2, <1>3, <1>5, <1>7, <1>8, <1>9, <1>11, <1>13, <1>14 DEF Placed

LEMMA PlacedPush ==
    ASSUME CoreInv, Placed, NEW t \in Threads, PushAndUnlock(t)
    PROVE  Placed' /\ Markers' = Markers
  <1> DEFINE e == arg[t]
  <1>1. /\ \A k : HandIds(k)' = HandIds(k) \ {e.id}
        /\ e.id \in HandIds(e.kind)
        /\ \A k : e.kind # k => e.id \notin HandIds(k)
        /\ \A u \in Threads : Busy(u)' <=> Busy(u) /\ u # t
        /\ \A u \in Threads : Busy(u)' => arg'[u] = arg[u]
        /\ Busy(t)
        /\ e \in Event
    BY PushHands
  <1>2. /\ custom_events' = Append(custom_events, e)
        /\ customEvents' = customEvents /\ ran' = ran /\ nposted' = nposted
        /\ lpc' = lpc /\ current' = current
    BY DEF PushAndUnlock
  <1>3. e.id \notin Ids(custom_events) /\ e.id <= nposted
    BY <1>1 DEF Placed
  <1>4. \A u \in Threads : Busy(u) /\ u # t => arg[u].id # e.id
    BY <1>1 DEF Placed
  <1>5. lpc = "custom" => current.id # e.id
    BY <1>1 DEF Placed
  <1> HIDE DEF e
  <1>6. /\ Ids(custom_events)' = Ids(custom_events) \cup {e.id}
        /\ \A k : KindIds(custom_events, k)' =
                    IF e.kind = k THEN KindIds(custom_events, k) \cup {e.id}
                                  ELSE KindIds(custom_events, k)
        /\ Distinct(custom_events)'
    BY <1>1, <1>2, <1>3, AppendIds DEF CoreInv, TypeOK, Placed
  <1>7. ASSUME NEW k
        PROVE  KindIds(custom_events, k)' \cup HandIds(k)' =
                  KindIds(custom_events, k) \cup HandIds(k)
    <2>1. CASE e.kind = k
      BY <1>1, <1>6, <2>1
    <2>2. CASE e.kind # k
      BY <1>1, <1>6, <2>2
    <2> QED
      BY <2>1, <2>2
  <1>8. RawPending' = RawPending
    BY <1>7 DEF RawPending
  <1>9. Markers' = Markers
    <2>1. InLoop' = InLoop
      BY <1>2 DEF InLoop
    <2> QED
      BY <1>7, <2>1 DEF Markers
  <1>10. \A u \in Threads : Busy(u)' => /\ arg'[u].id \notin Ids(custom_events)'
                                        /\ arg'[u].id <= nposted
    BY <1>1, <1>4, <1>6 DEF Placed
  <1>11. \A u, v \in Threads : Busy(u)' /\ Busy(v)' /\ arg'[u].id = arg'[v].id => u = v
    BY <1>1 DEF Placed
  <1>12. lpc = "custom" => /\ current.id <= nposted
                           /\ current.id \notin Ids(custom_events)'
                           /\ \A u \in Threads : Busy(u)' => arg'[u].id # current.id
    BY <1>1, <1>5, <1>6 DEF Placed
  <1>13. \A x \in Ids(custom_events)' \cup Ids(customEvents) \cup Ids(ran) : x <= nposted
    BY <1>3, <1>6 DEF Placed
  <1>14. /\ Distinct(customEvents) /\ Distinct(ran)
         /\ Ids(ran) \cap Ids(customEvents) = {}
         /\ RawPending \cap (Ids(ran) \cup Ids(customEvents)) = {}
    BY DEF Placed
  <1>15. Placed'
    BY <1>2, <1>6, <1>8, <1>10, <1>11, <1>12, <1>13, <1>14 DEF Placed
  <1> QED
    BY <1>9, <1>15

LEMMA PlacedTake ==
    ASSUME CoreInv, Placed, TakeEvent, custom_events # <<>>
    PROVE  Placed' /\ Markers' = Markers
  <1> DEFINE e == Head(custom_events)
  <1>1. /\ custom_events' = Tail(custom_events)
        /\ customEvents' = customEvents /\ nposted' = nposted
        /\ current' = e /\ lpc = "loop"
        /\ lpc' = IF e.kind = "fn" THEN "custom" ELSE "cb"
        /\ ran' = IF e.kind = "raw" THEN Append(ran, e) ELSE ran
        /\ pc' = pc /\ arg' = arg
    BY DEF TakeEvent
  <1>2. /\ e \in Event /\ e.id \in Ids(custom_events)
        /\ Ids(custom_events)' = Ids(custom_events) \ {e.id}
        /\ \A k : KindIds(custom_events, k)' = KindIds(custom_events, k) \ {e.id}
        /\ e.id \in KindIds(custom_events, e.kind)
        /\ \A k : e.kind # k => e.id \notin KindIds(custom_events, k)
        /\ Distinct(custom_events)'
    BY <1>1, TailIds DEF CoreInv, TypeOK, Placed
  <1> HIDE DEF e
  <1>3. \A k : HandIds(k)' = HandIds(k) /\ e.id \notin HandIds(k)
    BY <1>1, <1>2 DEF HandIds, Busy, Placed
  <1>4. InLoop = {} /\ InLoop' = IF e.kind = "fn" THEN {e.id} ELSE {}
    BY <1>1 DEF InLoop
  <1>5. e.kind \in {"fn", "raw"}
    BY <1>2 DEF Event
  <1>6. Markers' = Markers
    <2>1. CASE e.kind = "fn"
      BY <1>2, <1>3, <1>4, <2>1 DEF Markers
    <2>2. CASE e.kind = "raw"
      BY <1>2, <1>3, <1>4, <2>2 DEF Markers
    <2> QED
      BY <1>5, <2>1, <2>2
  <1>7. RawPending' = RawPending \ {e.id}
    BY <1>2, <1>3 DEF RawPending
  <1>8. e.kind = "raw" => e.id \in RawPending
    BY <1>2 DEF RawPending
  <1>9. /\ Distinct(ran)'
        /\ Ids(ran)' \subseteq Ids(ran) \cup {e.id}
        /\ Ids(ran)' \cap Ids(customEvents) = {}
    <2>1. CASE e.kind = "raw"
      <3>1. e.id \notin Ids(ran) /\ e.id \notin Ids(customEvents)
        BY <1>8, <2>1 DEF Placed
      <3> QED
        BY <1>1, <1>2, <2>1, <3>1, AppendIds DEF CoreInv, TypeOK, Placed
    <2>2. CASE e.kind = "fn"
      BY <1>1, <2>2 DEF Placed
    <2> QED
      BY <1>5, <2>1, <2>2
  <1>10. RawPending' \cap (Ids(ran)' \cup Ids(customEvents)) = {}
    BY <1>7, <1>9 DEF Placed
  <1>a. /\ e.id \in Ids(custom_events)
        /\ Ids(custom_events)' = Ids(custom_events) \ {e.id}
        /\ Distinct(custom_events)'
    BY <1>2
  <1>11. \A t \in Threads :
            /\ Busy(t)' <=> Busy(t)
            /\ Busy(t) => /\ arg[t].id \notin Ids(custom_events)
                          /\ arg[t].id <= nposted
                          /\ arg[t].id # e.id
    <2>1. \A t \in Threads : Busy(t) => /\ arg[t].id \notin Ids(custom_events)
                                        /\ arg[t].id <= nposted
      BY DEF Placed
    <2>2. \A t \in Threads : Busy(t)' <=> Busy(t)
      BY <1>1 DEF Busy
    <2> QED
      BY <1>a, <2>1, <2>2
  <1>12. \A t, u \in Threads : Busy(t) /\ Busy(u) /\ arg[t].id = arg[u].id => t = u
    BY DEF Placed
  <1>13. e.id <= nposted /\ Distinct(customEvents)
    BY <1>2 DEF Placed
  <1>14. \A x \in Ids(custom_events)' \cup Ids(customEvents) \cup Ids(ran)' : x <= nposted
    BY <1>2, <1>9, <1>13 DEF Placed
  <1>15. \A t \in Threads : Busy(t)' => /\ arg'[t].id \notin Ids(custom_events)'
                                        /\ arg'[t].id <= nposted'
    BY <1>1, <1>a, <1>11
  <1>16. lpc' = "custom" => /\ current'.id <= nposted'
                            /\ current'.id \notin Ids(custom_events)'
                            /\ \A t \in Threads : Busy(t)' => arg'[t].id # current'.id
    BY <1>1, <1>a, <1>11, <1>13
  <1>17. \A t, u \in Threads : Busy(t)' /\ Busy(u)' /\ arg'[t].id = arg'[u].id => t = u
    BY <1>1, <1>11, <1>12
  <1>18. Placed'
    BY <1>1, <1>a, <1>9, <1>10, <1>13, <1>14, <1>15, <1>16, <1>17 DEF Placed
  <1> QED
    BY <1>6, <1>18

LEMMA PlacedRun ==
    ASSUME CoreInv, Placed, onCustomEvent
    PROVE  /\ Placed'
           /\ Markers' = Markers \ {current.id} /\ current.id \in Markers
           /\ Ids(customEvents)' = Ids(customEvents) \ {Head(customEvents).id}
           /\ Head(customEvents).id \in Ids(customEvents)
  <1> DEFINE e == Head(customEvents)
  <1>1. /\ custom_events' = custom_events /\ nposted' = nposted
        /\ customEvents' = Tail(customEvents) /\ customEvents # <<>>
        /\ lpc = "custom" /\ lpc' = "cb"
        /\ ran' = Append(ran, e)
        /\ pc' = pc /\ arg' = arg
    BY DEF onCustomEvent
  <1>2. /\ e \in Event /\ e.id \in Ids(customEvents)
        /\ Ids(customEvents)' = Ids(customEvents) \ {e.id}
        /\ Distinct(customEvents)'
    <2>1. customEvents \in Seq(Event) /\ customEvents # <<>> /\ Distinct(customEvents)
      BY <1>1 DEF CoreInv, TypeOK, Placed
    <2>2. /\ e \in Event /\ e.id \in Ids(customEvents)
          /\ Ids(Tail(customEvents)) = Ids(customEvents) \ {e.id}
          /\ Distinct(Tail(customEvents))
      BY <2>1, TailIds
    <2> QED
      BY <1>1, <2>2
  <1>3. Markers' = Markers \ {current.id} /\ current.id \in Markers
    <2>1. InLoop = {current.id} /\ InLoop' = {}
      BY <1>1 DEF InLoop
    <2>2. HandIds("fn")' = HandIds("fn") /\ current.id \notin HandIds("fn")
      BY <1>1 DEF HandIds, Busy, Placed
    <2>3. current.id \notin KindIds(custom_events, "fn")
      BY <1>1 DEF KindIds, Ids, Placed
    <2> QED
      BY <1>1, <2>1, <2>2, <2>3 DEF Markers
  <1> HIDE DEF e
  <1>4. e.id \notin Ids(ran) /\ e.id \notin RawPending
    <2>1. /\ Ids(ran) \cap Ids(customEvents) = {}
          /\ RawPending \cap (Ids(ran) \cup Ids(customEvents)) = {}
      BY DEF Placed
    <2> QED
      BY <1>2, <2>1
  <1>5. Ids(ran)' = Ids(ran) \cup {e.id} /\ Distinct(ran)'
    BY <1>1, <1>2, <1>4, AppendIds DEF CoreInv, TypeOK, Placed
  <1>6. RawPending' = RawPending
    BY <1>1 DEF RawPending, HandIds, Busy
  <1>7. /\ RawPending \cap (Ids(ran)' \cup Ids(customEvents)') = {}
        /\ Ids(ran)' \cap Ids(customEvents)' = {}
    BY <1>2, <1>4, <1>5 DEF Placed
  <1>8. \A x \in Ids(custom_events) \cup Ids(customEvents)' \cup Ids(ran)' : x <= nposted
    BY <1>2, <1>5 DEF Placed
  <1>9. Placed'
    BY <1>1, <1>2, <1>5, <1>6, <1>7, <1>8 DEF Placed, Busy
  <1> QED
    BY <1>2, <1>3, <1>9 DEF e

SameNumber == Cardinality(Markers) = Cardinality(Ids(customEvents))

EventInv == CoreInv /\ Placed /\ SameNumber

LEMMA MarkersFinite ==
    ASSUME CoreInv, Placed
    PROVE  IsFiniteSet(Markers) /\ IsFiniteSet(Ids(customEvents))
  <1>1. IsFiniteSet(1..nposted)
    BY FS_Interval DEF CoreInv, TypeOK
  <1>2. Markers \subseteq 1..nposted /\ Ids(customEvents) \subseteq 1..nposted
    BY Bounded DEF AllIds
  <1> QED
    BY <1>1, <1>2, FS_Subset

LEMMA EventStep ==
    ASSUME EventInv, [Next]_vars
    PROVE  Placed' /\ SameNumber'
  <1>0. CoreInv /\ Placed /\ SameNumber
    BY DEF EventInv
  <1>1. IsFiniteSet(Markers) /\ IsFiniteSet(Ids(customEvents))
    BY <1>0, MarkersFinite
  <1>2. ASSUME NEW t \in Threads, postEvent(t)
        PROVE  Placed' /\ SameNumber'
    <2> DEFINE e == [id |-> nposted + 1, kind |-> "fn", by |-> t]
    <2>1. Placed'
      BY <1>0, <1>2, PlacedPost
    <2>2. Begin(t, "fn") /\ customEvents' = Append(customEvents, e)
      BY <1>2 DEF postEvent
    <2>3. HandIds("fn")' = HandIds("fn") \cup {nposted + 1}
      BY <1>0, <2>2, BeginHands
    <2>4. KindIds(custom_events, "fn")' = KindIds(custom_events, "fn") /\ InLoop' = InLoop
      BY <2>2 DEF Begin, InLoop
    <2>5. Markers' = Markers \cup {nposted + 1}
      BY <2>3, <2>4 DEF Markers
    <2>6. e \in Event /\ e.id = nposted + 1
      BY <1>0, <2>2, LoopEventsAssumption DEF Begin, MayPost, CoreInv, TypeOK, Event
    <2> HIDE DEF e
    <2>7. Ids(customEvents)' = Ids(customEvents) \cup {nposted + 1}
      BY <1>0, <2>2, <2>6, AppendIds DEF CoreInv, TypeOK
    <2>8. nposted + 1 \notin Markers /\ nposted + 1 \notin Ids(customEvents)
      <3>1. nposted \in Nat
        BY <1>0 DEF CoreInv, TypeOK
      <3> QED
        BY <1>0, <3>1, Bounded DEF AllIds
    <2>9. /\ Cardinality(Markers') = Cardinality(Markers) + 1
          /\ Cardinality(Ids(customEvents)') = Cardinality(Ids(customEvents)) + 1
      BY <1>1, <2>5, <2>7, <2>8, FS_AddElement
    <2> QED
      BY <1>0, <2>1, <2>9 DEF SameNumber
  <1>3. ASSUME NEW t \in Threads, PostRaw(t)
        PROVE  Placed' /\ SameNumber'
    <2>1. Placed' /\ Begin(t, "raw")
      BY <1>0, <1>3, PlacedPost DEF PostRaw
    <2>2. HandIds("fn")' = HandIds("fn")
      BY <1>0, <2>1, BeginHands
    <2>3. Markers' = Markers /\ customEvents' = customEvents
      BY <1>3, <2>1, <2>2 DEF Begin, PostRaw, Markers, InLoop
    <2> QED
      BY <1>0, <2>1, <2>3 DEF SameNumber
  <1>4. ASSUME NEW t \in Threads, PushAndUnlock(t)
        PROVE  Placed' /\ SameNumber'
    <2>1. customEvents' = customEvents
      BY <1>4 DEF PushAndUnlock
    <2> QED
      BY <1>0, <1>4, <2>1, PlacedPush DEF SameNumber
  <1>5. ASSUME UNCHANGED <<custom_events, customEvents, arg, nposted, ran>>,
               \A t \in Threads : Busy(t)' <=> Busy(t),
               lpc' = "custom" <=> lpc = "custom",
               lpc = "custom" => current' = current
        PROVE  Placed' /\ SameNumber'
    <2>1. \A k : HandIds(k)' = HandIds(k)
      BY <1>5 DEF HandIds
    <2>2. RawPending' = RawPending /\ Markers' = Markers
      BY <1>5, <2>1 DEF RawPending, Markers, InLoop
    <2>3. Placed'
      BY <1>0, <1>5, <2>2 DEF Placed
    <2> QED
      BY <1>0, <1>5, <2>2, <2>3 DEF SameNumber
  <1>6. ASSUME NEW t \in Threads, LockAndWrite(t)
        PROVE  Placed' /\ SameNumber'
    <2>1. \A u \in Threads : Busy(u)' <=> Busy(u)
      BY <1>0, <1>6 DEF LockAndWrite, Busy, CoreInv, TypeOK
    <2> QED
      BY <1>5, <1>6, <2>1 DEF LockAndWrite
  <1>7. CASE ReadSockpair \/ Return \/ UNCHANGED vars
    <2>1. \A u \in Threads : Busy(u)' <=> Busy(u)
      BY <1>7 DEF ReadSockpair, Return, vars, Busy
    <2> QED
      BY <1>5, <1>7, <2>1 DEF ReadSockpair, Return, vars
  <1>8. CASE TakeEvent
    <2>1. customEvents' = customEvents
      BY <1>8 DEF TakeEvent
    <2>2. CASE custom_events # <<>>
      BY <1>0, <1>8, <2>1, <2>2, PlacedTake DEF SameNumber
    <2>3. CASE custom_events = <<>>
      <3>1. \A u \in Threads : Busy(u)' <=> Busy(u)
        BY <1>8 DEF TakeEvent, Busy
      <3> QED
        BY <1>5, <1>8, <2>3, <3>1 DEF TakeEvent
    <2> QED
      BY <2>2, <2>3
  <1>9. CASE onCustomEvent
    <2>1. /\ Placed'
          /\ Markers' = Markers \ {current.id} /\ current.id \in Markers
          /\ Ids(customEvents)' = Ids(customEvents) \ {Head(customEvents).id}
          /\ Head(customEvents).id \in Ids(customEvents)
      BY <1>0, <1>9, PlacedRun
    <2>2. /\ Cardinality(Markers') = Cardinality(Markers) - 1
          /\ Cardinality(Ids(customEvents)') = Cardinality(Ids(customEvents)) - 1
      BY <1>1, <2>1, FS_RemoveElement
    <2> QED
      BY <1>0, <2>1, <2>2 DEF SameNumber
  <1> QED
    BY <1>2, <1>3, <1>4, <1>6, <1>7, <1>8, <1>9, StepCases

LEMMA EventsInvariant == Spec => []EventInv
  <1>1. Init => EventInv
    <2> SUFFICES ASSUME Init PROVE EventInv
      OBVIOUS
    <2>1. Markers = {} /\ Ids(customEvents) = {}
      BY DEF Init, Markers, KindIds, HandIds, InLoop, Ids, Busy
    <2> QED
      BY <2>1, CoreInit, PlacedInit DEF EventInv, SameNumber
  <1>2. EventInv /\ [Next]_vars => EventInv'
    BY CoreStep, EventStep DEF EventInv
  <1> QED
    BY <1>1, <1>2, PTL DEF Spec

\* onCustomEvent always finds a callback to run.
THEOREM CallbackForEveryHandler == Spec => []FrontExists
  <1>1. EventInv => FrontExists
    <2> SUFFICES ASSUME EventInv, lpc = "custom", customEvents = <<>> PROVE FALSE
      BY DEF FrontExists
    <2>0. CoreInv /\ Placed /\ SameNumber
      BY DEF EventInv
    <2>1. Ids(customEvents) = {} /\ current.id \in Markers
      BY DEF Ids, Markers, InLoop
    <2>2. Cardinality(Markers) = 0 /\ IsFiniteSet(Markers)
      BY <2>0, <2>1, FS_EmptySet, MarkersFinite DEF SameNumber
    <2> QED
      BY <2>1, <2>2, FS_EmptySet
  <1> QED
    BY <1>1, EventsInvariant, PTL

\* No callback is run twice, and none that was not posted.
THEOREM OnceEach == Spec => []RunOnce
  <1>1. EventInv => RunOnce
    BY DEF EventInv, Placed, Distinct, Ids, RunOnce
  <1> QED
    BY <1>1, EventsInvariant, PTL

-----------------------------------------------------------------------------
(***************************************************************************)
(* RunInOrder.  The strengthening orders an event against what may still   *)
(* come after it: the callbacks that ran against those in customEvents,    *)
(* and a thread's direct events that ran against those in custom_events    *)
(* and the one in its hand.                                                *)
(***************************************************************************)
Elts(q) == {q[i] : i \in DOMAIN q}
Ordered(q, R) == \A i, j \in DOMAIN q : i < j => <<q[i], q[j]>> \in R

Comparable(e, f) == e.kind = f.kind /\ (e.kind = "raw" => e.by = f.by)
Precedes == {p \in Event \X Event : Comparable(p[1], p[2]) => p[1].id < p[2].id}
RawPrecedes == {p \in Event \X Event : p[1].kind = "raw" => p \in Precedes}

\* What has run, and what a thread is about to queue, against the queues.
OrderInv ==
    /\ Ordered(ran, Precedes)
    /\ Ordered(customEvents, Precedes)
    /\ Ordered(custom_events, RawPrecedes)
    /\ \A e \in Elts(customEvents) : e.kind = "fn"
    /\ \A e \in Elts(ran), f \in Elts(customEvents) : <<e, f>> \in Precedes
    /\ \A e \in Elts(ran), f \in Elts(custom_events) : <<e, f>> \in RawPrecedes
    /\ \A t \in Threads : pc[t] # "idle" =>
          /\ arg[t].by = t
          /\ \A e \in Elts(ran) \cup Elts(custom_events) : <<e, arg[t]>> \in RawPrecedes
    /\ \A e \in Elts(ran) \cup Elts(customEvents) \cup Elts(custom_events) : e.id <= nposted
    /\ \A t \in Threads : pc[t] # "idle" => arg[t].id <= nposted

LEMMA Compared ==
    ASSUME NEW e \in Event, NEW f \in Event
    PROVE  /\ <<e, f>> \in Precedes <=> (Comparable(e, f) => e.id < f.id)
           /\ <<e, f>> \in RawPrecedes <=> (e.kind = "raw" => <<e, f>> \in Precedes)
  BY DEF Precedes, RawPrecedes

LEMMA AppendOrdered ==
    ASSUME NEW q \in Seq(Event), NEW e \in Event, NEW R
    PROVE  /\ Elts(Append(q, e)) = Elts(q) \cup {e}
           /\ Ordered(q, R) /\ (\A d \in Elts(q) : <<d, e>> \in R) => Ordered(Append(q, e), R)
  <1> DEFINE r == Append(q, e)
             n == Len(q)
  <1>1. /\ n \in Nat /\ DOMAIN q = 1..n /\ DOMAIN r = 1..(n + 1)
        /\ \A i \in 1..n : r[i] = q[i]
        /\ r[n + 1] = e
    OBVIOUS
  <1> HIDE DEF r, n
  <1>2. Elts(r) = Elts(q) \cup {e}
    <2>1. \A i \in 1..(n + 1) : i \in 1..n \/ i = n + 1
      BY <1>1
    <2>2. \A i \in 1..n : i \in 1..(n + 1)
      BY <1>1
    <2>3. n + 1 \in 1..(n + 1)
      BY <1>1
    <2> QED
      BY <1>1, <2>1, <2>2, <2>3 DEF Elts
  <1>3. ASSUME Ordered(q, R), \A d \in Elts(q) : <<d, e>> \in R,
               NEW i \in DOMAIN r, NEW j \in DOMAIN r, i < j
        PROVE  <<r[i], r[j]>> \in R
    <2>1. i \in 1..n /\ r[i] = q[i]
      BY <1>1, <1>3
    <2>2. CASE j = n + 1
      BY <1>1, <1>3, <2>1, <2>2 DEF Elts
    <2>3. CASE j # n + 1
      BY <1>1, <1>3, <2>1, <2>3 DEF Ordered
    <2> QED
      BY <2>2, <2>3
  <1> QED
    BY <1>2, <1>3 DEF Ordered, r

LEMMA TailOrdered ==
    ASSUME NEW q \in Seq(Event), q # <<>>, NEW R, Ordered(q, R)
    PROVE  /\ Head(q) \in Elts(q) /\ Head(q) \in Event
           /\ Tail(q) \in Seq(Event)
           /\ Elts(Tail(q)) \subseteq Elts(q)
           /\ Ordered(Tail(q), R)
           /\ \A d \in Elts(Tail(q)) : <<Head(q), d>> \in R
  <1> DEFINE r == Tail(q)
             n == Len(q)
  <1>1. /\ n \in Nat \ {0} /\ DOMAIN q = 1..n /\ DOMAIN r = 1..(n - 1)
        /\ \A i \in 1..(n - 1) : r[i] = q[i + 1]
        /\ Head(q) = q[1] /\ q[1] \in Event /\ r \in Seq(Event)
    OBVIOUS
  <1> HIDE DEF r, n
  <1>2. \A i \in 1..(n - 1) : i + 1 \in 1..n /\ 1 < i + 1
    BY <1>1
  <1>3. Head(q) \in Elts(q)
    BY <1>1 DEF Elts
  <1>4. Elts(r) \subseteq Elts(q) /\ \A d \in Elts(r) : <<Head(q), d>> \in R
    <2> SUFFICES ASSUME NEW i \in 1..(n - 1)
                 PROVE  r[i] \in Elts(q) /\ <<q[1], r[i]>> \in R
      BY <1>1 DEF Elts
    <2>1. 1 \in DOMAIN q /\ i + 1 \in DOMAIN q /\ r[i] = q[i + 1] /\ 1 < i + 1
      BY <1>1, <1>2
    <2> QED
      BY <2>1 DEF Elts, Ordered
  <1>5. Ordered(r, R)
    <2> SUFFICES ASSUME NEW i \in DOMAIN r, NEW j \in DOMAIN r, i < j
                 PROVE  <<r[i], r[j]>> \in R
      BY DEF Ordered
    <2>1. /\ i + 1 \in DOMAIN q /\ j + 1 \in DOMAIN q /\ i + 1 < j + 1
          /\ r[i] = q[i + 1] /\ r[j] = q[j + 1]
      BY <1>1, <1>2
    <2> QED
      BY <2>1 DEF Ordered
  <1> QED
    BY <1>1, <1>3, <1>4, <1>5 DEF r

LEMMA EltsTyped ==
    ASSUME CoreInv
    PROVE  /\ \A e \in Elts(ran) \cup Elts(customEvents) \cup Elts(custom_events) : e \in Event
           /\ nposted \in Nat
           /\ \A t \in Threads : pc[t] # "idle" => arg[t] \in Event
  BY LoopEventsAssumption DEF CoreInv, TypeOK, ArgInv, Elts

\* A new event has the greatest id, so it comes after every other.
LEMMA OrderBegin ==
    ASSUME CoreInv, OrderInv, NEW t \in Threads, postEvent(t) \/ PostRaw(t)
    PROVE  OrderInv'
  <1> DEFINE e(k) == [id |-> nposted + 1, kind |-> k, by |-> t]
  <1>0. PICK k \in {"fn", "raw"} :
          /\ Begin(t, k)
          /\ \/ k = "fn" /\ customEvents' = Append(customEvents, e("fn"))
             \/ k = "raw" /\ customEvents' = customEvents
    BY DEF postEvent, PostRaw
  <1> DEFINE ev == e(k)
  <1>1. /\ nposted' = nposted + 1 /\ nposted < MaxPosts
        /\ arg' = [arg EXCEPT ![t] = ev] /\ pc' = [pc EXCEPT ![t] = "post"]
        /\ ran' = ran /\ custom_events' = custom_events
        /\ k = "fn" => customEvents' = Append(customEvents, ev)
        /\ k = "raw" => customEvents' = customEvents
    BY <1>0 DEF Begin, MayPost
  <1>2. /\ ev \in Event /\ ev.id = nposted + 1 /\ ev.by = t /\ ev.kind = k
    <2>1. nposted + 1 \in 1..MaxPosts
      BY <1>1, LoopEventsAssumption DEF CoreInv, TypeOK
    <2> QED
      BY <2>1 DEF Event
  <1> HIDE DEF e, ev
  <1>3. \A d \in Elts(ran) \cup Elts(customEvents) \cup Elts(custom_events) :
           d \in Event /\ d.id <= nposted /\ d.id \in Nat
    <2>1. \A d \in Event : d.id \in Nat
      BY LoopEventsAssumption DEF Event
    <2> QED
      BY <2>1, EltsTyped DEF OrderInv
  <1>4. nposted \in Nat
    BY EltsTyped
  <1>5. \A d \in Elts(ran) \cup Elts(customEvents) \cup Elts(custom_events) :
           <<d, ev>> \in Precedes /\ <<d, ev>> \in RawPrecedes
    <2> SUFFICES ASSUME NEW d \in Elts(ran) \cup Elts(customEvents) \cup Elts(custom_events)
                 PROVE  d.id < ev.id
      BY <1>2, <1>3, Compared
    <2> QED
      BY <1>2, <1>3, <1>4
  <1>6. /\ Ordered(customEvents', Precedes)
        /\ Elts(customEvents') \subseteq Elts(customEvents) \cup {ev}
        /\ k = "raw" => Elts(customEvents') = Elts(customEvents)
    <2>1. CASE k = "raw"
      BY <1>1, <2>1 DEF OrderInv
    <2>2. CASE k = "fn"
      <3>1. customEvents \in Seq(Event)
        BY DEF CoreInv, TypeOK
      <3> QED
        BY <1>1, <1>2, <1>5, <2>2, <3>1, AppendOrdered DEF OrderInv
    <2> QED
      BY <2>1, <2>2
  <1>7. \A d \in Elts(customEvents') : d.kind = "fn" /\ d.id <= nposted'
    <2> SUFFICES ASSUME NEW d \in Elts(customEvents')
                 PROVE  d.kind = "fn" /\ d.id <= nposted'
      OBVIOUS
    <2>1. CASE d \in Elts(customEvents)
      <3>1. d.kind = "fn"
        BY <2>1 DEF OrderInv
      <3>2. d.id <= nposted /\ d.id \in Nat
        BY <1>3, <2>1
      <3> QED
        BY <1>1, <1>4, <3>1, <3>2
    <2>2. CASE d \notin Elts(customEvents)
      <3>1. d = ev /\ k = "fn"
        BY <1>1, <1>6, <2>2
      <3> QED
        BY <1>1, <1>2, <1>4, <3>1
    <2> QED
      BY <2>1, <2>2
  <1>8. \A d \in Elts(ran), f \in Elts(customEvents') : <<d, f>> \in Precedes
    BY <1>5, <1>6 DEF OrderInv
  <1>9. ASSUME NEW u \in Threads, pc'[u] # "idle"
        PROVE  /\ arg'[u].by = u /\ arg'[u].id <= nposted'
               /\ \A d \in Elts(ran) \cup Elts(custom_events) : <<d, arg'[u]>> \in RawPrecedes
    <2>1. CASE u = t
      <3>1. arg'[u] = ev
        BY <1>1, <2>1 DEF CoreInv, TypeOK
      <3> QED
        BY <1>1, <1>2, <1>4, <1>5, <2>1, <3>1
    <2>2. CASE u # t
      <3>1. arg'[u] = arg[u] /\ pc[u] # "idle"
        BY <1>1, <1>9, <2>2 DEF CoreInv, TypeOK
      <3>2. arg[u].id \in Nat
        BY <3>1, EltsTyped DEF Event
      <3>3. /\ arg[u].by = u /\ arg[u].id <= nposted
            /\ \A d \in Elts(ran) \cup Elts(custom_events) : <<d, arg[u]>> \in RawPrecedes
        BY <3>1 DEF OrderInv
      <3>4. arg[u].id <= nposted'
        BY <1>1, <1>4, <3>2, <3>3
      <3> QED
        BY <3>1, <3>3, <3>4
    <2> QED
      BY <2>1, <2>2
  <1>10. \A d \in Elts(ran) \cup Elts(custom_events) : d.id <= nposted'
    BY <1>1, <1>3, <1>4
  <1>11. \A d \in Elts(ran'), f \in Elts(customEvents') : <<d, f>> \in Precedes
    BY <1>1, <1>8
  <1> QED
    BY <1>1, <1>6, <1>7, <1>9, <1>10, <1>11 DEF OrderInv

\* A queued event comes after its thread's earlier ones; another thread's event
\* in hand is not compared with it.
LEMMA OrderPush ==
    ASSUME CoreInv, OrderInv, NEW t \in Threads, PushAndUnlock(t)
    PROVE  OrderInv'
  <1>1. /\ pc[t] # "idle" /\ custom_events' = Append(custom_events, arg[t])
        /\ pc' = [pc EXCEPT ![t] = "idle"] /\ arg' = [arg EXCEPT ![t] = None]
        /\ ran' = ran /\ customEvents' = customEvents /\ nposted' = nposted
    BY DEF PushAndUnlock
  <1>2. /\ arg[t] \in Event /\ arg[t].by = t /\ arg[t].id <= nposted
        /\ custom_events \in Seq(Event)
    BY <1>1, EltsTyped DEF CoreInv, TypeOK, OrderInv
  <1>3. /\ Elts(custom_events') = Elts(custom_events) \cup {arg[t]}
        /\ Ordered(custom_events', RawPrecedes)
    BY <1>1, <1>2, AppendOrdered DEF OrderInv
  <1>4. \A u \in Threads : pc'[u] # "idle" => u # t /\ pc[u] # "idle" /\ arg'[u] = arg[u]
    BY <1>1 DEF CoreInv, TypeOK
  <1>5. \A u \in Threads : pc'[u] # "idle" => <<arg[t], arg[u]>> \in RawPrecedes
    <2> SUFFICES ASSUME NEW u \in Threads, pc'[u] # "idle"
                 PROVE  <<arg[t], arg[u]>> \in RawPrecedes
      OBVIOUS
    <2>1. arg[u] \in Event /\ arg[u].by = u /\ u # t
      BY <1>4, EltsTyped DEF OrderInv
    <2> QED
      BY <1>2, <2>1, Compared DEF Comparable
  <1>6. \A e \in Elts(ran), f \in Elts(custom_events') : <<e, f>> \in RawPrecedes
    BY <1>1, <1>3 DEF OrderInv
  <1>7. \A e \in Elts(custom_events') : e.id <= nposted
    BY <1>2, <1>3 DEF OrderInv
  <1>8. \A u \in Threads : pc'[u] # "idle" =>
          /\ arg'[u].by = u /\ arg'[u].id <= nposted
          /\ \A e \in Elts(ran) \cup Elts(custom_events') : <<e, arg'[u]>> \in RawPrecedes
    BY <1>3, <1>4, <1>5 DEF OrderInv
  <1> QED
    BY <1>1, <1>3, <1>6, <1>7, <1>8 DEF OrderInv

\* A direct event that runs comes before its thread's later ones.
LEMMA OrderTake ==
    ASSUME CoreInv, OrderInv, TakeEvent, custom_events # <<>>
    PROVE  OrderInv'
  <1> DEFINE ev == Head(custom_events)
  <1>1. /\ custom_events' = Tail(custom_events)
        /\ ran' = IF ev.kind = "raw" THEN Append(ran, ev) ELSE ran
        /\ pc' = pc /\ arg' = arg /\ customEvents' = customEvents /\ nposted' = nposted
    BY DEF TakeEvent
  <1>2. /\ ev \in Elts(custom_events) /\ ev \in Event
        /\ Elts(custom_events') \subseteq Elts(custom_events)
        /\ Ordered(custom_events', RawPrecedes)
        /\ \A d \in Elts(custom_events') : <<ev, d>> \in RawPrecedes
    BY <1>1, TailOrdered DEF CoreInv, TypeOK, OrderInv
  <1> HIDE DEF ev
  <1>3. CASE ev.kind # "raw"
    BY <1>1, <1>2, <1>3 DEF OrderInv
  <1>4. CASE ev.kind = "raw"
    <2>1. \A d \in Elts(ran) : <<d, ev>> \in Precedes
      <3> SUFFICES ASSUME NEW d \in Elts(ran) PROVE <<d, ev>> \in Precedes
        OBVIOUS
      <3>1. d \in Event /\ <<d, ev>> \in RawPrecedes
        BY <1>2, EltsTyped DEF OrderInv
      <3> QED
        BY <1>2, <1>4, <3>1, Compared DEF Comparable
    <2>2. /\ Elts(ran') = Elts(ran) \cup {ev}
          /\ Ordered(ran', Precedes)
      BY <1>1, <1>2, <1>4, <2>1, AppendOrdered DEF CoreInv, TypeOK, OrderInv
    <2>3. \A f \in Elts(customEvents) : <<ev, f>> \in Precedes
      <3> SUFFICES ASSUME NEW f \in Elts(customEvents) PROVE <<ev, f>> \in Precedes
        OBVIOUS
      <3>1. f \in Event /\ f.kind = "fn"
        BY EltsTyped DEF OrderInv
      <3> QED
        BY <1>2, <1>4, <3>1, Compared DEF Comparable
    <2>4. \A e \in Elts(ran'), f \in Elts(customEvents) : <<e, f>> \in Precedes
      BY <2>2, <2>3 DEF OrderInv
    <2>5. \A e \in Elts(ran'), f \in Elts(custom_events') : <<e, f>> \in RawPrecedes
      BY <1>2, <2>2 DEF OrderInv
    <2>6. \A e \in Elts(ran') \cup Elts(custom_events') : e \in Elts(ran) \cup Elts(custom_events)
      BY <1>2, <2>2
    <2> QED
      BY <1>1, <1>2, <2>2, <2>4, <2>5, <2>6 DEF OrderInv
  <1> QED
    BY <1>3, <1>4

\* The front of customEvents is older than what stays there.
LEMMA OrderRun ==
    ASSUME CoreInv, OrderInv, onCustomEvent
    PROVE  OrderInv'
  <1> DEFINE ev == Head(customEvents)
  <1>1. /\ customEvents # <<>> /\ customEvents' = Tail(customEvents)
        /\ ran' = Append(ran, ev)
        /\ pc' = pc /\ arg' = arg /\ custom_events' = custom_events /\ nposted' = nposted
    BY DEF onCustomEvent
  <1>2. /\ ev \in Elts(customEvents) /\ ev \in Event
        /\ Elts(customEvents') \subseteq Elts(customEvents)
        /\ Ordered(customEvents', Precedes)
        /\ \A d \in Elts(customEvents') : <<ev, d>> \in Precedes
    BY <1>1, TailOrdered DEF CoreInv, TypeOK, OrderInv
  <1> HIDE DEF ev
  <1>3. /\ Elts(ran') = Elts(ran) \cup {ev}
        /\ Ordered(ran', Precedes)
    BY <1>1, <1>2, AppendOrdered DEF CoreInv, TypeOK, OrderInv
  <1>4. ev.kind = "fn" /\ ev.id <= nposted
    BY <1>2 DEF OrderInv
  <1>5. \A f \in Event : <<ev, f>> \in RawPrecedes
    BY <1>2, <1>4, Compared
  <1>6. \A e \in Elts(ran'), f \in Elts(customEvents') : <<e, f>> \in Precedes
    BY <1>2, <1>3 DEF OrderInv
  <1>7. \A e \in Elts(ran'), f \in Elts(custom_events) : <<e, f>> \in RawPrecedes
    BY <1>3, <1>5, EltsTyped DEF OrderInv
  <1>8. \A t \in Threads : pc[t] # "idle" =>
          \A e \in Elts(ran') \cup Elts(custom_events) : <<e, arg[t]>> \in RawPrecedes
    BY <1>3, <1>5, EltsTyped DEF OrderInv
  <1>9. \A e \in Elts(ran') \cup Elts(customEvents') \cup Elts(custom_events) : e.id <= nposted
    BY <1>2, <1>3, <1>4 DEF OrderInv
  <1>10. \A e \in Elts(customEvents') : e.kind = "fn"
    BY <1>2 DEF OrderInv
  <1> QED
    BY <1>1, <1>2, <1>3, <1>6, <1>7, <1>8, <1>9, <1>10 DEF OrderInv

\* Callbacks given to postEvent run in the order they were queued in, and one
\* thread's direct events in the order it posted them, for any number of threads.
THEOREM CallbacksInOrder == Spec => []RunInOrder
  <1>1. Init => OrderInv
    BY DEF Init, OrderInv, Elts, Ordered
  <1>2. ASSUME CoreInv, OrderInv, [Next]_vars
        PROVE  OrderInv'
    <2>1. ASSUME UNCHANGED <<ran, customEvents, custom_events, arg, nposted>>,
                 \A t \in Threads : pc'[t] # "idle" => pc[t] # "idle"
          PROVE  OrderInv'
      BY <1>2, <2>1 DEF OrderInv
    <2>2. ASSUME NEW t \in Threads, LockAndWrite(t)
          PROVE  OrderInv'
      <3>1. \A u \in Threads : pc'[u] # "idle" => pc[u] # "idle"
        BY <1>2, <2>2 DEF LockAndWrite, CoreInv, TypeOK
      <3> QED
        BY <2>1, <2>2, <3>1 DEF LockAndWrite
    <2>3. CASE ReadSockpair \/ Return \/ UNCHANGED vars
      BY <2>1, <2>3 DEF ReadSockpair, Return, vars
    <2>4. CASE TakeEvent /\ custom_events = <<>>
      BY <2>1, <2>4 DEF TakeEvent
    <2> QED
      BY <1>2, <2>2, <2>3, <2>4, StepCases, OrderBegin, OrderPush, OrderTake, OrderRun
  <1>3. ASSUME CoreInv, OrderInv
        PROVE  RunInOrder
    <2> SUFFICES ASSUME NEW i \in DOMAIN ran, NEW j \in DOMAIN ran, i < j,
                        Comparable(ran[i], ran[j])
                 PROVE  ran[i].id < ran[j].id
      BY Zenon DEF RunInOrder, Comparable
    <2>1. ran[i] \in Event /\ ran[j] \in Event /\ <<ran[i], ran[j]>> \in Precedes
      BY <1>3 DEF OrderInv, Ordered, CoreInv, TypeOK
    <2> QED
      BY <2>1, Compared
  <1> QED
    BY <1>1, <1>2, <1>3, Core, PTL DEF Spec

-----------------------------------------------------------------------------
(***************************************************************************)
(* http_server_stop.  StopIsPending is not inductive: a worker that has    *)
(* not stored RUNNING yet needs its stop event to be there already, from   *)
(* the moment that hloop_stop has posted it.                               *)
(***************************************************************************)
Starting == {"run", "set", "hloop_run", "store"}
WorkerPlaces == {"start"} \cup Starting \cup {"while", "poll", "free", "left", "ended"}

\* The stop event of the k-th loop has been posted.
Told(k) == k < next \/ (k = next /\ spc = "null")

StopInv ==
    /\ wpc \in [Workers -> WorkerPlaces]
    /\ status \in [Workers -> {"STOP", "RUNNING"}]
    /\ loops \in Seq(Workers)
    /\ next \in 1..(Len(loops) + 1)
    /\ spc \in {"hloop_stop", "post", "null"} => next <= Len(loops)
    /\ \A k \in 1..Len(loops) : wpc[loops[k]] # "start"
    /\ \A k \in 1..Len(loops) : Told(k) =>
          /\ wpc[loops[k]] \in Starting => loops[k] \in posted
          /\ wpc[loops[k]] \in {"while", "poll"} =>
                status[loops[k]] = "STOP" \/ loops[k] \in posted

LEMMA StopWorkerStep ==
    ASSUME StopInv, NEW w \in Workers, Worker(w)
    PROVE  StopInv'
  <1> USE DEF StopInv, Told, Starting, WorkerPlaces, At
  <1>1. CASE Created(w)
    <2>1. /\ loops' \in Seq(Workers) /\ Len(loops') = Len(loops) + 1
          /\ \A k \in 1..Len(loops) : loops'[k] = loops[k] /\ loops[k] # w
          /\ loops'[Len(loops) + 1] = w
      <3>1. loops' = Append(loops, w) /\ wpc[w] = "start" /\ loops \in Seq(Workers)
        BY <1>1 DEF Created
      <3>2. \A k \in 1..Len(loops) : loops[k] # w
        BY <3>1
      <3> HIDE DEF StopInv, Told, Starting, WorkerPlaces
      <3> QED
        BY <3>1, <3>2
    <2>2. wpc' = [wpc EXCEPT ![w] = "run"] /\ UNCHANGED <<spc, status, posted, next>>
      BY <1>1 DEF Created
    <2>3. \A k \in 1..Len(loops') : Told(k)' => k \in 1..Len(loops) /\ Told(k)
      BY <2>1, <2>2
    <2>4. \A k \in 1..Len(loops) : wpc'[loops'[k]] = wpc[loops[k]]
      BY <2>1, <2>2
    <2>5. wpc' \in [Workers -> WorkerPlaces] /\ \A u \in Workers : u # w => wpc'[u] = wpc[u]
      BY <2>2
    <2>6. next' \in 1..(Len(loops') + 1) /\ (spc' \in {"hloop_stop", "post", "null"} => next' <= Len(loops'))
      BY <2>1, <2>2
    <2>7. \A k \in 1..Len(loops') : wpc'[loops'[k]] # "start"
      <3>0. Len(loops) \in Nat /\ wpc \in [Workers -> WorkerPlaces]
            /\ \A k \in 1..Len(loops) : wpc[loops[k]] # "start"
        OBVIOUS
      <3> HIDE DEF StopInv, Told, Starting, WorkerPlaces
      <3>1. \A k \in 1..Len(loops') : k \in 1..Len(loops) \/ k = Len(loops) + 1
        BY <2>1, <3>0
      <3>2. wpc'[w] = "run"
        BY <2>2, <3>0
      <3> QED
        BY <2>1, <2>4, <3>0, <3>1, <3>2
    <2>8. \A k \in 1..Len(loops') : Told(k)' =>
            /\ wpc'[loops'[k]] \in Starting => loops'[k] \in posted'
            /\ wpc'[loops'[k]] \in {"while", "poll"} =>
                 status'[loops'[k]] = "STOP" \/ loops'[k] \in posted'
      BY <2>1, <2>2, <2>3, <2>4
    <2> QED
      BY <2>1, <2>2, <2>5, <2>6, <2>7, <2>8
  <1>2. CASE run(w)
    <2>1. /\ wpc' = [wpc EXCEPT ![w] = IF w \in loop_ THEN "set" ELSE "ended"]
          /\ wpc[w] = "run" /\ UNCHANGED <<spc, loops, status, posted, next>>
      BY <1>2 DEF run
    <2>2. \A u \in Workers : wpc'[u] = wpc[u] \/ (wpc[u] \in Starting /\ wpc'[u] \in {"set", "ended"})
      BY <2>1
    <2> QED
      BY <2>1, <2>2
  <1>3. CASE SetRunning(w)
    BY <1>3 DEF SetRunning
  <1>4. CASE hloop_run(w)
    BY <1>4 DEF hloop_run, Wild
  <1>5. CASE StoreRunning(w)
    BY <1>5 DEF StoreRunning
  <1>6. CASE While(w)
    BY <1>6 DEF While
  <1>7. CASE Poll(w)
    BY <1>7 DEF Poll, Takes
  <1>8. CASE Free(w)
    BY <1>8 DEF Free
  <1>9. CASE SetStopped(w)
    BY <1>9 DEF SetStopped
  <1> QED
    BY <1>1, <1>2, <1>3, <1>4, <1>5, <1>6, <1>7, <1>8, <1>9 DEF Worker

LEMMA StopperStep ==
    ASSUME StopInv, http_server_stop \/ Stopper
    PROVE  StopInv'
  <1> USE DEF StopInv, Told, Starting, WorkerPlaces, Goes, w_
  <1>1. CASE http_server_stop
    BY <1>1 DEF http_server_stop
  <1>2. CASE stop
    BY <1>2 DEF stop
  <1>3. CASE hloop_stop
    BY <1>3 DEF hloop_stop
  <1>4. CASE PostStop
    BY <1>4 DEF PostStop, Wild
  <1>5. CASE SetNull
    BY <1>5 DEF SetNull
  <1>6. CASE Join
    BY <1>6 DEF Join
  <1> QED
    BY <1>1, <1>2, <1>3, <1>4, <1>5, <1>6 DEF Stopper

\* A loop whose stop has returned has its status at STOP or the stop event still
\* to take, however the stores of RUNNING and STOP and the event fall together,
\* for any number of workers.
THEOREM StopAlwaysPending == ServerSpec => []StopIsPending
  <1>1. ServerInit => StopInv
    BY DEF ServerInit, StopInv, Told, WorkerPlaces, Starting
  <1>2. StopInv /\ [ServerNext]_serverVars => StopInv'
    <2> SUFFICES ASSUME StopInv, [ServerNext]_serverVars PROVE StopInv'
      OBVIOUS
    <2>1. CASE UNCHANGED serverVars
      BY <2>1 DEF serverVars, StopInv, Told
    <2> QED
      BY <2>1, StopWorkerStep, StopperStep DEF ServerNext
  <1>3. StopInv => StopIsPending
    BY DEF StopInv, Told, StopIsPending
  <1> QED
    BY <1>1, <1>2, <1>3, PTL DEF ServerSpec

=============================================================================
