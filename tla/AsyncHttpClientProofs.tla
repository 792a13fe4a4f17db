------------------------- MODULE AsyncHttpClientProofs -------------------------
(***************************************************************************)
(* Proofs about AsyncHttpClient, for any numbers of tasks, of descriptors  *)
(* and of retries.                                                         *)
(***************************************************************************)
EXTENDS AsyncHttpClient, FiniteSetTheorems, SequenceTheorems, TLAPS

Elems(s) == {s[k] : k \in 1..Len(s)}
Distinct(s) == \A j, k \in 1..Len(s) : s[j] = s[k] => j = k

Held(t) == \E f \in Fds : task[f] = t

\* A task that was sent is posted, or a channel has it, or it is answered: this
\* says of each task and channel what TaskInOnePlace counts.
Places ==
    /\ Distinct(events)
    /\ \A f, g \in Fds : task[f] = task[g] /\ task[f] # NULL => f = g
    /\ \A t \in Tasks : answers[t] \in {0, 1}
    /\ \A t \in Elems(events) : t \in sent /\ answers[t] = 0 /\ ~Held(t)
    /\ \A f \in Fds : task[f] # NULL => task[f] \in sent /\ answers[task[f]] = 0
    /\ \A t \in Tasks : answers[t] = 1 => t \in sent
    /\ \A t \in sent : t \in Elems(events) \/ Held(t) \/ answers[t] = 1

\* Pooled connections are idle, and a descriptor without a channel has nothing.
Pool ==
    /\ Distinct(conn_pool)
    /\ \A f \in Elems(conn_pool) : channel[f] = "connected" /\ task[f] = NULL /\ f \notin timer
    /\ \A f \in Fds : channel[f] = "none" => task[f] = NULL /\ f \notin timer

IInv == TypeOK /\ Places /\ Pool /\ TimerHasTask
-----------------------------------------------------------------------------
LEMMA InitIInv == Init => IInv
<1> SUFFICES ASSUME Init PROVE IInv
  OBVIOUS
<1> USE ClientAssumption
<1>1. <<>> \in Seq(Tasks) /\ <<>> \in Seq(Fds) /\ Elems(<<>>) = {} /\ Distinct(<<>>)
  BY DEF Elems, Distinct
<1>2. TypeOK
  <2>1. RetryCnt \in 0..RetryCnt
    OBVIOUS
  <2>2. wild \in BOOLEAN
    BY DEF Init
  <2> QED
    BY <1>1, <2>1, <2>2 DEF Init, TypeOK
<1>3. Places
  BY <1>1 DEF Init, Places, Held
<1>4. Pool /\ TimerHasTask
  BY <1>1 DEF Init, Pool, TimerHasTask
<1> QED
  BY <1>2, <1>3, <1>4 DEF IInv

LEMMA Pop ==
    ASSUME NEW S, NEW s \in Seq(S), s # <<>>, Distinct(s)
    PROVE  /\ Tail(s) \in Seq(S) /\ Head(s) \in S /\ Head(s) \in Elems(s)
           /\ Distinct(Tail(s)) /\ Elems(Tail(s)) = Elems(s) \ {Head(s)}
<1>1. /\ Tail(s) \in Seq(S) /\ Len(Tail(s)) = Len(s) - 1
      /\ Len(s) \in Nat \ {0} /\ Head(s) = s[1] /\ s[1] \in S /\ 1 \in 1..Len(s)
      /\ \A k \in 1..Len(Tail(s)) : Tail(s)[k] = s[k + 1]
  OBVIOUS
<1>2. Distinct(Tail(s)) /\ Head(s) \in Elems(s)
  BY <1>1 DEF Distinct, Elems
<1>3. ASSUME NEW e \in Elems(Tail(s)) PROVE e \in Elems(s) \ {Head(s)}
  <2>1. PICK k \in 1..Len(Tail(s)) : e = s[k + 1]
    BY <1>1 DEF Elems
  <2>2. k + 1 \in 1..Len(s) /\ k + 1 # 1
    BY <1>1
  <2> QED
    BY <1>1, <2>1, <2>2 DEF Elems, Distinct
<1>4. ASSUME NEW e \in Elems(s), e # Head(s) PROVE e \in Elems(Tail(s))
  <2>1. PICK k \in 1..Len(s) : e = s[k]
    BY DEF Elems
  <2>2. k - 1 \in 1..Len(Tail(s)) /\ (k - 1) + 1 = k
    BY <1>1, <1>4, <2>1
  <2> QED
    BY <1>1, <2>1, <2>2 DEF Elems
<1> QED
  BY <1>1, <1>2, <1>3, <1>4

LEMMA Added ==
    ASSUME NEW S, NEW s \in Seq(S), NEW e \in S, Distinct(s), e \notin Elems(s)
    PROVE  /\ Append(s, e) \in Seq(S) /\ Distinct(Append(s, e))
           /\ Elems(Append(s, e)) = Elems(s) \cup {e}
<1> DEFINE p == Append(s, e)
<1>1. /\ p \in Seq(S) /\ Len(p) = Len(s) + 1 /\ Len(s) \in Nat /\ p[Len(p)] = e
      /\ \A k \in 1..Len(s) : p[k] = s[k]
  OBVIOUS
<1> HIDE DEF p
<1>2. \A k \in 1..Len(p) : k \in 1..Len(s) \/ k = Len(p)
  BY <1>1
<1>3. \A k \in 1..Len(s) : p[k] \in Elems(s) /\ p[k] # e
  BY <1>1 DEF Elems
<1>4. Distinct(p)
  BY <1>1, <1>2, <1>3 DEF Distinct
<1>5. \A x \in Elems(p) : x \in Elems(s) \cup {e}
  BY <1>1, <1>2, <1>3 DEF Elems
<1>6. ASSUME NEW x \in Elems(s) PROVE x \in Elems(p)
  <2>1. PICK k \in 1..Len(s) : x = s[k]
    BY DEF Elems
  <2>2. k \in 1..Len(p)
    BY <1>1
  <2> QED
    BY <1>1, <2>1, <2>2 DEF Elems
<1>7. e \in Elems(p)
  BY <1>1 DEF Elems
<1> QED
  BY <1>1, <1>4, <1>5, <1>6, <1>7 DEF p

LEMMA Removed ==
    ASSUME NEW S, NEW s \in Seq(S), NEW e, Distinct(s)
    PROVE  /\ RemoveFirst(s, e) \in Seq(S) /\ Distinct(RemoveFirst(s, e))
           /\ Elems(RemoveFirst(s, e)) = Elems(s) \ {e}
<1>1. CASE ~\E i \in 1..Len(s) : s[i] = e
  BY <1>1 DEF RemoveFirst, Elems
<1>2. CASE \E i \in 1..Len(s) : s[i] = e
  <2>1. PICK i \in 1..Len(s) : s[i] = e
    BY <1>2
  <2>2. {k \in 1..Len(s) : s[k] = e} = {i}
    BY <2>1 DEF Distinct
  <2>3. Min({i}) = i
    BY DEF Min
  <2>4. SelectInSeq(s, LAMBDA v : v = e) = i
    BY <2>2, <2>3 DEF SelectInSeq
  <2> DEFINE p == SubSeq(s, 1, i - 1) \o SubSeq(s, i + 1, Len(s))
  <2>5. RemoveFirst(s, e) = p
    BY <1>2, <2>4 DEF RemoveFirst, RemoveAt
  <2> HIDE DEF p
  <2>6. /\ p \in Seq(S) /\ Len(s) \in Nat /\ Len(p) = Len(s) - 1
        /\ \A k \in 1..Len(p) : p[k] = IF k < i THEN s[k] ELSE s[k + 1]
    <3> DEFINE a == SubSeq(s, 1, i - 1)
               b == SubSeq(s, i + 1, Len(s))
    <3>1. Len(s) \in Nat /\ i \in Nat /\ \A k \in 1..Len(s) : s[k] \in S
      OBVIOUS
    <3>2. a \in Seq(S) /\ Len(a) = i - 1 /\ \A k \in 1..(i - 1) : a[k] = s[k]
      BY <3>1
    <3>3. b \in Seq(S) /\ Len(b) = Len(s) - i /\ \A k \in 1..(Len(s) - i) : b[k] = s[i + k]
      BY <3>1
    <3> HIDE DEF a, b
    <3>4. /\ a \o b \in Seq(S) /\ Len(a \o b) = Len(a) + Len(b)
          /\ \A k \in 1..(Len(a) + Len(b)) :
               (a \o b)[k] = IF k <= Len(a) THEN a[k] ELSE b[k - Len(a)]
      BY <3>2, <3>3, ConcatProperties
    <3>5. \A k \in 1..(Len(s) - 1) : (a \o b)[k] = IF k < i THEN s[k] ELSE s[k + 1]
      <4> SUFFICES ASSUME NEW k \in 1..(Len(s) - 1)
                   PROVE  (a \o b)[k] = IF k < i THEN s[k] ELSE s[k + 1]
        OBVIOUS
      <4>1. k \in 1..(Len(a) + Len(b))
        BY <3>1, <3>2, <3>3
      <4>2. (a \o b)[k] = IF k <= Len(a) THEN a[k] ELSE b[k - Len(a)]
        BY <3>4, <4>1
      <4>3. CASE k < i
        <5>1. k <= Len(a) /\ k \in 1..(i - 1)
          BY <3>1, <3>2, <4>3
        <5> QED
          BY <3>2, <4>2, <4>3, <5>1
      <4>4. CASE ~(k < i)
        <5>1. ~(k <= Len(a)) /\ k - Len(a) \in 1..(Len(s) - i) /\ i + (k - Len(a)) = k + 1
          BY <3>1, <3>2, <4>4
        <5>2. b[k - Len(a)] = s[i + (k - Len(a))]
          BY <3>3, <5>1
        <5> QED
          BY <4>2, <4>4, <5>1, <5>2
      <4> QED
        BY <4>3, <4>4
    <3>6. p = a \o b
      BY DEF p, a, b
    <3>7. p \in Seq(S) /\ Len(p) = Len(s) - 1
      <4>1. p \in Seq(S) /\ Len(p) = Len(a) + Len(b)
        BY <3>4, <3>6, Zenon
      <4>2. Len(a) + Len(b) = Len(s) - 1
        BY <3>1, <3>2, <3>3
      <4> QED
        BY <4>1, <4>2
    <3>8. \A k \in 1..Len(p) : p[k] = IF k < i THEN s[k] ELSE s[k + 1]
      BY <3>5, <3>6, <3>7
    <3> QED
      BY <3>1, <3>7, <3>8
  <2>7. Distinct(p)
    BY <2>6 DEF Distinct
  <2>8. ASSUME NEW x \in Elems(p) PROVE x \in Elems(s) \ {e}
    <3>1. PICK k \in 1..Len(p) : x = p[k]
      BY DEF Elems
    <3>2. PICK j \in 1..Len(s) : j # i /\ x = s[j]
      BY <2>6, <3>1
    <3> QED
      BY <2>1, <3>2 DEF Elems, Distinct
  <2>9. ASSUME NEW x \in Elems(s), x # e PROVE x \in Elems(p)
    <3>1. PICK k \in 1..Len(s) : x = s[k]
      BY DEF Elems
    <3>2. k # i
      BY <2>1, <2>9, <3>1
    <3>3. CASE k < i
      <4>1. k \in 1..Len(p) /\ p[k] = s[k]
        BY <2>6, <3>3
      <4> QED
        BY <3>1, <4>1 DEF Elems
    <3>4. CASE k > i
      <4>1. k - 1 \in 1..Len(p) /\ p[k - 1] = s[k]
        BY <2>6, <3>4
      <4> QED
        BY <3>1, <4>1 DEF Elems
    <3> QED
      BY <2>6, <3>2, <3>3, <3>4
  <2> QED
    BY <2>5, <2>6, <2>7, <2>8, <2>9
<1> QED
  BY <1>1, <1>2

LEMMA AnsweredPlaces ==
    ASSUME IInv, NEW f \in Fds, UNCHANGED <<sent, events>>,
           task' = [task EXCEPT ![f] = NULL],
           IF task[f] = NULL THEN UNCHANGED answers ELSE Answered(task[f])
    PROVE  Places' /\ answers' \in [Tasks -> Nat] /\ task' \in [Fds -> Tasks \cup {NULL}]
<1> USE ClientAssumption DEF IInv
<1>1. /\ task' \in [Fds -> Tasks \cup {NULL}] /\ task'[f] = NULL
      /\ \A g \in Fds : g # f => task'[g] = task[g]
  BY DEF TypeOK
<1>2. \A t \in Tasks : Held(t)' <=> Held(t) /\ t # task[f]
  BY <1>1 DEF Held, Places, TypeOK
<1>3. CASE task[f] = NULL
  <2>1. answers' = answers
    BY <1>3
  <2>2. \A g \in Fds : task'[g] = task[g]
    BY <1>1, <1>3
  <2>3. Places'
    BY <1>1, <1>2, <1>3, <2>1, <2>2 DEF Places, TypeOK, Elems
  <2> QED
    BY <1>1, <2>1, <2>3 DEF TypeOK
<1>4. CASE task[f] # NULL
  <2>1. task[f] \in Tasks /\ answers[task[f]] = 0 /\ task[f] \in sent /\ task[f] \notin Elems(events)
    BY <1>4 DEF Places, TypeOK, Held
  <2>2. answers' = [answers EXCEPT ![task[f]] = @ + 1]
    BY <1>4 DEF Answered
  <2>3. /\ answers' \in [Tasks -> Nat] /\ answers'[task[f]] = 1
        /\ \A t \in Tasks : t # task[f] => answers'[t] = answers[t]
    BY <2>1, <2>2 DEF TypeOK
  <2>4. Elems(events) \subseteq Tasks /\ Elems(events') = Elems(events) /\ Distinct(events')
    BY DEF Elems, TypeOK, Places
  <2>5. \A g \in Fds : task'[g] # NULL => task'[g] = task[g] /\ task[g] # task[f]
    BY <1>1, <1>4 DEF Places
  <2>6. /\ \A g, h \in Fds : task'[g] = task'[h] /\ task'[g] # NULL => g = h
        /\ \A t \in Tasks : answers'[t] \in {0, 1}
        /\ \A g \in Fds : task'[g] # NULL => task'[g] \in sent /\ answers'[task'[g]] = 0
    BY <1>1, <2>3, <2>5 DEF Places, TypeOK
  <2>7. \A t \in Elems(events) : t \in sent /\ answers'[t] = 0 /\ ~Held(t)'
    BY <1>2, <2>1, <2>3, <2>4 DEF Places
  <2>8. \A t \in sent : t \in Elems(events) \/ Held(t)' \/ answers'[t] = 1
    BY <1>2, <2>1, <2>3 DEF Places, TypeOK
  <2>9. \A t \in Tasks : answers'[t] = 1 => t \in sent
    BY <2>1, <2>3 DEF Places
  <2>10. Places'
    BY <2>4, <2>6, <2>7, <2>8, <2>9 DEF Places
  <2> QED
    BY <1>1, <2>3, <2>10
<1> QED
  BY <1>3, <1>4

LEMMA RetriedPlaces ==
    ASSUME IInv, NEW f \in Fds, task[f] # NULL, UNCHANGED <<sent, answers>>,
           events' = Append(events, task[f]), task' = [task EXCEPT ![f] = NULL]
    PROVE  Places' /\ events' \in Seq(Tasks) /\ task' \in [Fds -> Tasks \cup {NULL}]
<1> USE ClientAssumption DEF IInv
<1>1. /\ task' \in [Fds -> Tasks \cup {NULL}] /\ task'[f] = NULL
      /\ \A g \in Fds : g # f => task'[g] = task[g]
  BY DEF TypeOK
<1>2. \A t \in Tasks : Held(t)' <=> Held(t) /\ t # task[f]
  BY <1>1 DEF Held, Places, TypeOK
<1>3. task[f] \in Tasks /\ answers[task[f]] = 0 /\ task[f] \in sent /\ task[f] \notin Elems(events)
  BY DEF Places, TypeOK, Held
<1>4. /\ events' \in Seq(Tasks) /\ Distinct(events')
      /\ Elems(events') = Elems(events) \cup {task[f]}
  BY <1>3, Added DEF Places, TypeOK
<1>5. Elems(events) \subseteq Tasks
  BY DEF Elems, TypeOK
<1>6. /\ \A g, h \in Fds : task'[g] = task'[h] /\ task'[g] # NULL => g = h
      /\ \A g \in Fds : task'[g] # NULL => task'[g] \in sent /\ answers[task'[g]] = 0
  BY <1>1 DEF Places
<1>7. \A t \in Elems(events') : t \in sent /\ answers[t] = 0 /\ ~Held(t)'
  BY <1>2, <1>3, <1>4, <1>5 DEF Places
<1>8. \A t \in sent : t \in Elems(events') \/ Held(t)' \/ answers[t] = 1
  BY <1>2, <1>4 DEF Places, TypeOK
<1>9. Places'
  BY <1>4, <1>6, <1>7, <1>8 DEF Places
<1> QED
  BY <1>1, <1>4, <1>9

LEMMA TakenPlaces ==
    ASSUME IInv, NEW f \in Fds, task[f] = NULL, events # <<>>, UNCHANGED <<sent, answers>>,
           events' = Tail(events), task' = [task EXCEPT ![f] = Head(events)]
    PROVE  Places'
<1> USE ClientAssumption DEF IInv
<1> DEFINE e == Head(events)
<1>1. /\ e \in Tasks /\ e \in Elems(events) /\ Distinct(events')
      /\ Elems(events') = Elems(events) \ {e}
  BY Pop DEF TypeOK, Places
<1> HIDE DEF e
<1>2. e \in sent /\ answers[e] = 0 /\ ~Held(e)
  BY <1>1 DEF Places
<1>3. /\ task'[f] = e
      /\ \A g \in Fds : g # f => task'[g] = task[g] /\ task[g] # e
  BY <1>2 DEF TypeOK, Held, e
<1>4. \A t \in Tasks : Held(t)' <=> Held(t) \/ t = e
  BY <1>3 DEF Held, TypeOK
<1>5. Elems(events) \subseteq Tasks
  BY DEF Elems, TypeOK
<1>6. /\ \A g, h \in Fds : task'[g] = task'[h] /\ task'[g] # NULL => g = h
      /\ \A g \in Fds : task'[g] # NULL => task'[g] \in sent /\ answers[task'[g]] = 0
  BY <1>2, <1>3 DEF Places
<1>7. \A t \in Elems(events') : t \in sent /\ answers[t] = 0 /\ ~Held(t)'
  BY <1>1, <1>4, <1>5 DEF Places
<1>8. \A t \in sent : t \in Elems(events') \/ Held(t)' \/ answers[t] = 1
  BY <1>1, <1>4 DEF Places, TypeOK
<1> QED
  BY <1>1, <1>6, <1>7, <1>8 DEF Places

LEMMA WildStep ==
    ASSUME IInv, Wild
    PROVE  IInv'
<1> USE ClientAssumption DEF IInv
<1>1. TypeOK'
  <2>1. wild' \in BOOLEAN
    BY Zenon DEF Wild
  <2> QED
    BY <2>1 DEF TypeOK, Wild
<1>2. Places'
  BY DEF Places, Held, TypeOK, Wild
<1>3. Pool'
  BY DEF Pool, TypeOK, Wild
<1>4. TimerHasTask'
  BY DEF TimerHasTask, TypeOK, Pool, Wild
<1> QED
  BY <1>1, <1>2, <1>3, <1>4

LEMMA StutterStep ==
    ASSUME IInv, UNCHANGED vars
    PROVE  IInv'
<1> USE ClientAssumption DEF IInv
<1>1. TypeOK'
  BY DEF TypeOK, vars
<1>2. Places'
  BY DEF Places, Held, TypeOK, vars
<1>3. Pool'
  BY DEF Pool, TypeOK, vars
<1>4. TimerHasTask'
  BY DEF TimerHasTask, TypeOK, Pool, vars
<1> QED
  BY <1>1, <1>2, <1>3, <1>4

LEMMA sendStep ==
    ASSUME IInv, NEW t \in Tasks, send(t)
    PROVE  IInv'
<1> USE ClientAssumption DEF IInv
<1>0. /\ Append(events, t) \in Seq(Tasks) /\ Distinct(Append(events, t))
      /\ Elems(Append(events, t)) = Elems(events) \cup {t}
  BY Added DEF TypeOK, Places, send
<1>1. TypeOK'
  BY <1>0 DEF TypeOK, send
<1>2. Places'
  BY <1>0 DEF Places, Held, TypeOK, send
<1>3. Pool'
  BY <1>0 DEF Pool, TypeOK, send
<1>4. TimerHasTask'
  BY <1>0 DEF TimerHasTask, TypeOK, Pool, send
<1> QED
  BY <1>1, <1>2, <1>3, <1>4

LEMMA DeadlineStep ==
    ASSUME IInv, NEW t \in Tasks, Deadline(t)
    PROVE  IInv'
<1> USE ClientAssumption DEF IInv
<1>1. TypeOK'
  BY DEF TypeOK, Deadline
<1>2. Places'
  BY DEF Places, Held, TypeOK, Deadline
<1>3. Pool'
  BY DEF Pool, TypeOK, Deadline
<1>4. TimerHasTask'
  BY DEF TimerHasTask, TypeOK, Pool, Deadline
<1> QED
  BY <1>1, <1>2, <1>3, <1>4

LEMMA SendFailsStep ==
    ASSUME IInv, SendFails
    PROVE  IInv'
<1> USE ClientAssumption DEF IInv
<1>0. /\ Tail(events) \in Seq(Tasks) /\ Head(events) \in Tasks /\ Head(events) \in Elems(events)
      /\ Distinct(Tail(events)) /\ Elems(Tail(events)) = Elems(events) \ {Head(events)}
  BY Pop DEF TypeOK, Places, SendFails
<1>1. TypeOK'
  BY <1>0 DEF TypeOK, SendFails
<1>2. Places'
  BY <1>0 DEF Places, Held, TypeOK, SendFails
<1>3. Pool'
  BY <1>0 DEF Pool, TypeOK, SendFails
<1>4. TimerHasTask'
  BY <1>0 DEF TimerHasTask, TypeOK, Pool, SendFails
<1> QED
  BY <1>1, <1>2, <1>3, <1>4

LEMMA doTaskStep ==
    ASSUME IInv, doTask
    PROVE  IInv'
<1> USE ClientAssumption DEF IInv
<1>0. /\ Tail(events) \in Seq(Tasks) /\ Head(events) \in Tasks /\ Head(events) \in Elems(events)
      /\ Distinct(Tail(events)) /\ Elems(Tail(events)) = Elems(events) \ {Head(events)}
  BY Pop DEF TypeOK, Places, doTask
<1>9. conn_pool # <<>> =>
        /\ Tail(conn_pool) \in Seq(Fds) /\ Head(conn_pool) \in Fds
        /\ Head(conn_pool) \in Elems(conn_pool) /\ Distinct(Tail(conn_pool))
        /\ Elems(Tail(conn_pool)) = Elems(conn_pool) \ {Head(conn_pool)}
  BY Pop DEF TypeOK, Pool
<1>1. TypeOK'
  BY <1>0, <1>9 DEF TypeOK, doTask, TimerSet
<1>2. Places'
  <2>1. PICK f \in Fds :
          /\ \/ conn_pool # <<>> /\ f = Head(conn_pool)
             \/ channel[f] = "none"
          /\ task' = [task EXCEPT ![f] = Head(events)]
    BY DEF doTask
  <2>2. task[f] = NULL
    BY <1>9, <2>1 DEF Pool
  <2>3. events # <<>> /\ events' = Tail(events) /\ UNCHANGED <<sent, answers>>
    BY DEF doTask
  <2> QED
    BY <2>1, <2>2, <2>3, TakenPlaces
<1>3. Pool'
  <2>1. PICK f \in Fds :
          /\ \/ /\ conn_pool # <<>> /\ f = Head(conn_pool)
                /\ conn_pool' = Tail(conn_pool)
                /\ UNCHANGED channel
             \/ /\ conn_pool = <<>> /\ channel[f] = "none"
                /\ channel' = [channel EXCEPT ![f] = "connecting"]
                /\ UNCHANGED conn_pool
          /\ task' = [task EXCEPT ![f] = Head(events)]
          /\ timer' = TimerSet(f, Head(events))
    BY DEF doTask
  <2>2. \A g \in Fds : g # f => /\ task'[g] = task[g] /\ (g \in timer' <=> g \in timer)
                               /\ channel'[g] = channel[g]
    BY <2>1 DEF TypeOK, TimerSet
  <2>3. channel'[f] # "none"
    BY <1>9, <2>1 DEF Pool, TypeOK
  <2>4. Elems(conn_pool') = Elems(conn_pool) \ {f} /\ Distinct(conn_pool')
    <3>1. CASE conn_pool # <<>>
      BY <1>9, <2>1, <3>1
    <3>2. CASE conn_pool = <<>>
      BY <2>1, <3>2 DEF Elems, Distinct
    <3> QED
      BY <3>1, <3>2
  <2>5. Elems(conn_pool) \subseteq Fds
    BY DEF Elems, TypeOK
  <2> QED
    BY <2>2, <2>3, <2>4, <2>5 DEF Pool
<1>4. TimerHasTask'
  BY <1>0, <1>9 DEF TimerHasTask, TypeOK, Pool, doTask, TimerSet
<1> QED
  BY <1>1, <1>2, <1>3, <1>4

LEMMA onconnectStep ==
    ASSUME IInv, NEW f \in Fds, onconnect(f), ~Wild
    PROVE  IInv'
<1> USE ClientAssumption DEF IInv
<1>1. TypeOK'
  BY DEF TypeOK, onconnect
<1>2. Places'
  BY DEF Places, Held, TypeOK, onconnect
<1>3. Pool'
  <2>1. /\ channel[f] = "connecting" /\ channel' = [channel EXCEPT ![f] = "connected"]
        /\ UNCHANGED <<task, timer, conn_pool>>
    BY DEF onconnect
  <2>2. Elems(conn_pool) \subseteq Fds
    BY DEF Elems, TypeOK
  <2> QED
    BY <2>1, <2>2 DEF Pool, TypeOK
<1>4. TimerHasTask'
  BY DEF TimerHasTask, TypeOK, Pool, onconnect
<1> QED
  BY <1>1, <1>2, <1>3, <1>4

LEMMA oncloseStep ==
    ASSUME IInv, NEW f \in Fds, NEW set, onclose(f, set),
           UNCHANGED <<sent, timed, expired, wild>>
    PROVE  IInv'
<1> USE ClientAssumption DEF IInv
<1>0. /\ Unpooled(f) \in Seq(Fds) /\ Distinct(Unpooled(f))
      /\ Elems(Unpooled(f)) = Elems(conn_pool) \ {f}
  BY Removed DEF TypeOK, Pool, Unpooled
<1>9. task[f] # NULL =>
        /\ Append(events, task[f]) \in Seq(Tasks) /\ Distinct(Append(events, task[f]))
        /\ Elems(Append(events, task[f])) = Elems(events) \cup {task[f]}
  <2> SUFFICES ASSUME task[f] # NULL PROVE task[f] \in Tasks /\ task[f] \notin Elems(events)
    BY Added DEF TypeOK, Places
  <2> QED
    BY DEF TypeOK, Places, Held
<1>1. TypeOK'
  <2>1. task' \in [Fds -> Tasks \cup {NULL}]
    BY DEF onclose, TypeOK
  <2>2. channel' \in [Fds -> {"none", "connecting", "connected"}]
    BY DEF onclose, TypeOK
  <2>3. /\ closing' \subseteq Fds /\ conn_pool' \in Seq(Fds) /\ wild' \in BOOLEAN
        /\ sent' \subseteq Tasks /\ timed' \subseteq Tasks /\ expired' \subseteq Tasks
    BY <1>0 DEF onclose, TypeOK
  <2>4. CASE TriedAgain(f, set)
    <3>1. task[f] \in Tasks
      BY <2>4 DEF TriedAgain, TypeOK
    <3>2. retry_cnt' \in [Tasks -> 0..RetryCnt]
      BY <2>4, <3>1 DEF TriedAgain, TypeOK
    <3>3. /\ events' \in Seq(Tasks) /\ dangling' \subseteq Tasks /\ timer' \subseteq Fds
          /\ answers' = answers
      BY <1>9, <2>4, <3>1 DEF TriedAgain, TypeOK
    <3> QED
      BY <2>1, <2>2, <2>3, <3>2, <3>3 DEF TypeOK
  <2>5. CASE callback(f) /\ UNCHANGED <<events, retry_cnt, dangling>>
    <3>1. answers' \in [Tasks -> Nat]
      BY <2>5, AnsweredPlaces DEF onclose, callback
    <3>2. timer' \subseteq Fds
      BY <2>5 DEF callback, Killed, TypeOK
    <3> QED
      BY <2>1, <2>2, <2>3, <2>5, <3>1, <3>2 DEF TypeOK
  <2> QED
    BY <2>4, <2>5 DEF onclose
<1>2. Places'
  <2>1. CASE TriedAgain(f, set)
    BY <2>1, RetriedPlaces DEF onclose, TriedAgain
  <2>2. CASE callback(f) /\ UNCHANGED events
    BY <2>2, AnsweredPlaces DEF onclose, callback
  <2> QED
    BY <2>1, <2>2 DEF onclose
<1>3. Pool'
  BY <1>0, <1>9 DEF Pool, TypeOK, onclose, TriedAgain, callback, Killed, Answered
<1>4. TimerHasTask'
  BY <1>0, <1>9 DEF TimerHasTask, TypeOK, Pool, onclose, TriedAgain, callback, Killed, Answered
<1> QED
  BY <1>1, <1>2, <1>3, <1>4

LEMMA ResponseClosesStep ==
    ASSUME IInv, NEW f \in Fds, ResponseCloses(f)
    PROVE  IInv'
<1> USE ClientAssumption DEF IInv
<1>0. /\ Unpooled(f) \in Seq(Fds) /\ Distinct(Unpooled(f))
      /\ Elems(Unpooled(f)) = Elems(conn_pool) \ {f}
  BY Removed DEF TypeOK, Pool, Unpooled
<1>1. TypeOK'
  <2>1. answers' \in [Tasks -> Nat] /\ task' \in [Fds -> Tasks \cup {NULL}]
    BY AnsweredPlaces DEF ResponseCloses, callback
  <2>2. timer' \subseteq Fds
    BY DEF ResponseCloses, callback, Killed, TypeOK
  <2>3. channel' \in [Fds -> {"none", "connecting", "connected"}] /\ closing' \subseteq Fds
    BY DEF ResponseCloses, TypeOK
  <2>4. conn_pool' \in Seq(Fds)
    BY <1>0 DEF ResponseCloses, TypeOK
  <2> QED
    BY <2>1, <2>2, <2>3, <2>4 DEF ResponseCloses, TypeOK
<1>2. Places'
  BY AnsweredPlaces DEF ResponseCloses, callback
<1>3. Pool'
  <2>1. task'[f] = NULL /\ f \notin timer' /\ channel[f] = "connected" /\ task[f] # NULL
    BY DEF ResponseCloses, callback, Killed, TypeOK
  <2>2. \A g \in Fds : g # f => /\ task'[g] = task[g] /\ (g \in timer' <=> g \in timer)
                               /\ channel'[g] = channel[g]
    BY DEF ResponseCloses, callback, Killed, TypeOK
  <2>3. f \notin Elems(conn_pool)
    BY <2>1 DEF Pool
  <2>4. Elems(conn_pool') = Elems(conn_pool) /\ Distinct(conn_pool')
    BY <1>0, <2>3 DEF ResponseCloses, Pool
  <2>5. Elems(conn_pool) \subseteq Fds
    BY DEF Elems, TypeOK
  <2> QED
    BY <2>1, <2>2, <2>3, <2>4, <2>5 DEF Pool
<1>4. TimerHasTask'
  BY <1>0 DEF TimerHasTask, TypeOK, Pool, ResponseCloses, callback, Killed, Answered
<1> QED
  BY <1>1, <1>2, <1>3, <1>4

LEMMA ResponseKeepsAliveStep ==
    ASSUME IInv, NEW f \in Fds, ResponseKeepsAlive(f)
    PROVE  IInv'
<1> USE ClientAssumption DEF IInv
<1>0. /\ Append(conn_pool, f) \in Seq(Fds) /\ Distinct(Append(conn_pool, f))
      /\ Elems(Append(conn_pool, f)) = Elems(conn_pool) \cup {f}
  BY Added DEF TypeOK, Pool, ResponseKeepsAlive
<1>1. TypeOK'
  <2>1. answers' \in [Tasks -> Nat] /\ task' \in [Fds -> Tasks \cup {NULL}]
    BY AnsweredPlaces DEF ResponseKeepsAlive, callback
  <2>2. timer' \subseteq Fds
    BY DEF ResponseKeepsAlive, callback, Killed, TypeOK
  <2>3. channel' \in [Fds -> {"none", "connecting", "connected"}] /\ closing' \subseteq Fds
    BY DEF ResponseKeepsAlive, TypeOK
  <2>4. conn_pool' \in Seq(Fds)
    BY <1>0 DEF ResponseKeepsAlive, TypeOK
  <2> QED
    BY <2>1, <2>2, <2>3, <2>4 DEF ResponseKeepsAlive, TypeOK
<1>2. Places'
  BY AnsweredPlaces DEF ResponseKeepsAlive, callback
<1>3. Pool'
  BY <1>0 DEF Pool, TypeOK, ResponseKeepsAlive, callback, Killed, Answered
<1>4. TimerHasTask'
  BY <1>0 DEF TimerHasTask, TypeOK, Pool, ResponseKeepsAlive, callback, Killed, Answered
<1> QED
  BY <1>1, <1>2, <1>3, <1>4

LEMMA DeferredStep ==
    ASSUME IInv, NEW f \in Fds, Deferred(f), timer' = timer \ {f},
           UNCHANGED <<sent, timed, expired, answers, wild>>
    PROVE  IInv'
<1> USE ClientAssumption DEF IInv
<1>1. TypeOK'
  BY DEF TypeOK, Deferred
<1>2. Places'
  BY DEF Places, Held, TypeOK, Deferred
<1>3. Pool'
  BY DEF Pool, TypeOK, Deferred
<1>4. TimerHasTask'
  BY DEF TimerHasTask, TypeOK, Pool, Deferred
<1> QED
  BY <1>1, <1>2, <1>3, <1>4

LEMMA NextIInv == IInv /\ [Next]_vars => IInv'
<1> SUFFICES ASSUME IInv, [Next]_vars PROVE IInv'
  OBVIOUS
<1>1. CASE Wild
  BY <1>1, WildStep
<1>2. ASSUME NEW t \in Tasks, send(t) \/ Deadline(t) \/ DanglingTimeout(t)
      PROVE  IInv'
  BY <1>2, sendStep, DeadlineStep, WildStep DEF DanglingTimeout
<1>3. CASE SendFails \/ doTask \/ PooledWriteFails
  BY <1>3, SendFailsStep, doTaskStep, WildStep DEF PooledWriteFails
<1>4. ASSUME NEW f \in Fds, onconnect(f), ~Wild
      PROVE  IInv'
  BY <1>4, onconnectStep
<1>5. ASSUME NEW f \in Fds, ResponseCloses(f) \/ ResponseKeepsAlive(f)
      PROVE  IInv'
  BY <1>5, ResponseClosesStep, ResponseKeepsAliveStep
<1>6. ASSUME NEW f \in Fds, Closed(f)
      PROVE  IInv'
  BY <1>6, oncloseStep DEF Closed
<1>7. ASSUME NEW f \in Fds, Timeout(f)
      PROVE  IInv'
  <2>1. UNCHANGED <<sent, timed, expired, wild>>
    BY <1>7 DEF Timeout
  <2>2. CASE onclose(f, FALSE)
    BY <2>1, <2>2, oncloseStep
  <2>3. CASE Deferred(f) /\ timer' = timer \ {f} /\ UNCHANGED answers
    BY <2>1, <2>3, DeferredStep
  <2> QED
    BY <1>7, <2>2, <2>3 DEF Timeout
<1>8. CASE UNCHANGED vars
  BY <1>8, StutterStep
<1> QED
  BY <1>1, <1>2, <1>3, <1>4, <1>5, <1>6, <1>7, <1>8 DEF Next

LEMMA AlwaysIInv == Spec => []IInv
  BY InitIInv, NextIInv, PTL DEF Spec

LEMMA OnePlace == IInv => TaskInOnePlace
<1> SUFFICES ASSUME IInv, NEW t \in Tasks
             PROVE  Cardinality(Posted(t)) + Cardinality(Holding(t)) + answers[t]
                      = IF t \in sent THEN 1 ELSE 0
  BY DEF TaskInOnePlace
<1> USE ClientAssumption DEF IInv
<1>1. answers[t] \in {0, 1} /\ DOMAIN events = 1..Len(events)
  BY DEF Places, TypeOK
<1>2. t \notin Elems(events) => Cardinality(Posted(t)) = 0
  <2>1. t \notin Elems(events) => Posted(t) = {}
    BY <1>1 DEF Elems, Posted
  <2> QED
    BY <2>1, FS_EmptySet
<1>3. t \in Elems(events) => Cardinality(Posted(t)) = 1
  <2> SUFFICES ASSUME t \in Elems(events) PROVE Cardinality(Posted(t)) = 1
    OBVIOUS
  <2>1. PICK k \in 1..Len(events) : events[k] = t
    BY DEF Elems
  <2>2. Posted(t) = {k}
    BY <1>1, <2>1 DEF Posted, Places, Distinct
  <2> QED
    BY <2>2, FS_Singleton
<1>4. ~Held(t) => Cardinality(Holding(t)) = 0
  <2>1. ~Held(t) => Holding(t) = {}
    BY DEF Held, Holding
  <2> QED
    BY <2>1, FS_EmptySet
<1>5. Held(t) => Cardinality(Holding(t)) = 1
  <2> SUFFICES ASSUME Held(t) PROVE Cardinality(Holding(t)) = 1
    OBVIOUS
  <2>1. PICK f \in Fds : task[f] = t
    BY DEF Held
  <2>2. Holding(t) = {f}
    BY <2>1 DEF Holding, Places
  <2> QED
    BY <2>2, FS_Singleton
<1>6. /\ t \in Elems(events) => t \in sent /\ answers[t] = 0 /\ ~Held(t)
      /\ Held(t) => t \in sent /\ answers[t] = 0
      /\ answers[t] = 1 => t \in sent
      /\ t \in sent => t \in Elems(events) \/ Held(t) \/ answers[t] = 1
  BY DEF Places, Held
<1> QED
  BY <1>1, <1>2, <1>3, <1>4, <1>5, <1>6

\* The state of the client always has its types; a task is never retried more
\* than retry_cnt times.
THEOREM TypeCorrect == Spec => []TypeOK
<1>1. IInv => TypeOK
  BY DEF IInv
<1> QED
  BY <1>1, AlwaysIInv, PTL

\* A task that was sent is posted once, held by one channel or answered once,
\* whatever responses, closes, retries and time-outs come.
THEOREM TaskAlwaysInOnePlace == Spec => []TaskInOnePlace
  BY AlwaysIInv, OnePlace, PTL

\* A connection in the pool is connected, without task and timer, and is there
\* only once.
THEOREM PoolAlwaysIdle == Spec => []PoolIsIdle
<1>1. IInv => PoolIsIdle
  <2> SUFFICES ASSUME IInv, NEW k \in DOMAIN conn_pool
               PROVE  /\ channel[conn_pool[k]] = "connected"
                      /\ task[conn_pool[k]] = NULL
                      /\ conn_pool[k] \notin timer
                      /\ \A j \in DOMAIN conn_pool : conn_pool[j] = conn_pool[k] => j = k
    BY DEF PoolIsIdle
  <2>1. DOMAIN conn_pool = 1..Len(conn_pool)
    BY DEF IInv, TypeOK
  <2>2. conn_pool[k] \in Elems(conn_pool)
    BY <2>1 DEF Elems
  <2> QED
    BY <2>1, <2>2 DEF IInv, Pool, Distinct
<1> QED
  BY <1>1, AlwaysIInv, PTL

\* The task that the callback of a channel's timer asserts is there, and has a
\* time-out.
THEOREM TimerAlwaysHasTask == Spec => []TimerHasTask
<1>1. IInv => TimerHasTask
  BY DEF IInv
<1> QED
  BY <1>1, AlwaysIInv, PTL

-----------------------------------------------------------------------------
(* What TimedIsAnswered rests on in every state. *)

\* A request with a time-out that is not answered is posted, or its channel has
\* the timer set or is closing.
AnswerIsDue ==
    \A t \in timed :
      \/ answers[t] = 1
      \/ t \in Elems(events)
      \/ \E f \in Fds : task[f] = t /\ f \in timer \cup closing

\* The same from the channels' side, which is inductive.
Guarded ==
    /\ timed \subseteq sent
    /\ \A f \in Fds : task[f] \in timed => f \in timer \cup closing

\* A channel that gives its task up needs neither timer nor close.
LEMMA GivenUp ==
    ASSUME IInv, Guarded, NEW f \in Fds, UNCHANGED <<sent, timed>>,
           task' = [task EXCEPT ![f] = NULL],
           timer \ {f} \subseteq timer', closing \ {f} \subseteq closing'
    PROVE  Guarded'
<1>1. NULL \notin timed
  BY ClientAssumption DEF IInv, TypeOK
<1>2. \A g \in Fds : task'[g] = IF g = f THEN NULL ELSE task[g]
  BY DEF IInv, TypeOK
<1> QED
  BY <1>1, <1>2 DEF Guarded

LEMMA GuardedStep == IInv /\ Guarded /\ [Next]_vars => Guarded'
<1> SUFFICES ASSUME IInv, Guarded, [Next]_vars PROVE Guarded'
  OBVIOUS
<1>1. CASE Wild \/ SendFails \/ PooledWriteFails \/ UNCHANGED vars
  BY <1>1 DEF Guarded, Wild, SendFails, PooledWriteFails, vars
<1>2. ASSUME NEW t \in Tasks, send(t)
      PROVE  Guarded'
  <2>1. \A f \in Fds : task[f] # t
    BY <1>2, ClientAssumption DEF send, IInv, Places
  <2> QED
    BY <1>2, <2>1 DEF Guarded, send
<1>3. ASSUME NEW t \in Tasks, Deadline(t) \/ DanglingTimeout(t)
      PROVE  Guarded'
  BY <1>3 DEF Guarded, Deadline, DanglingTimeout, Wild
<1>4. CASE doTask
  <2>1. PICK f \in Fds : /\ task' = [task EXCEPT ![f] = Head(events)]
                         /\ timer' = TimerSet(f, Head(events))
    BY <1>4 DEF doTask
  <2>2. UNCHANGED <<sent, timed, closing>>
    BY <1>4 DEF doTask
  <2>3. \A g \in Fds : task'[g] = IF g = f THEN Head(events) ELSE task[g]
    BY <2>1 DEF IInv, TypeOK
  <2> QED
    BY <2>1, <2>2, <2>3 DEF Guarded, TimerSet
<1>5. ASSUME NEW f \in Fds, onconnect(f)
      PROVE  Guarded'
  BY <1>5 DEF Guarded, onconnect, Wild
<1>6. ASSUME NEW f \in Fds, NEW set, onclose(f, set), UNCHANGED <<sent, timed>>
      PROVE  Guarded'
  <2>1. /\ task' = [task EXCEPT ![f] = NULL]
        /\ timer \ {f} \subseteq timer' /\ closing \ {f} \subseteq closing'
    BY <1>6 DEF onclose, TriedAgain, callback, Killed
  <2> QED
    BY <1>6, <2>1, GivenUp
<1>7. ASSUME NEW f \in Fds, ResponseCloses(f) \/ ResponseKeepsAlive(f)
      PROVE  Guarded'
  <2>1. /\ task' = [task EXCEPT ![f] = NULL] /\ UNCHANGED <<sent, timed>>
        /\ timer \ {f} \subseteq timer' /\ closing \ {f} \subseteq closing'
    BY <1>7 DEF ResponseCloses, ResponseKeepsAlive, callback, Killed
  <2> QED
    BY <2>1, GivenUp
<1>8. ASSUME NEW f \in Fds, Timeout(f)
      PROVE  Guarded'
  <2>1. UNCHANGED <<sent, timed>>
    BY <1>8 DEF Timeout
  <2>2. CASE Deferred(f) /\ timer' = timer \ {f}
    BY <2>1, <2>2 DEF Guarded, Deferred
  <2> QED
    BY <1>6, <1>8, <2>1, <2>2 DEF Timeout
<1> QED
  BY <1>1, <1>2, <1>3, <1>4, <1>5, <1>6, <1>7, <1>8 DEF Next, Closed

\* Through responses, retries, time-outs and deferred closes, no request with a
\* time-out is left waiting for the peer alone.
THEOREM AnswerAlwaysDue == Spec => []AnswerIsDue
<1>1. Init => Guarded
  BY ClientAssumption DEF Init, Guarded
<1>2. IInv /\ Guarded => AnswerIsDue
  BY DEF IInv, TypeOK, Places, Held, Guarded, AnswerIsDue
<1> QED
  BY <1>1, <1>2, GuardedStep, AlwaysIInv, PTL DEF Spec
================================================================================
