--------------------------- MODULE LoopTimersProofs ---------------------------
(***************************************************************************)
(* Proofs about timers and idles, for any number of them and any counts of *)
(* repeats.                                                                *)
(***************************************************************************)
EXTENDS LoopTimers, FiniteSetTheorems, SequenceTheorems, TLAPS

\* The type invariant; that the counters are natural numbers follows from
\* CountersExact.
Types ==
    /\ fresh \subseteq Events /\ alive \subseteq Events /\ active \subseteq Events
    /\ pending \subseteq Events /\ destroy \subseteq Events /\ linked \subseteq Events
    /\ repeat \in [Events -> Nat \cup {INFINITE}]
    /\ ntimers \in Int /\ nactives \in Int
    /\ DOMAIN timers \subseteq Timers
    /\ timers \in [DOMAIN timers -> Nat \cup {INFINITE}]
    /\ phase \in {"poll", "timers", "idles", "walk", "callback", "wild"}
    /\ due \subseteq Events /\ pendings \in Seq(Events) /\ cur \in Events \cup {None}
    /\ dead \subseteq Events /\ tainted \subseteq Timers

\* The flags go together: an allocated event is in the heap or the list unless
\* it is marked as destroy, and only an allocated one is in any use.
Flags ==
    /\ linked \subseteq alive /\ active \subseteq alive /\ pending \subseteq alive
    /\ fresh \cap alive = {} /\ fresh \cap destroy = {} /\ fresh \cap dead = {}
    /\ \A e \in alive : e \in linked <=> e \notin destroy

\* Repeats are left: to what will expire, and in an entry whose callback is
\* not running.
Positive ==
    /\ \A e \in linked : repeat[e] # 0
    /\ phase # "wild" =>
         \A t \in DOMAIN timers : timers[t] # 0 \/ (phase = "callback" /\ cur = t)

\* What was deleted stays inactive and has no entry.
Deleted == dead \cap active = {} /\ dead \cap DOMAIN timers = {}

Elems(s) == {s[k] : k \in 1..Len(s)}
Distinct(s) == \A j, k \in 1..Len(s) : s[j] = s[k] => j = k

\* The list of pendings holds each event of this turn once, with its flag or
\* reset, and every event with the flag.
Listed ==
    /\ Distinct(pendings)
    /\ Elems(pendings) \subseteq due
    /\ Elems(pendings) \subseteq pending \cup tainted
    /\ pending \subseteq Elems(pendings)
    /\ phase = "poll" => pendings = <<>>
    /\ phase = "callback" => pendings # <<>> /\ cur = Head(pendings)

\* WalkIsSafe in these words
Safe == Elems(pendings) \subseteq alive \cup (tainted \cap dead)

\* The two counts of a timer t that was never reset while pending: they differ
\* by one from its expiry to its callback, and when a callback killed t
\* meanwhile there is no entry any more.
Match(t) ==
    /\ t \notin alive => t \notin DOMAIN timers
    /\ t \in alive \ pending =>
         /\ t \in DOMAIN timers /\ t \in active /\ t \notin destroy
         /\ repeat[t] = timers[t] /\ repeat[t] # 0
    /\ t \in pending /\ t \notin DOMAIN timers => t \in destroy /\ t \notin active
    /\ t \in pending /\ t \in DOMAIN timers =>
         /\ t \in active /\ (repeat[t] = 0 <=> t \in destroy)
         /\ IF phase = "callback" /\ cur = t
              THEN timers[t] = repeat[t]
              ELSE timers[t] # 0 /\ Less(timers[t]) = repeat[t]

Matching == phase # "wild" => \A t \in Timers \ tainted : Match(t)

IInv ==
    /\ Types /\ Flags /\ Positive /\ Deleted /\ Listed
    /\ CountersExact /\ Safe /\ Matching

LEMMA InitIInv == Init => IInv
<1> SUFFICES ASSUME Init PROVE IInv
  OBVIOUS
<1>1. Types
  BY DEF Init, Types
<1>2. Flags /\ Positive /\ Deleted /\ Listed /\ Safe
  BY DEF Init, Flags, Positive, Deleted, Listed, Safe, Distinct, Elems
<1>3. CountersExact
  BY FS_EmptySet DEF Init, CountersExact
<1>4. Matching
  BY DEF Init, Matching, Match
<1> QED
  BY <1>1, <1>2, <1>3, <1>4 DEF IInv

LEMMA FiniteParts ==
    ASSUME NEW S, S \subseteq Events
    PROVE  IsFiniteSet(S)
<1>1. IsFiniteSet(Events)
  BY TimersAssumption, FS_Union DEF Events
<1> QED
  BY <1>1, FS_Subset

\* A set of events with an element more, or one less.
LEMMA Count ==
    ASSUME NEW S, S \subseteq Events, NEW e
    PROVE  /\ Cardinality(S) \in Nat
           /\ Cardinality(S \cup {e}) = IF e \in S THEN Cardinality(S) ELSE Cardinality(S) + 1
           /\ Cardinality(S \ {e}) = IF e \in S THEN Cardinality(S) - 1 ELSE Cardinality(S)
<1>1. IsFiniteSet(S)
  BY FiniteParts
<1> QED
  BY <1>1, FS_CardinalityType, FS_AddElement, FS_RemoveElement

LEMMA Pop ==
    ASSUME NEW s \in Seq(Events), s # <<>>, Distinct(s)
    PROVE  /\ Tail(s) \in Seq(Events) /\ Head(s) \in Events /\ Distinct(Tail(s))
           /\ Elems(Tail(s)) = Elems(s) \ {Head(s)}
<1>1. /\ Tail(s) \in Seq(Events) /\ Len(Tail(s)) = Len(s) - 1
      /\ Len(s) \in Nat \ {0} /\ Head(s) = s[1] /\ s[1] \in Events
      /\ \A k \in 1..Len(Tail(s)) : Tail(s)[k] = s[k + 1]
  OBVIOUS
<1>2. Distinct(Tail(s))
  BY <1>1 DEF Distinct
<1>3. ASSUME NEW e \in Elems(Tail(s)) PROVE e \in Elems(s) \ {Head(s)}
  <2>1. PICK k \in 1..Len(Tail(s)) : e = s[k + 1]
    BY <1>1 DEF Elems
  <2>2. k + 1 \in 1..Len(s) /\ k + 1 # 1 /\ 1 \in 1..Len(s)
    BY <1>1
  <2> QED
    BY <1>1, <2>1, <2>2 DEF Elems, Distinct
<1>4. ASSUME NEW e \in Elems(s), e # Head(s) PROVE e \in Elems(Tail(s))
  <2>1. PICK k \in 1..Len(s) : e = s[k]
    BY DEF Elems
  <2>2. k - 1 \in 1..Len(Tail(s)) /\ (k - 1) + 1 = k
    BY <1>1, <1>4, <2>1
  <2> QED
    BY <1>1, <2>1, <2>2 DEF Elems
<1> QED
  BY <1>1, <1>2, <1>3, <1>4

LEMMA Push ==
    ASSUME NEW s \in Seq(Events), NEW e \in Events, Distinct(s), e \notin Elems(s)
    PROVE  /\ <<e>> \o s \in Seq(Events) /\ Distinct(<<e>> \o s)
           /\ Elems(<<e>> \o s) = Elems(s) \cup {e}
<1> DEFINE p == <<e>> \o s
<1>1. /\ p \in Seq(Events) /\ Len(p) = Len(s) + 1 /\ Len(s) \in Nat /\ p[1] = e
      /\ \A k \in 2..Len(p) : p[k] = s[k - 1] /\ k - 1 \in 1..Len(s)
  OBVIOUS
<1> HIDE DEF p
<1>2. Distinct(p)
  <2>1. \A k \in 2..Len(p) : p[k] \in Elems(s) /\ p[k] # e
    BY <1>1 DEF Elems
  <2>2. \A j, k \in 2..Len(p) : p[j] = p[k] => j = k
    BY <1>1 DEF Distinct
  <2>3. \A k \in 1..Len(p) : k = 1 \/ k \in 2..Len(p)
    BY <1>1
  <2> QED
    BY <1>1, <2>1, <2>2, <2>3 DEF Distinct
<1>3. ASSUME NEW x \in Elems(p) PROVE x \in Elems(s) \cup {e}
  <2>1. PICK k \in 1..Len(p) : x = p[k]
    BY DEF Elems
  <2>2. CASE k = 1
    BY <1>1, <2>1, <2>2
  <2>3. CASE k # 1
    <3>1. k \in 2..Len(p)
      BY <1>1, <2>3
    <3>2. x = s[k - 1] /\ k - 1 \in 1..Len(s)
      BY <1>1, <2>1, <3>1
    <3> QED
      BY <3>2 DEF Elems
  <2> QED
    BY <2>2, <2>3
<1>4. ASSUME NEW x \in Elems(s) PROVE x \in Elems(p)
  <2>1. PICK k \in 1..Len(s) : x = s[k]
    BY DEF Elems
  <2>2. k + 1 \in 2..Len(p) /\ (k + 1) - 1 = k /\ k + 1 \in 1..Len(p)
    BY <1>1
  <2> QED
    BY <1>1, <2>1, <2>2 DEF Elems
<1>5. e \in Elems(p)
  BY <1>1 DEF Elems
<1> QED
  BY <1>1, <1>2, <1>3, <1>4, <1>5 DEF p

LEMMA WildStep ==
    ASSUME IInv, Wild
    PROVE  IInv'
<1> USE DEF IInv, Events
<1>1. Types'
  BY TimersAssumption DEF Types, Flags, Positive, Wild, history, counters, Less
<1>2. Flags'
  BY TimersAssumption DEF Flags, Types, Wild, history, counters
<1>3. Positive'
  BY TimersAssumption DEF Positive, Types, Flags, Listed, Wild, history, counters, Less
<1>4. Deleted'
  BY TimersAssumption DEF Deleted, Types, Flags, Wild, history, counters
<1>5. Listed'
  BY TimersAssumption DEF Listed, Types, Flags, Wild, history, counters
<1>6. CountersExact'
  BY TimersAssumption DEF CountersExact, Types, Flags, Wild, history, counters
<1>7. Safe'
  BY TimersAssumption DEF Safe, Types, Flags, Listed, Wild, history, counters
<1>8. Matching'
  BY TimersAssumption DEF Matching, Types, Flags, Deleted, Listed, Match, Wild, history, counters, Less
<1> QED
  BY <1>1, <1>2, <1>3, <1>4, <1>5, <1>6, <1>7, <1>8

LEMMA UndefinedStep ==
    ASSUME IInv, UNCHANGED vars
    PROVE  IInv'
<1> USE DEF IInv, Events
<1>1. Types'
  BY TimersAssumption DEF Types, Flags, Positive, vars, history, counters, Less
<1>2. Flags'
  BY TimersAssumption DEF Flags, Types, vars, history, counters
<1>3. Positive'
  BY TimersAssumption DEF Positive, Types, Flags, Listed, vars, history, counters, Less
<1>4. Deleted'
  BY TimersAssumption DEF Deleted, Types, Flags, vars, history, counters
<1>5. Listed'
  BY TimersAssumption DEF Listed, Types, Flags, vars, history, counters
<1>6. CountersExact'
  BY TimersAssumption DEF CountersExact, Types, Flags, vars, history, counters
<1>7. Safe'
  BY TimersAssumption DEF Safe, Types, Flags, Listed, vars, history, counters
<1>8. Matching'
  BY TimersAssumption DEF Matching, Types, Flags, Deleted, Listed, Match, vars, history, counters, Less
<1> QED
  BY <1>1, <1>2, <1>3, <1>4, <1>5, <1>6, <1>7, <1>8

LEMMA PollStep ==
    ASSUME IInv, Poll
    PROVE  IInv'
<1> USE DEF IInv, Events
<1>1. Types'
  BY TimersAssumption DEF Types, Flags, Positive, Poll, Go, history, counters, Less
<1>2. Flags'
  BY TimersAssumption DEF Flags, Types, Poll, Go, history, counters
<1>3. Positive'
  BY TimersAssumption DEF Positive, Types, Flags, Listed, Poll, Go, history, counters, Less
<1>4. Deleted'
  BY TimersAssumption DEF Deleted, Types, Flags, Poll, Go, history, counters
<1>5. Listed'
  <2>1. <<>> \in Seq(Events) /\ Elems(<<>>) = {} /\ Distinct(<<>>)
    BY DEF Elems, Distinct
  <2> QED
    BY <2>1 DEF Listed, Poll, Go, history
<1>6. CountersExact'
  BY TimersAssumption DEF CountersExact, Types, Flags, Poll, Go, history, counters
<1>7. Safe'
  BY TimersAssumption DEF Safe, Types, Flags, Listed, Poll, Go, history, counters
<1>8. Matching'
  BY TimersAssumption DEF Matching, Types, Flags, Deleted, Listed, Match, Poll, Go, history, counters, Less
<1> QED
  BY <1>1, <1>2, <1>3, <1>4, <1>5, <1>6, <1>7, <1>8

LEMMA TimersDoneStep ==
    ASSUME IInv, TimersDone
    PROVE  IInv'
<1> USE DEF IInv, Events
<1>1. Types'
  BY TimersAssumption DEF Types, Flags, Positive, TimersDone, Go, history, counters, Less
<1>2. Flags'
  BY TimersAssumption DEF Flags, Types, TimersDone, Go, history, counters
<1>3. Positive'
  BY TimersAssumption DEF Positive, Types, Flags, Listed, TimersDone, Go, history, counters, Less
<1>4. Deleted'
  BY TimersAssumption DEF Deleted, Types, Flags, TimersDone, Go, history, counters
<1>5. Listed'
  BY TimersAssumption DEF Listed, Types, Flags, TimersDone, Go, history, counters
<1>6. CountersExact'
  BY TimersAssumption DEF CountersExact, Types, Flags, TimersDone, Go, history, counters
<1>7. Safe'
  BY TimersAssumption DEF Safe, Types, Flags, Listed, TimersDone, Go, history, counters
<1>8. Matching'
  BY TimersAssumption DEF Matching, Types, Flags, Deleted, Listed, Match, TimersDone, Go, history, counters, Less
<1> QED
  BY <1>1, <1>2, <1>3, <1>4, <1>5, <1>6, <1>7, <1>8

LEMMA IdlesDoneStep ==
    ASSUME IInv, IdlesDone
    PROVE  IInv'
<1> USE DEF IInv, Events
<1>1. Types'
  BY TimersAssumption DEF Types, Flags, Positive, IdlesDone, Go, history, counters, Less
<1>2. Flags'
  BY TimersAssumption DEF Flags, Types, IdlesDone, Go, history, counters
<1>3. Positive'
  BY TimersAssumption DEF Positive, Types, Flags, Listed, IdlesDone, Go, history, counters, Less
<1>4. Deleted'
  BY TimersAssumption DEF Deleted, Types, Flags, IdlesDone, Go, history, counters
<1>5. Listed'
  BY TimersAssumption DEF Listed, Types, Flags, IdlesDone, Go, history, counters
<1>6. CountersExact'
  BY TimersAssumption DEF CountersExact, Types, Flags, IdlesDone, Go, history, counters
<1>7. Safe'
  BY TimersAssumption DEF Safe, Types, Flags, Listed, IdlesDone, Go, history, counters
<1>8. Matching'
  BY TimersAssumption DEF Matching, Types, Flags, Deleted, Listed, Match, IdlesDone, Go, history, counters, Less
<1> QED
  BY <1>1, <1>2, <1>3, <1>4, <1>5, <1>6, <1>7, <1>8

LEMMA WalkDoneStep ==
    ASSUME IInv, WalkDone
    PROVE  IInv'
<1> USE DEF IInv, Events
<1>1. Types'
  BY TimersAssumption DEF Types, Flags, Positive, WalkDone, Go, history, counters, Less
<1>2. Flags'
  BY TimersAssumption DEF Flags, Types, WalkDone, Go, history, counters
<1>3. Positive'
  BY TimersAssumption DEF Positive, Types, Flags, Listed, WalkDone, Go, history, counters, Less
<1>4. Deleted'
  BY TimersAssumption DEF Deleted, Types, Flags, WalkDone, Go, history, counters
<1>5. Listed'
  BY TimersAssumption DEF Listed, Types, Flags, WalkDone, Go, history, counters
<1>6. CountersExact'
  BY TimersAssumption DEF CountersExact, Types, Flags, WalkDone, Go, history, counters
<1>7. Safe'
  BY TimersAssumption DEF Safe, Types, Flags, Listed, WalkDone, Go, history, counters
<1>8. Matching'
  BY TimersAssumption DEF Matching, Types, Flags, Deleted, Listed, Match, WalkDone, Go, history, counters, Less
<1> QED
  BY <1>1, <1>2, <1>3, <1>4, <1>5, <1>6, <1>7, <1>8

LEMMA SkipResetStep ==
    ASSUME IInv, SkipReset, ~Wild
    PROVE  IInv'
<1> USE DEF IInv, Events
<1>0. /\ Tail(pendings) \in Seq(Events) /\ Head(pendings) \in Events
      /\ Distinct(Tail(pendings))
      /\ Elems(Tail(pendings)) = Elems(pendings) \ {Head(pendings)}
  BY Pop DEF Types, Listed, SkipReset
<1>1. Types'
  BY TimersAssumption, <1>0 DEF Types, Flags, Positive, SkipReset, history, counters, Less
<1>2. Flags'
  BY TimersAssumption, <1>0 DEF Flags, Types, SkipReset, history, counters
<1>3. Positive'
  BY TimersAssumption, <1>0 DEF Positive, Types, Flags, Listed, SkipReset, history, counters, Less
<1>4. Deleted'
  BY TimersAssumption, <1>0 DEF Deleted, Types, Flags, SkipReset, history, counters
<1>5. Listed'
  BY TimersAssumption, <1>0 DEF Listed, Types, Flags, SkipReset, history, counters
<1>6. CountersExact'
  BY TimersAssumption, <1>0 DEF CountersExact, Types, Flags, SkipReset, history, counters
<1>7. Safe'
  BY TimersAssumption, <1>0 DEF Safe, Types, Flags, Listed, SkipReset, history, counters
<1>8. Matching'
  BY TimersAssumption, <1>0 DEF Matching, Types, Flags, Deleted, Listed, Match, SkipReset, history, counters, Less
<1> QED
  BY <1>1, <1>2, <1>3, <1>4, <1>5, <1>6, <1>7, <1>8

LEMMA StartCallbackStep ==
    ASSUME IInv, StartCallback
    PROVE  IInv'
<1> USE DEF IInv, Events
<1>1. Types'
  BY TimersAssumption DEF Types, Flags, Positive, StartCallback, CallsBack, history, counters, Less
<1>2. Flags'
  BY TimersAssumption DEF Flags, Types, StartCallback, CallsBack, history, counters
<1>3. Positive'
  <2> DEFINE e == Head(pendings)
  <2>1. /\ phase = "walk" /\ phase' = "callback" /\ cur' = e
        /\ linked' = linked /\ repeat' = repeat
    BY DEF StartCallback
  <2>2. timers' = IF e \in DOMAIN timers THEN [timers EXCEPT ![e] = Less(@)] ELSE timers
    BY DEF StartCallback
  <2>3. \A x \in DOMAIN timers' : x # e => x \in DOMAIN timers /\ timers'[x] = timers[x]
    BY <2>2
  <2>4. \A x \in DOMAIN timers : timers[x] # 0
    BY <2>1 DEF Positive
  <2>5. \A x \in DOMAIN timers' : timers'[x] # 0 \/ cur' = x
    BY <2>1, <2>3, <2>4
  <2> QED
    BY <2>1, <2>5 DEF Positive
<1>4. Deleted'
  BY TimersAssumption DEF Deleted, Types, Flags, StartCallback, CallsBack, history, counters
<1>5. Listed'
  BY TimersAssumption DEF Listed, Types, Flags, StartCallback, CallsBack, history, counters
<1>6. CountersExact'
  BY TimersAssumption DEF CountersExact, Types, Flags, StartCallback, CallsBack, history, counters
<1>7. Safe'
  BY TimersAssumption DEF Safe, Types, Flags, Listed, StartCallback, CallsBack, history, counters
<1>8. Matching'
  BY TimersAssumption DEF Matching, Types, Flags, Deleted, Listed, Match, StartCallback, CallsBack, history, counters, Less
<1> QED
  BY <1>1, <1>2, <1>3, <1>4, <1>5, <1>6, <1>7, <1>8

LEMMA setTimerStep ==
    ASSUME IInv, NEW t \in Timers, setTimer(t)
    PROVE  IInv'
<1> USE DEF IInv, Events
<1>1. Types'
  BY TimersAssumption DEF Types, Flags, Positive, setTimer, Made, history, counters, Less
<1>2. Flags'
  BY TimersAssumption DEF Flags, Types, setTimer, Made, history, counters
<1>3. Positive'
  <2>1. PICK n \in Repeats : Made(t, n) /\ timers' = [x \in DOMAIN timers \cup {t} |->
                                                    IF x = t THEN n ELSE timers[x]]
    BY DEF setTimer
  <2>2. n # 0
    BY TimersAssumption
  <2>3. repeat' = [repeat EXCEPT ![t] = n] /\ linked' = linked \cup {t} /\ linked \subseteq Events
    BY <2>1 DEF Made, Types
  <2>4. \A x \in linked' : repeat'[x] # 0
    BY <2>2, <2>3 DEF Positive, Types
  <2>5. \A x \in DOMAIN timers' : timers'[x] = IF x = t THEN n ELSE timers[x]
    BY <2>1
  <2>6. phase' = phase /\ cur' = cur
    BY DEF setTimer
  <2>7. \A x \in DOMAIN timers' : x # t => x \in DOMAIN timers
    BY <2>1
  <2> QED
    BY <2>2, <2>4, <2>5, <2>6, <2>7 DEF Positive
<1>4. Deleted'
  BY TimersAssumption DEF Deleted, Types, Flags, setTimer, Made, history, counters
<1>5. Listed'
  BY TimersAssumption DEF Listed, Types, Flags, setTimer, Made, history, counters
<1>6. CountersExact'
  <2> DEFINE L == linked \cap Timers
  <2>1. ntimers = Cardinality(L) /\ nactives = Cardinality(active)
    BY DEF CountersExact
  <2>2. L \subseteq Events /\ active \subseteq Events
    BY DEF Types
  <2>3. t \in Events /\ t \in Timers /\ t \notin L /\ t \notin active
    BY TimersAssumption DEF Flags, Types, setTimer, Made
  <2>4. L' = L \cup {t} /\ active' = active \cup {t}
    BY <2>3 DEF setTimer, Made
  <2>5. Cardinality(L \cup {t}) = Cardinality(L) + 1
    BY <2>2, <2>3, Count
  <2>6. Cardinality(active \cup {t}) = Cardinality(active) + 1
    BY <2>2, <2>3, Count
  <2>7. ntimers' = Cardinality(L') /\ nactives' = Cardinality(active')
    BY <2>1, <2>2, <2>3, <2>4, <2>5, <2>6, Count DEF setTimer, Made
  <2> QED
    BY <2>7 DEF CountersExact
<1>7. Safe'
  BY TimersAssumption DEF Safe, Types, Flags, Listed, setTimer, Made, history, counters
<1>8. Matching'
  BY TimersAssumption DEF Matching, Types, Flags, Deleted, Listed, Match, setTimer, Made, history, counters, Less
<1> QED
  BY <1>1, <1>2, <1>3, <1>4, <1>5, <1>6, <1>7, <1>8

LEMMA hidle_addStep ==
    ASSUME IInv, NEW i \in Idles, hidle_add(i)
    PROVE  IInv'
<1> USE DEF IInv, Events
<1>1. Types'
  BY TimersAssumption DEF Types, Flags, Positive, hidle_add, Made, history, counters, Less
<1>2. Flags'
  BY TimersAssumption DEF Flags, Types, hidle_add, Made, history, counters
<1>3. Positive'
  BY TimersAssumption DEF Positive, Types, Flags, Listed, hidle_add, Made, history, counters, Less
<1>4. Deleted'
  BY TimersAssumption DEF Deleted, Types, Flags, hidle_add, Made, history, counters
<1>5. Listed'
  BY TimersAssumption DEF Listed, Types, Flags, hidle_add, Made, history, counters
<1>6. CountersExact'
  <2> DEFINE L == linked \cap Timers
  <2>1. ntimers = Cardinality(L) /\ nactives = Cardinality(active)
    BY DEF CountersExact
  <2>2. L \subseteq Events /\ active \subseteq Events
    BY DEF Types
  <2>3. i \in Events /\ i \notin Timers /\ i \notin active
    BY TimersAssumption DEF Flags, Types, hidle_add, Made
  <2>4. L' = L /\ active' = active \cup {i}
    BY <2>3 DEF hidle_add, Made
  <2>5. Cardinality(L) \in Nat
    BY <2>2, <2>3, Count
  <2>6. Cardinality(active \cup {i}) = Cardinality(active) + 1
    BY <2>2, <2>3, Count
  <2>7. ntimers' = Cardinality(L') /\ nactives' = Cardinality(active')
    BY <2>1, <2>2, <2>3, <2>4, <2>5, <2>6, Count DEF hidle_add, Made
  <2> QED
    BY <2>7 DEF CountersExact
<1>7. Safe'
  BY TimersAssumption DEF Safe, Types, Flags, Listed, hidle_add, Made, history, counters
<1>8. Matching'
  BY TimersAssumption DEF Matching, Types, Flags, Deleted, Listed, Match, hidle_add, Made, history, counters, Less
<1> QED
  BY <1>1, <1>2, <1>3, <1>4, <1>5, <1>6, <1>7, <1>8

LEMMA killTimerStep ==
    ASSUME IInv, NEW t \in Timers, killTimer(t), ~Wild
    PROVE  IInv'
<1> USE DEF IInv, Events
<1>1. Types'
  BY TimersAssumption DEF Types, Flags, Positive, killTimer, Delete, Drop, One, history, counters, Less
<1>2. Flags'
  BY TimersAssumption DEF Flags, Types, killTimer, Delete, Drop, One, history, counters
<1>3. Positive'
  BY TimersAssumption DEF Positive, Types, Flags, Listed, killTimer, Delete, Drop, One, history, counters, Less
<1>4. Deleted'
  BY TimersAssumption DEF Deleted, Types, Flags, killTimer, Delete, Drop, One, history, counters
<1>5. Listed'
  BY TimersAssumption DEF Listed, Types, Flags, killTimer, Delete, Drop, One, history, counters
<1>6. CountersExact'
  <2> DEFINE L == linked \cap Timers
  <2>1. ntimers = Cardinality(L) /\ nactives = Cardinality(active)
    BY DEF CountersExact
  <2>2. L \subseteq Events /\ active \subseteq Events
    BY DEF Types
  <2>3. Delete(t)
    BY DEF killTimer, Wild
  <2>4. CASE t \notin active
    <3>1. UNCHANGED <<ntimers, nactives, linked, active>>
      BY <2>3, <2>4 DEF Delete, counters
    <3> QED
      BY <3>1 DEF CountersExact
  <2>5. CASE t \in active
    <3>1. t \in alive /\ (t \in L <=> t \in Timers /\ t \notin destroy)
      BY <2>5 DEF Flags
    <3>2. L' = L \ {t} /\ active' = active \ {t}
      BY <2>3, <2>5 DEF Delete
    <3>3. Cardinality(active \ {t}) = Cardinality(active) - 1
      BY <2>2, <2>5, Count
    <3>4. Cardinality(L \ {t}) = IF t \in L THEN Cardinality(L) - 1 ELSE Cardinality(L)
      BY <2>2, Count
    <3>5. Cardinality(L) \in Nat /\ Cardinality(active) \in Nat
      BY <2>2, Count
    <3>6. nactives' = nactives - 1
      BY <2>3, <2>5 DEF Delete
    <3>7. ntimers' = ntimers - One(t \in Timers /\ t \notin destroy)
      BY <2>3, <2>5 DEF Delete
    <3>8. ntimers' = Cardinality(L')
      <4>1. CASE t \in L
        <5>1. One(t \in Timers /\ t \notin destroy) = 1
          BY <3>1, <4>1 DEF One
        <5> QED
          BY <2>1, <3>2, <3>4, <3>7, <4>1, <5>1
      <4>2. CASE t \notin L
        <5>1. One(t \in Timers /\ t \notin destroy) = 0
          BY <3>1, <4>2 DEF One
        <5> QED
          BY <2>1, <3>2, <3>4, <3>5, <3>7, <4>2, <5>1
      <4> QED
        BY <4>1, <4>2
    <3> QED
      BY <2>1, <3>2, <3>3, <3>6, <3>8 DEF CountersExact
  <2> QED
    BY <2>4, <2>5
<1>7. Safe'
  BY TimersAssumption DEF Safe, Types, Flags, Listed, killTimer, Delete, Drop, One, history, counters
<1>8. Matching'
  BY TimersAssumption DEF Matching, Types, Flags, Deleted, Listed, Match, killTimer, Delete, Drop, One, history, counters, Less
<1> QED
  BY <1>1, <1>2, <1>3, <1>4, <1>5, <1>6, <1>7, <1>8

LEMMA hidle_delStep ==
    ASSUME IInv, NEW i \in Idles, hidle_del(i)
    PROVE  IInv'
<1> USE DEF IInv, Events
<1>1. Types'
  BY TimersAssumption DEF Types, Flags, Positive, hidle_del, Delete, One, history, counters, Less
<1>2. Flags'
  BY TimersAssumption DEF Flags, Types, hidle_del, Delete, One, history, counters
<1>3. Positive'
  BY TimersAssumption DEF Positive, Types, Flags, Listed, hidle_del, Delete, One, history, counters, Less
<1>4. Deleted'
  BY TimersAssumption DEF Deleted, Types, Flags, hidle_del, Delete, One, history, counters
<1>5. Listed'
  BY TimersAssumption DEF Listed, Types, Flags, hidle_del, Delete, One, history, counters
<1>6. CountersExact'
  <2> DEFINE L == linked \cap Timers
  <2>1. ntimers = Cardinality(L) /\ nactives = Cardinality(active)
    BY DEF CountersExact
  <2>2. L \subseteq Events /\ active \subseteq Events
    BY DEF Types
  <2>3. Delete(i)
    BY DEF hidle_del, Wild
  <2>4. CASE i \notin active
    <3>1. UNCHANGED <<ntimers, nactives, linked, active>>
      BY <2>3, <2>4 DEF Delete, counters
    <3> QED
      BY <3>1 DEF CountersExact
  <2>5. CASE i \in active
    <3>1. i \in alive /\ (i \in L <=> i \in Timers /\ i \notin destroy)
      BY <2>5 DEF Flags
    <3>2. L' = L \ {i} /\ active' = active \ {i}
      BY <2>3, <2>5 DEF Delete
    <3>3. Cardinality(active \ {i}) = Cardinality(active) - 1
      BY <2>2, <2>5, Count
    <3>4. Cardinality(L \ {i}) = IF i \in L THEN Cardinality(L) - 1 ELSE Cardinality(L)
      BY <2>2, Count
    <3>5. Cardinality(L) \in Nat /\ Cardinality(active) \in Nat
      BY <2>2, Count
    <3>6. nactives' = nactives - 1
      BY <2>3, <2>5 DEF Delete
    <3>7. ntimers' = ntimers - One(i \in Timers /\ i \notin destroy)
      BY <2>3, <2>5 DEF Delete
    <3>8. ntimers' = Cardinality(L')
      <4>1. CASE i \in L
        <5>1. One(i \in Timers /\ i \notin destroy) = 1
          BY <3>1, <4>1 DEF One
        <5> QED
          BY <2>1, <3>2, <3>4, <3>7, <4>1, <5>1
      <4>2. CASE i \notin L
        <5>1. One(i \in Timers /\ i \notin destroy) = 0
          BY <3>1, <4>2 DEF One
        <5> QED
          BY <2>1, <3>2, <3>4, <3>5, <3>7, <4>2, <5>1
      <4> QED
        BY <4>1, <4>2
    <3> QED
      BY <2>1, <3>2, <3>3, <3>6, <3>8 DEF CountersExact
  <2> QED
    BY <2>4, <2>5
<1>7. Safe'
  BY TimersAssumption DEF Safe, Types, Flags, Listed, hidle_del, Delete, One, history, counters
<1>8. Matching'
  BY TimersAssumption DEF Matching, Types, Flags, Deleted, Listed, Match, hidle_del, Delete, One, history, counters, Less
<1> QED
  BY <1>1, <1>2, <1>3, <1>4, <1>5, <1>6, <1>7, <1>8

LEMMA resetTimerStep ==
    ASSUME IInv, NEW t \in Timers, resetTimer(t), ~Wild
    PROVE  IInv'
<1> USE DEF IInv, Events
<1>1. Types'
  BY TimersAssumption DEF Types, Flags, Positive, resetTimer, Counted, One, history, counters, Less
<1>2. Flags'
  BY TimersAssumption DEF Flags, Types, resetTimer, Counted, One, history, counters
<1>3. Positive'
  BY TimersAssumption DEF Positive, Types, Flags, Listed, resetTimer, Counted, One, history, counters, Less
<1>4. Deleted'
  BY TimersAssumption DEF Deleted, Types, Flags, resetTimer, Counted, One, history, counters
<1>5. Listed'
  BY TimersAssumption DEF Listed, Types, Flags, resetTimer, Counted, One, history, counters
<1>6. CountersExact'
  <2> DEFINE L == linked \cap Timers
  <2>1. ntimers = Cardinality(L) /\ nactives = Cardinality(active)
    BY DEF CountersExact
  <2>2. L \subseteq Events /\ active \subseteq Events
    BY DEF Types
  <2>3. t \in Events /\ t \in alive /\ (t \in L <=> t \notin destroy)
    BY TimersAssumption DEF Flags, Types, resetTimer, Wild, Counted, One
  <2>4. L' = L \cup {t} /\ active' = active \cup {t}
    BY <2>3 DEF resetTimer, Wild, Counted, One
  <2>5. Cardinality(L \cup {t}) = IF t \in L THEN Cardinality(L) ELSE Cardinality(L) + 1
    BY <2>2, <2>3, Count
  <2>6. Cardinality(active \cup {t}) = IF t \in active THEN Cardinality(active) ELSE Cardinality(active) + 1
    BY <2>2, <2>3, Count
  <2>7. ntimers' = Cardinality(L') /\ nactives' = Cardinality(active')
    <3>1. /\ ntimers' = ntimers + One(t \in destroy)
          /\ nactives' = nactives + One(t \notin active)
      BY DEF resetTimer, Counted, Wild
    <3>2. Cardinality(L) \in Nat /\ Cardinality(active) \in Nat
      BY <2>2, Count
    <3>3. One(t \in destroy) = IF t \in L THEN 0 ELSE 1
      BY <2>3 DEF One
    <3>4. One(t \notin active) = IF t \in active THEN 0 ELSE 1
      BY DEF One
    <3>5. ntimers' = Cardinality(L')
      BY <2>1, <2>4, <2>5, <3>1, <3>2, <3>3
    <3>6. nactives' = Cardinality(active')
      BY <2>1, <2>4, <2>6, <3>1, <3>2, <3>4
    <3> QED
      BY <3>5, <3>6
  <2> QED
    BY <2>7 DEF CountersExact
<1>7. Safe'
  BY TimersAssumption DEF Safe, Types, Flags, Listed, resetTimer, Counted, One, history, counters
<1>8. Matching'
  BY TimersAssumption DEF Matching, Types, Flags, Deleted, Listed, Match, resetTimer, Counted, One, history, counters, Less
<1> QED
  BY <1>1, <1>2, <1>3, <1>4, <1>5, <1>6, <1>7, <1>8

LEMMA ExpireStep ==
    ASSUME IInv, NEW e \in Events, Expire(e)
    PROVE  IInv'
<1> USE DEF IInv, Events
<1>0. /\ <<e>> \o pendings \in Seq(Events) /\ Distinct(<<e>> \o pendings)
      /\ Elems(<<e>> \o pendings) = Elems(pendings) \cup {e}
  BY Push DEF Types, Listed, Expire
<1>1. Types'
  BY TimersAssumption, <1>0 DEF Types, Flags, Positive, Expire, LastOne, One, Less, history, counters
<1>2. Flags'
  BY TimersAssumption, <1>0 DEF Flags, Types, Expire, LastOne, One, Less, history, counters
<1>3. Positive'
  BY TimersAssumption, <1>0 DEF Positive, Types, Flags, Listed, Expire, LastOne, One, Less, history, counters
<1>4. Deleted'
  BY TimersAssumption, <1>0 DEF Deleted, Types, Flags, Expire, LastOne, One, Less, history, counters
<1>5. Listed'
  BY TimersAssumption, <1>0 DEF Listed, Types, Flags, Expire, LastOne, One, Less, history, counters
<1>6. CountersExact'
  <2> DEFINE L == linked \cap Timers
  <2>1. ntimers = Cardinality(L) /\ nactives = Cardinality(active)
    BY DEF CountersExact
  <2>2. L \subseteq Events /\ active \subseteq Events
    BY DEF Types
  <2>3. e \in linked /\ active' = active /\ nactives' = nactives
    BY DEF Expire
  <2>4. ntimers' = ntimers - One(LastOne(e) /\ e \in Timers)
    BY DEF Expire
  <2>5. Cardinality(L) \in Nat
        /\ Cardinality(L \ {e}) = IF e \in L THEN Cardinality(L) - 1 ELSE Cardinality(L)
    BY <2>2, Count
  <2>6. CASE LastOne(e)
    <3>1. L' = L \ {e}
      BY <2>6 DEF Expire
    <3> QED
      <4>1. CASE e \in L
        <5>1. One(LastOne(e) /\ e \in Timers) = 1
          BY <2>6, <4>1 DEF One
        <5> QED
          BY <2>1, <2>3, <2>4, <2>5, <3>1, <4>1, <5>1 DEF CountersExact
      <4>2. CASE e \notin L
        <5>1. One(LastOne(e) /\ e \in Timers) = 0
          BY <2>3, <4>2 DEF One
        <5>2. ntimers' = ntimers /\ L' = L
          BY <2>1, <2>4, <2>5, <3>1, <4>2, <5>1
        <5> QED
          BY <2>1, <2>3, <5>2 DEF CountersExact
      <4> QED
        BY <4>1, <4>2
  <2>7. CASE ~LastOne(e)
    <3>1. L' = L
      BY <2>7 DEF Expire
    <3> QED
      BY <2>1, <2>3, <2>4, <2>5, <2>7, <3>1 DEF CountersExact, One
  <2> QED
    BY <2>6, <2>7
<1>7. Safe'
  BY TimersAssumption, <1>0 DEF Safe, Types, Flags, Listed, Expire, LastOne, One, Less, history, counters
<1>8. Matching'
  BY TimersAssumption, <1>0 DEF Matching, Types, Flags, Deleted, Listed, Match, Expire, LastOne, One, Less, history, counters
<1> QED
  BY <1>1, <1>2, <1>3, <1>4, <1>5, <1>6, <1>7, <1>8

LEMMA EndCallbackStep ==
    ASSUME IInv, EndCallback, ~Wild
    PROVE  IInv'
<1> USE DEF IInv, Events
<1>0. /\ Tail(pendings) \in Seq(Events) /\ Head(pendings) \in Events
      /\ Distinct(Tail(pendings))
      /\ Elems(Tail(pendings)) = Elems(pendings) \ {Head(pendings)}
  BY Pop DEF Types, Listed, EndCallback
<1>1. Types'
  <2>1. Passed(cur) /\ timers' = Erased(cur)
    BY DEF EndCallback
  <2>2. DOMAIN timers' \subseteq Timers
    BY <2>1 DEF Erased, Drop, Types
  <2>3. timers' \in [DOMAIN timers' -> Nat \cup {INFINITE}]
    BY <2>1 DEF Erased, Drop, Types
  <2>4. nactives' \in Int
    BY <2>1 DEF Passed, Types, One
  <2>5. cur' = None /\ pendings' \in Seq(Events)
    BY <1>0, <2>1 DEF Passed
  <2> QED
    BY <2>1, <2>2, <2>3, <2>4, <2>5 DEF Passed, Types, history
<1>2. Flags'
  BY TimersAssumption, <1>0 DEF Flags, Types, EndCallback, Passed, Erased, Drop, One, history, counters
<1>3. Positive'
  <2>1. /\ phase = "callback" /\ phase' = "walk" /\ linked' = linked /\ repeat' = repeat
        /\ timers' = Erased(cur)
    BY DEF EndCallback, Passed
  <2>2. \A x \in DOMAIN timers' : x \in DOMAIN timers /\ timers'[x] = timers[x]
    BY <2>1 DEF Erased, Drop
  <2>3. cur \in DOMAIN timers' => timers[cur] # 0
    BY <2>1 DEF Erased, Drop
  <2>4. \A x \in DOMAIN timers : timers[x] # 0 \/ cur = x
    BY <2>1 DEF Positive
  <2>5. \A x \in DOMAIN timers' : timers'[x] # 0
    BY <2>2, <2>3, <2>4
  <2> QED
    BY <2>1, <2>5 DEF Positive
<1>4. Deleted'
  BY TimersAssumption, <1>0 DEF Deleted, Types, Flags, EndCallback, Passed, Erased, Drop, One, history, counters
<1>5. Listed'
  BY TimersAssumption, <1>0 DEF Listed, Types, Flags, EndCallback, Passed, Erased, Drop, One, history, counters
<1>6. CountersExact'
  <2> DEFINE L == linked \cap Timers
  <2>1. ntimers = Cardinality(L) /\ nactives = Cardinality(active)
    BY DEF CountersExact
  <2>2. L \subseteq Events /\ active \subseteq Events
    BY DEF Types
  <2>3. Passed(cur)
    BY DEF EndCallback, Wild
  <2>4. ntimers' = ntimers /\ linked' = linked
    BY <2>3 DEF Passed
  <2>5. CASE cur \notin destroy
    <3>1. UNCHANGED <<active, nactives>>
      BY <2>3, <2>5 DEF Passed
    <3> QED
      BY <2>1, <2>4, <3>1 DEF CountersExact
  <2>6. CASE cur \in destroy
    <3>1. active' = active \ {cur} /\ nactives' = nactives - One(cur \in active)
      BY <2>3, <2>6 DEF Passed
    <3>2. Cardinality(active) \in Nat
          /\ Cardinality(active \ {cur})
               = IF cur \in active THEN Cardinality(active) - 1 ELSE Cardinality(active)
      BY <2>2, Count
    <3> QED
      BY <2>1, <2>4, <3>1, <3>2 DEF CountersExact, One
  <2> QED
    BY <2>5, <2>6
<1>7. Safe'
  BY TimersAssumption, <1>0 DEF Safe, Types, Flags, Listed, EndCallback, Passed, Erased, Drop, One, history, counters
<1>8. Matching'
  BY TimersAssumption, <1>0 DEF Matching, Types, Flags, Deleted, Listed, Match, EndCallback, Passed, Erased, Drop, One, history, counters, Less
<1> QED
  BY <1>1, <1>2, <1>3, <1>4, <1>5, <1>6, <1>7, <1>8

LEMMA SkipDeletedStep ==
    ASSUME IInv, SkipDeleted
    PROVE  IInv'
<1> USE DEF IInv, Events
<1>0. /\ Tail(pendings) \in Seq(Events) /\ Head(pendings) \in Events
      /\ Distinct(Tail(pendings))
      /\ Elems(Tail(pendings)) = Elems(pendings) \ {Head(pendings)}
  BY Pop DEF Types, Listed, SkipDeleted
<1>1. Types'
  BY TimersAssumption, <1>0 DEF Types, Flags, Positive, SkipDeleted, Passed, CallsBack, One, history, counters, Less
<1>2. Flags'
  BY TimersAssumption, <1>0 DEF Flags, Types, SkipDeleted, Passed, CallsBack, One, history, counters
<1>3. Positive'
  <2>1. UNCHANGED <<timers, linked, repeat>> /\ phase = "walk" /\ phase' = "walk"
    BY DEF SkipDeleted, Passed
  <2>2. \A t \in DOMAIN timers : timers[t] # 0
    BY <2>1 DEF Positive
  <2> QED
    BY <2>1, <2>2 DEF Positive
<1>4. Deleted'
  BY TimersAssumption, <1>0 DEF Deleted, Types, Flags, SkipDeleted, Passed, CallsBack, One, history, counters
<1>5. Listed'
  BY TimersAssumption, <1>0 DEF Listed, Types, Flags, SkipDeleted, Passed, CallsBack, One, history, counters
<1>6. CountersExact'
  <2> DEFINE L == linked \cap Timers
  <2>1. ntimers = Cardinality(L) /\ nactives = Cardinality(active)
    BY DEF CountersExact
  <2>2. L \subseteq Events /\ active \subseteq Events
    BY DEF Types
  <2>3. Passed(Head(pendings))
    BY DEF SkipDeleted, Wild
  <2>4. ntimers' = ntimers /\ linked' = linked
    BY <2>3 DEF Passed
  <2>5. CASE Head(pendings) \notin destroy
    <3>1. UNCHANGED <<active, nactives>>
      BY <2>3, <2>5 DEF Passed
    <3> QED
      BY <2>1, <2>4, <3>1 DEF CountersExact
  <2>6. CASE Head(pendings) \in destroy
    <3>1. active' = active \ {Head(pendings)} /\ nactives' = nactives - One(Head(pendings) \in active)
      BY <2>3, <2>6 DEF Passed
    <3>2. Cardinality(active) \in Nat
          /\ Cardinality(active \ {Head(pendings)})
               = IF Head(pendings) \in active THEN Cardinality(active) - 1 ELSE Cardinality(active)
      BY <2>2, Count
    <3> QED
      BY <2>1, <2>4, <3>1, <3>2 DEF CountersExact, One
  <2> QED
    BY <2>5, <2>6
<1>7. Safe'
  BY TimersAssumption, <1>0 DEF Safe, Types, Flags, Listed, SkipDeleted, Passed, CallsBack, One, history, counters
<1>8. Matching'
  BY TimersAssumption, <1>0 DEF Matching, Types, Flags, Deleted, Listed, Match, SkipDeleted, Passed, CallsBack, One, history, counters, Less
<1> QED
  BY <1>1, <1>2, <1>3, <1>4, <1>5, <1>6, <1>7, <1>8

LEMMA NextIInv == IInv /\ [Next]_vars => IInv'
<1> SUFFICES ASSUME IInv, [Next]_vars PROVE IInv'
  OBVIOUS
<1>1. CASE Wild
  BY <1>1, WildStep
<1>2. ASSUME ~Wild, NEW t \in Timers, setTimer(t) \/ killTimer(t) \/ resetTimer(t)
      PROVE  IInv'
  BY <1>2, setTimerStep, killTimerStep, resetTimerStep
<1>3. ASSUME NEW i \in Idles, hidle_add(i) \/ hidle_del(i)
      PROVE  IInv'
  BY <1>3, hidle_addStep, hidle_delStep
<1>4. ASSUME NEW e \in Events, Expire(e)
      PROVE  IInv'
  BY <1>4, ExpireStep
<1>5. CASE Poll \/ TimersDone \/ IdlesDone \/ WalkDone
  BY <1>5, PollStep, TimersDoneStep, IdlesDoneStep, WalkDoneStep
<1>6. CASE ~Wild /\ (SkipReset \/ StartCallback \/ EndCallback \/ SkipDeleted)
  BY <1>6, SkipResetStep, StartCallbackStep, EndCallbackStep, SkipDeletedStep
<1>7. CASE Undefined \/ UNCHANGED vars
  BY <1>7, UndefinedStep DEF Undefined
<1> QED
  BY <1>1, <1>2, <1>3, <1>4, <1>5, <1>6, <1>7 DEF Next

LEMMA AlwaysIInv == Spec => []IInv
  BY InitIInv, NextIInv, PTL DEF Spec

LEMMA Implied == IInv => TypeOK /\ EntriesMatch /\ WalkIsSafe
<1> SUFFICES ASSUME IInv PROVE TypeOK /\ EntriesMatch /\ WalkIsSafe
  OBVIOUS
<1> USE DEF IInv
<1>1. TypeOK
  <2>1. linked \cap Timers \subseteq Events /\ active \subseteq Events
    BY DEF Types
  <2>2. Cardinality(linked \cap Timers) \in Nat /\ Cardinality(active) \in Nat
    BY <2>1, Count
  <2> QED
    BY <2>2 DEF Types, TypeOK, CountersExact
<1>2. EntriesMatch
  <2> SUFFICES ASSUME phase = "poll", NEW t \in Timers \ tainted
               PROVE  /\ t \in alive <=> t \in DOMAIN timers
                      /\ t \in alive => t \in linked /\ repeat[t] = timers[t]
    BY DEF EntriesMatch
  <2>1. Elems(pendings) = {}
    BY DEF Listed, Elems
  <2>2. t \notin pending /\ Match(t)
    BY <2>1 DEF Listed, Matching
  <2> QED
    BY <2>2 DEF Match, Flags
<1>3. WalkIsSafe
  <2>1. \A k \in DOMAIN pendings : pendings[k] \in Elems(pendings)
    BY DEF Types, Elems
  <2> QED
    BY <2>1 DEF Safe, WalkIsSafe
<1> QED
  BY <1>1, <1>2, <1>3

\* The state of the loop and of EventLoop::timers always has its types: no
\* count of repeats, of timers or of active events falls below 0.
THEOREM TypeCorrect == Spec => []TypeOK
  BY AlwaysIInv, Implied, PTL

\* hloop_t::ntimers and hloop_t::nactives are always the numbers of timers in
\* the heap and of active events.
THEOREM CountersAreExact == Spec => []CountersExact
<1>1. IInv => CountersExact
  BY DEF IInv
<1> QED
  BY <1>1, AlwaysIInv, PTL

\* Between turns htimer_t::repeat and the entries of EventLoop::timers agree,
\* for every timer that was never reset while it was pending.
THEOREM EntriesAlwaysMatch == Spec => []EntriesMatch
  BY AlwaysIInv, Implied, PTL

\* hloop_process_pendings meets no freed event, whatever the callbacks delete,
\* but for timers that were both reset while pending and deleted.
THEOREM WalkAlwaysSafe == Spec => []WalkIsSafe
  BY AlwaysIInv, Implied, PTL

\* hloop_process_pendings calls no callback of an event that killTimer or
\* hidle_del deleted.
THEOREM NoCallAfterDelete == Spec => DeletedNotCalled
<1> DEFINE A == cur' # cur /\ cur' # None => cur' \notin dead
<1>1. IInv /\ [Next]_vars => [A]_vars
  <2> SUFFICES ASSUME IInv, Next, cur' # cur, cur' # None PROVE cur' \notin dead
    OBVIOUS
  <2>1. StartCallback
    BY DEF Next, setTimer, killTimer, resetTimer, hidle_add, hidle_del, Expire, Poll,
           TimersDone, IdlesDone, WalkDone, SkipReset, EndCallback, SkipDeleted, Passed,
           Undefined, Wild, vars
  <2> QED
    BY <2>1 DEF StartCallback, CallsBack, IInv, Deleted
<1> HIDE DEF A
<1>2. Spec => [][A]_vars
  BY <1>1, AlwaysIInv, PTL DEF Spec
<1> QED
  BY <1>2 DEF A, DeletedNotCalled
=============================================================================
