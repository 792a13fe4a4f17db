------------------------------ MODULE LoopTimers ------------------------------
(***************************************************************************)
(* Timers and idles of a loop: hloop_process_timers, hloop_process_idles   *)
(* and hloop_process_pendings of event/hloop.c with the EVENT_ macros of   *)
(* event/hevent.h, and the timers of evpp/EventLoop.h on top of them.      *)
(* Callbacks add, delete and reset the events that are being processed.    *)
(* An event is named by its address, which is not reused. Time is left     *)
(* open: in every turn of the loop any of the timers may be due.           *)
(***************************************************************************)
EXTENDS Integers, Sequences, FiniteSets

CONSTANTS
    Timers,     \* timers that setTimer makes, named by their TimerID
    Idles,      \* idles that hidle_add makes
    Repeats,    \* how often an event may be asked to repeat
    INFINITE,
    None        \* no event

ASSUME TimersAssumption ==
    /\ Timers \cap Idles = {}
    /\ IsFiniteSet(Timers) /\ IsFiniteSet(Idles)
    /\ Repeats \subseteq (Nat \ {0}) \cup {INFINITE}
    /\ INFINITE \notin Nat
    /\ None \notin Timers \cup Idles

Events == Timers \cup Idles

VARIABLES
    fresh,      \* events not made yet
    alive,      \* events in allocated memory
    active, pending, destroy,   \* the flags of an event, as sets of events
    repeat,     \* htimer_t::repeat, hidle_t::repeat
    linked,     \* timers in the heap, idles in the list
    ntimers, nactives,
    timers,     \* EventLoop::timers: the repeats that a timer has left
    phase,      \* what hloop_process_events is doing
    due,        \* events processed in this turn
    pendings,   \* the list being built or walked, from its head on
    cur,        \* the event whose callback runs
    dead,       \* history: events deleted by killTimer or hidle_del
    tainted     \* history: timers reset while they were in pendings

counters == <<ntimers, nactives>>
history == <<dead, tainted>>
vars == <<fresh, alive, active, pending, destroy, repeat, linked, counters,
          timers, phase, due, pendings, cur, history>>

Init ==
    /\ fresh = Events
    /\ alive = {} /\ active = {} /\ pending = {} /\ destroy = {} /\ linked = {}
    /\ repeat = [e \in Events |-> 0]
    /\ ntimers = 0 /\ nactives = 0
    /\ timers = [t \in {} |-> 0]
    /\ phase = "poll"
    /\ due = {} /\ pendings = <<>> /\ cur = None
    /\ dead = {} /\ tainted = {}

Drop(f, x) == [y \in DOMAIN f \ {x} |-> f[y]]
One(b) == IF b THEN 1 ELSE 0

\* --repeat of a timer that repeats without end: htimer_t keeps INFINITE, and
\* the count of EventLoop, which starts at 2^32 - 1, is not followed down to 0.
Less(n) == IF n = INFINITE THEN n ELSE n - 1

\* Callbacks of timers, idles and (between two turns) of ios call the API.
MayCall == phase \in {"poll", "callback"}

\* Freed memory is used: nothing can be said of what follows.
Wild ==
    /\ phase' = "wild"
    /\ UNCHANGED <<fresh, alive, active, pending, destroy, repeat, linked, counters,
                   timers, due, pendings, cur, history>>

Undefined == phase = "wild" /\ UNCHANGED vars
-----------------------------------------------------------------------------
(* Timers and idles come and go *)

Made(e, n) ==
    /\ e \in fresh
    /\ fresh' = fresh \ {e}
    /\ alive' = alive \cup {e} /\ active' = active \cup {e}
    /\ linked' = linked \cup {e}
    /\ repeat' = [repeat EXCEPT ![e] = n]
    /\ nactives' = nactives + 1

\* setTimer with htimer_add
setTimer(t) ==
    /\ MayCall
    /\ \E n \in Repeats : Made(t, n) /\ timers' = [x \in DOMAIN timers \cup {t} |->
                                                    IF x = t THEN n ELSE timers[x]]
    /\ ntimers' = ntimers + 1
    /\ UNCHANGED <<pending, destroy, phase, due, pendings, cur, history>>

hidle_add(i) ==
    /\ MayCall
    /\ \E n \in Repeats : Made(i, n)
    /\ UNCHANGED <<pending, destroy, ntimers, timers, phase, due, pendings, cur, history>>

\* Mutant: a pending event is freed as well.
DeleteAtOnce(e) ==
    IF e \in active
      THEN /\ linked' = linked \ {e}
           /\ ntimers' = ntimers - One(e \in Timers /\ e \notin destroy)
           /\ destroy' = destroy \cup {e}
           /\ active' = active \ {e}
           /\ nactives' = nactives - 1
           /\ alive' = alive \ {e}
      ELSE UNCHANGED <<linked, counters, destroy, active, alive>>

\* __htimer_del or __hidle_del, then EVENT_DEL: the event is freed at once
\* unless it is pending.
Delete(e) ==
    IF e \in active
      THEN /\ linked' = linked \ {e}
           /\ ntimers' = ntimers - One(e \in Timers /\ e \notin destroy)
           /\ destroy' = destroy \cup {e}
           /\ active' = active \ {e}
           /\ nactives' = nactives - 1
           /\ alive' = IF e \in pending THEN alive ELSE alive \ {e}
      ELSE UNCHANGED <<linked, counters, destroy, active, alive>>

\* killTimer with htimer_del
killTimer(t) ==
    /\ MayCall /\ t \in DOMAIN timers
    /\ \/ t \notin alive /\ Wild
       \/ /\ t \in alive
          /\ Delete(t)
          /\ timers' = Drop(timers, t)
          /\ dead' = dead \cup {t}
          /\ UNCHANGED <<fresh, pending, repeat, phase, due, pendings, cur, tainted>>

\* hidle_del; the caller knows which of its idles are gone.
hidle_del(i) ==
    /\ MayCall /\ i \in alive \ dead
    /\ Delete(i)
    /\ dead' = dead \cup {i}
    /\ UNCHANGED <<fresh, pending, repeat, timers, phase, due, pendings, cur, tainted>>

\* Mutant: a timer that comes back into the heap is not counted.
CountedNot(t) == UNCHANGED ntimers

\* htimer_reset counts a timer that had left the heap, and takes it out of
\* the pendings by its flag, not out of their list.
Counted(t) == ntimers' = ntimers + One(t \in destroy)

\* resetTimer with htimer_reset
resetTimer(t) ==
    /\ MayCall /\ t \in DOMAIN timers
    /\ \/ t \notin alive /\ Wild
       \/ /\ t \in alive
          /\ Counted(t)
          /\ nactives' = nactives + One(t \notin active)
          /\ linked' = linked \cup {t}
          /\ repeat' = [repeat EXCEPT ![t] = IF @ = 0 THEN 1 ELSE @]
          /\ timers' = [timers EXCEPT ![t] = IF @ = 0 THEN 1 ELSE @]
          /\ destroy' = destroy \ {t}
          /\ active' = active \cup {t}
          /\ pending' = pending \ {t}
          /\ tainted' = IF t \in pending THEN tainted \cup {t} ELSE tainted
          /\ UNCHANGED <<fresh, alive, phase, due, pendings, cur, dead>>
-----------------------------------------------------------------------------
(* A turn of the loop *)

Go(from, to) == phase = from /\ phase' = to

\* Polling is over.
Poll ==
    /\ Go("poll", "timers")
    /\ due' = {} /\ pendings' = <<>>
    /\ UNCHANGED <<fresh, alive, active, pending, destroy, repeat, linked,
                   counters, timers, cur, history>>

\* An event of which this was the last repeat leaves the heap or the list and
\* is freed later; one that repeats goes back into the heap.
LastOne(e) == Less(repeat[e]) = 0

\* One round of hloop_process_timers or of hloop_process_idles.
Expire(e) ==
    /\ \/ phase = "timers" /\ e \in Timers
       \/ phase = "idles" /\ e \in Idles
    /\ e \in linked \ due
    /\ due' = due \cup {e}
    /\ repeat' = [repeat EXCEPT ![e] = Less(@)]
    /\ linked' = IF LastOne(e) THEN linked \ {e} ELSE linked
    /\ destroy' = IF LastOne(e) THEN destroy \cup {e} ELSE destroy
    /\ ntimers' = ntimers - One(LastOne(e) /\ e \in Timers)
    /\ pending' = pending \cup {e}
    /\ pendings' = <<e>> \o pendings
    /\ UNCHANGED <<fresh, alive, active, nactives, timers, phase, cur, history>>

\* No more timers are due. Idles get their turn if nothing else is pending.
TimersDone ==
    /\ \/ Go("timers", "walk")
       \/ Go("timers", "idles") /\ pendings = <<>>
    /\ UNCHANGED <<fresh, alive, active, pending, destroy, repeat, linked,
                   counters, timers, due, pendings, cur, history>>

IdlesDone ==
    /\ Go("idles", "walk")
    /\ linked \cap Idles \subseteq due
    /\ UNCHANGED <<fresh, alive, active, pending, destroy, repeat, linked,
                   counters, timers, due, pendings, cur, history>>

WalkDone ==
    /\ Go("walk", "poll")
    /\ pendings = <<>>
    /\ UNCHANGED <<fresh, alive, active, pending, destroy, repeat, linked,
                   counters, timers, due, pendings, cur, history>>

\* hloop_process_pendings comes to an event that was reset: it does nothing.
SkipReset ==
    /\ phase = "walk" /\ pendings # <<>>
    /\ \/ Head(pendings) \notin alive /\ Wild
       \/ /\ Head(pendings) \in alive \ pending
          /\ pendings' = Tail(pendings)
          /\ UNCHANGED <<fresh, alive, active, pending, destroy, repeat, linked,
                         counters, timers, phase, due, cur, history>>

\* Mutant: the callback of an event that was deleted is called.
CallsBackAlways(e) == TRUE

CallsBack(e) == e \in active

\* It calls the callback: for a timer onTimer, which counts the repeat.
StartCallback ==
    /\ phase = "walk" /\ pendings # <<>>
    /\ LET e == Head(pendings) IN
         /\ e \in alive \cap pending
         /\ CallsBack(e)
         /\ cur' = e
         /\ timers' = IF e \in DOMAIN timers
                        THEN [timers EXCEPT ![e] = Less(@)] ELSE timers
    /\ phase' = "callback"
    /\ UNCHANGED <<fresh, alive, active, pending, destroy, repeat, linked,
                   counters, due, pendings, history>>

\* pending = 0, and EVENT_DEL for an event marked as destroy.
Passed(e) ==
    /\ pending' = pending \ {e}
    /\ pendings' = Tail(pendings)
    /\ phase' = "walk" /\ cur' = None
    /\ IF e \in destroy
         THEN /\ alive' = alive \ {e} /\ active' = active \ {e}
              /\ nactives' = nactives - One(e \in active)
         ELSE UNCHANGED <<alive, active, nactives>>
    /\ UNCHANGED <<fresh, destroy, repeat, linked, ntimers, due, history>>

\* Mutant: the entry stays.
ErasedNot(t) == timers

\* The end of onTimer: an entry without repeats is erased.
Erased(t) == IF t \in DOMAIN timers /\ timers[t] = 0 THEN Drop(timers, t) ELSE timers

EndCallback ==
    /\ phase = "callback"
    /\ \/ cur \notin alive /\ Wild
       \/ cur \in alive /\ Passed(cur) /\ timers' = Erased(cur)

\* It comes to an event that was deleted while it was pending.
SkipDeleted ==
    /\ phase = "walk" /\ pendings # <<>>
    /\ Head(pendings) \in alive \cap pending
    /\ ~CallsBack(Head(pendings))
    /\ Passed(Head(pendings))
    /\ UNCHANGED timers
-----------------------------------------------------------------------------
Next ==
    \/ \E t \in Timers : setTimer(t) \/ killTimer(t) \/ resetTimer(t)
    \/ \E i \in Idles : hidle_add(i) \/ hidle_del(i)
    \/ \E e \in Events : Expire(e)
    \/ Poll \/ TimersDone \/ IdlesDone \/ WalkDone
    \/ SkipReset \/ StartCallback \/ EndCallback \/ SkipDeleted
    \/ Undefined

Spec == Init /\ [][Next]_vars
-----------------------------------------------------------------------------
(* Properties *)

TypeOK ==
    /\ fresh \subseteq Events /\ alive \subseteq Events /\ active \subseteq Events
    /\ pending \subseteq Events /\ destroy \subseteq Events /\ linked \subseteq Events
    /\ repeat \in [Events -> Nat \cup {INFINITE}]
    /\ ntimers \in Nat /\ nactives \in Nat
    /\ DOMAIN timers \subseteq Timers
    /\ timers \in [DOMAIN timers -> Nat \cup {INFINITE}]
    /\ phase \in {"poll", "timers", "idles", "walk", "callback", "wild"}
    /\ due \subseteq Events /\ pendings \in Seq(Events) /\ cur \in Events \cup {None}
    /\ dead \subseteq Events /\ tainted \subseteq Timers

\* The counters that decide whether the loop looks at its timers
\* (hloop_process_events) and whether it may quit (hloop_run) are exact, after
\* any mix of adding, deleting, resetting and expiring inside callbacks.
CountersExact ==
    /\ ntimers = Cardinality(linked \cap Timers)
    /\ nactives = Cardinality(active)

\* The two layers agree between turns: a timer of the loop has an entry in
\* EventLoop::timers with as many repeats left, and the other way round. Hence
\* killTimer and resetTimer never touch a freed timer, and no timer fires into
\* nothing. A timer that was reset while it was pending is excepted.
EntriesMatch ==
    phase = "poll" =>
      \A t \in Timers \ tainted :
        /\ t \in alive <=> t \in DOMAIN timers
        /\ t \in alive => t \in linked /\ repeat[t] = timers[t]

\* Once deleted, an event's callback is not called any more, even if it was
\* pending already when another callback deleted it.
DeletedNotCalled ==
    [][cur' # cur /\ cur' # None => cur' \notin dead]_vars

\* The walk of hloop_process_pendings meets no freed event, whatever the
\* callbacks delete; a timer that one callback reset and deleted is excepted.
WalkIsSafe ==
    \A k \in DOMAIN pendings :
      pendings[k] \in alive \/ pendings[k] \in tainted \cap dead
=============================================================================
