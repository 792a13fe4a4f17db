----------------------------- MODULE LoopEvents -----------------------------
(***************************************************************************)
(* Posting events to a running loop (event/hloop.c, evpp/EventLoop.h).     *)
(*                                                                         *)
(* Any thread, the loop's own thread inside a callback included, posts an  *)
(* event by writing one byte to a socket pair and queueing the event under *)
(* custom_events_mutex.  The loop reads the bytes without the mutex and    *)
(* takes one event per byte.  EventLoop::postEvent first puts the callback *)
(* in a queue of its own, under another mutex, and posts an event whose    *)
(* handler onCustomEvent runs the callback at the front of that queue,     *)
(* which need not be the one it was posted for.                            *)
(***************************************************************************)
EXTENDS Integers, Sequences, FiniteSets

CONSTANTS
    Posters,     \* threads other than the loop's
    Loop,        \* the loop thread
    None,        \* no thread, no event
    ReadMax,     \* loop->readbuf.len, bytes taken by one read
    MaxPosts     \* bound: events posted

Threads == Posters \cup {Loop}

ASSUME LoopEventsAssumption ==
    /\ Loop \notin Posters
    /\ None \notin Threads
    /\ ReadMax \in Nat \ {0}
    /\ MaxPosts \in Nat

VARIABLES
    custom_events_mutex,  \* its owner, or None
    sockpair,             \* bytes written and not yet read
    custom_events,        \* the loop's queue of hevent_t
    customEvents,         \* EventLoop's queue of callbacks
    pc,                   \* thread -> where it is in hloop_post_event
    arg,                  \* thread -> the event it is posting
    lpc,                  \* where the loop thread is
    readbytes,            \* bytes sockpair_read_cb has still to account for
    current,              \* the event the loop has taken
    \* history
    nposted,              \* events posted so far; the next event's id is one more
    ran                   \* the events whose callback was invoked, in order

vars == <<custom_events_mutex, sockpair, custom_events, customEvents, pc, arg,
          lpc, readbytes, current, nposted, ran>>

\* A "fn" event comes from EventLoop::postEvent, a "raw" one from a direct call
\* of hloop_post_event (hloop_stop, hloop_wakeup, hio_close on another thread).
Event == [id : 1..MaxPosts, kind : {"fn", "raw"}, by : Threads]

Init ==
    /\ custom_events_mutex = None
    /\ sockpair = 0
    /\ custom_events = <<>>
    /\ customEvents = <<>>
    /\ pc = [t \in Threads |-> "idle"]
    /\ arg = [t \in Threads |-> None]
    /\ lpc = "loop"
    /\ readbytes = 0
    /\ current = None
    /\ nposted = 0
    /\ ran = <<>>
-----------------------------------------------------------------------------
\* A thread that is not already posting; the loop thread posts from a callback.
MayPost(t) ==
    /\ pc[t] = "idle"
    /\ t = Loop => lpc = "cb"
    /\ nposted < MaxPosts

Begin(t, kind) ==
    /\ MayPost(t)
    /\ nposted' = nposted + 1
    /\ arg' = [arg EXCEPT ![t] = [id |-> nposted + 1, kind |-> kind, by |-> t]]
    /\ pc' = [pc EXCEPT ![t] = "post"]
    /\ UNCHANGED <<custom_events_mutex, sockpair, custom_events, lpc, readbytes,
                   current, ran>>

postEventAsStack(t) ==
    /\ Begin(t, "fn")
    /\ customEvents' = <<[id |-> nposted + 1, kind |-> "fn", by |-> t]>> \o customEvents

\* EventLoop::postEvent up to the call of hloop_post_event.
postEvent(t) ==
    /\ Begin(t, "fn")
    /\ customEvents' = Append(customEvents, [id |-> nposted + 1, kind |-> "fn", by |-> t])

PostRaw(t) ==
    /\ Begin(t, "raw")
    /\ UNCHANGED customEvents

LockAndWriteIfEmpty(t) ==
    /\ pc[t] = "post"
    /\ custom_events_mutex = None
    /\ custom_events_mutex' = t
    /\ sockpair' = IF custom_events = <<>> THEN sockpair + 1 ELSE sockpair
    /\ pc' = [pc EXCEPT ![t] = "push"]
    /\ UNCHANGED <<custom_events, customEvents, arg, lpc, readbytes, current, nposted, ran>>

\* hloop_post_event: hmutex_lock and hwrite.
LockAndWrite(t) ==
    /\ pc[t] = "post"
    /\ custom_events_mutex = None
    /\ custom_events_mutex' = t
    /\ sockpair' = sockpair + 1
    /\ pc' = [pc EXCEPT ![t] = "push"]
    /\ UNCHANGED <<custom_events, customEvents, arg, lpc, readbytes, current, nposted, ran>>

\* hloop_post_event: event_queue_push_back and hmutex_unlock.
PushAndUnlock(t) ==
    /\ pc[t] = "push"
    /\ custom_events' = Append(custom_events, arg[t])
    /\ custom_events_mutex' = None
    /\ pc' = [pc EXCEPT ![t] = "idle"]
    /\ arg' = [arg EXCEPT ![t] = None]
    /\ UNCHANGED <<sockpair, customEvents, lpc, readbytes, current, nposted, ran>>

\* nio_read on the socket pair, which calls sockpair_read_cb.
ReadSockpair ==
    /\ lpc = "loop"
    /\ readbytes = 0
    /\ sockpair > 0
    /\ readbytes' = IF sockpair < ReadMax THEN sockpair ELSE ReadMax
    /\ sockpair' = sockpair - readbytes'
    /\ UNCHANGED <<custom_events_mutex, custom_events, customEvents, pc, arg, lpc,
                   current, nposted, ran>>

\* One turn of sockpair_read_cb's for loop up to hmutex_unlock; on an empty
\* queue it gives up the remaining bytes.  A raw event's callback starts.
TakeEvent ==
    LET found == custom_events # <<>>
        ev == Head(custom_events)
    IN /\ lpc = "loop"
       /\ readbytes > 0
       /\ custom_events_mutex = None
       /\ readbytes' = IF found THEN readbytes - 1 ELSE 0
       /\ custom_events' = IF found THEN Tail(custom_events) ELSE custom_events
       /\ current' = IF found THEN ev ELSE None
       /\ lpc' = IF ~found THEN "loop" ELSE IF ev.kind = "fn" THEN "custom" ELSE "cb"
       /\ ran' = IF found /\ ev.kind = "raw" THEN Append(ran, ev) ELSE ran
       /\ UNCHANGED <<custom_events_mutex, sockpair, customEvents, pc, arg, nposted>>

onCustomEventNoPop ==
    /\ lpc = "custom"
    /\ customEvents # <<>>
    /\ current' = Head(customEvents)
    /\ ran' = Append(ran, Head(customEvents))
    /\ lpc' = "cb"
    /\ UNCHANGED <<custom_events_mutex, sockpair, custom_events, customEvents, pc, arg,
                   readbytes, nposted>>

onCustomEventClears ==
    /\ lpc = "custom"
    /\ customEvents # <<>>
    /\ current' = Head(customEvents)
    /\ customEvents' = <<>>
    /\ ran' = Append(ran, Head(customEvents))
    /\ lpc' = "cb"
    /\ UNCHANGED <<custom_events_mutex, sockpair, custom_events, pc, arg, readbytes, nposted>>

\* EventLoop::onCustomEvent: run what is at the front of customEvents.
onCustomEvent ==
    /\ lpc = "custom"
    /\ customEvents # <<>>
    /\ current' = Head(customEvents)
    /\ customEvents' = Tail(customEvents)
    /\ ran' = Append(ran, Head(customEvents))
    /\ lpc' = "cb"
    /\ UNCHANGED <<custom_events_mutex, sockpair, custom_events, pc, arg, readbytes, nposted>>

\* The callback returns, having finished every post it started.
Return ==
    /\ lpc = "cb"
    /\ pc[Loop] = "idle"
    /\ lpc' = "loop"
    /\ current' = None
    /\ UNCHANGED <<custom_events_mutex, sockpair, custom_events, customEvents, pc, arg,
                   readbytes, nposted, ran>>

Post(t) == LockAndWrite(t) \/ PushAndUnlock(t)
LoopStep == ReadSockpair \/ TakeEvent \/ onCustomEvent \/ Return

Next ==
    \/ \E t \in Threads : postEvent(t) \/ PostRaw(t) \/ Post(t)
    \/ LoopStep

\* A thread inside hloop_post_event and the loop keep running; nobody has to post.
Fairness == WF_vars(LoopStep) /\ \A t \in Threads : WF_vars(Post(t))

Spec == Init /\ [][Next]_vars
FairSpec == Spec /\ Fairness
-----------------------------------------------------------------------------
(***************************************************************************)
(* Properties                                                              *)
(***************************************************************************)
\* Type invariant of hloop_t's event members and of the two queues.
TypeOK ==
    /\ custom_events_mutex \in Threads \cup {None}
    /\ sockpair \in Nat
    /\ custom_events \in Seq(Event)
    /\ customEvents \in Seq(Event)
    /\ pc \in [Threads -> {"idle", "post", "push"}]
    /\ arg \in [Threads -> Event \cup {None}]
    /\ lpc \in {"loop", "custom", "cb"}
    /\ readbytes \in Nat
    /\ current \in Event \cup {None}
    /\ nposted \in 0..MaxPosts
    /\ ran \in Seq(Event)

InPush == IF custom_events_mutex = None THEN 0 ELSE 1

\* Bytes and events match: what is in the socket pair or in sockpair_read_cb's
\* hand is exactly what is queued, plus the event of the one thread between
\* hwrite and push_back.  So a byte is never spent on an empty queue, and no
\* event is left in the queue without a byte to wake the loop for it.
WakeupPerEvent == sockpair + readbytes = Len(custom_events) + InPush

\* onCustomEvent never takes the front of an empty customEvents, although the
\* two queues are filled under different mutexes and in different orders.
FrontExists == lpc = "custom" => customEvents # <<>>

\* No callback runs twice, and none runs that was not posted.
RunOnce ==
    /\ \A i, j \in DOMAIN ran : ran[i].id = ran[j].id => i = j
    /\ \A i \in DOMAIN ran : ran[i].id <= nposted

\* The callbacks given to postEvent run in the order in which the calls queued
\* them, whatever order their threads reach hloop_post_event in; direct events
\* of one thread run in the order it posted them.
RunInOrder ==
    \A i, j \in DOMAIN ran :
        /\ i < j
        /\ ran[i].kind = ran[j].kind
        /\ ran[i].kind = "raw" => ran[i].by = ran[j].by
        => ran[i].id < ran[j].id

Ran(id) == \E i \in DOMAIN ran : ran[i].id = id

\* Every posted event is eventually run, also when the loop was about to poll
\* or was draining an earlier batch of bytes.
EveryPostRuns == \A id \in 1..MaxPosts : nposted >= id ~> Ran(id)
=============================================================================
