--------------------------------- MODULE Hio ---------------------------------
(***************************************************************************)
(* event/nio.c with hio_ready, hio_done, hio_add and hio_del of            *)
(* event/hloop.c: the hio_t of one file descriptor, through the            *)
(* connections that use the descriptor one after the other. The loop       *)
(* thread reads, flushes, times out and closes; other threads call         *)
(* hio_write and hio_close. The bytes of a write are units <<m, k>>, so    *)
(* that the write queue is a sequence of units. A critical section of      *)
(* write_mutex is one step.                                                *)
(*                                                                         *)
(* hio_write and hio_close test closed before they act, and nothing keeps  *)
(* the loop from closing the connection in between. late remembers that a  *)
(* thread has acted on a connection after that: what a late call does to   *)
(* the hio_t is modelled, and the properties that it can break say so.     *)
(***************************************************************************)
EXTENDS Naturals, Sequences, FiniteSets

CONSTANTS
    Threads,    \* threads other than the loop's
    MsgLen,     \* units of a message
    MaxMsgs,    \* bound: messages written on a connection
    MaxConns,   \* bound: connections of the descriptor
    MaxPosted   \* bound: posted closes under way

ASSUME HioAssumption == {MsgLen, MaxMsgs, MaxConns, MaxPosted} \subseteq Nat \ {0}

VARIABLES
    ready, closed, close, error, id,    \* fields of hio_t
    close_cb,       \* io->close_cb != NULL
    hv_write,       \* io->events & HV_WRITE
    write_queue,
    keepalive_timer, close_timer,   \* the timer exists and hio_t points to it
    leaked,         \* number of timers to which no field points any more
    custom_events,  \* posted closes: the id posted, and the connection meant
    pc,             \* where the loop thread is in hio_handle_events, hio_close
    tpc,            \* per thread: outside, in hio_write, before or in hio_close
    meant,          \* history: per thread, the connection it acts on, or 0
    late,           \* history: a thread acted after its connection was closed
    conn, open,     \* the connection of the descriptor, whether fd is open
    msgs,           \* messages of this connection so far
    accepted, sent, \* history: units hio_write accepted, the kernel took
    asked,          \* history: hio_close called never, once or again (0, 1, 2)
    due,            \* history: length of accepted when it was first called
    closes          \* history: calls of close_cb for this connection

flags == <<ready, closed, close, error, id, close_cb>>
timers == <<keepalive_timer, close_timer, leaked>>
threads == <<tpc, meant, late>>
stream == <<msgs, accepted, sent>>
request == <<asked, due>>
vars == <<flags, hv_write, write_queue, timers, custom_events, pc, threads,
          conn, open, stream, request, closes>>

Units(m) == [k \in 1..MsgLen |-> <<m, k>>]
One(b) == IF b THEN 1 ELSE 0
Idle == pc = "idle"
Writing == {t \in Threads : tpc[t] = "write"}

\* No connection has used the descriptor and nobody has its hio_t yet, which is
\* as good as closed.
Init ==
    /\ ready = FALSE /\ closed = TRUE /\ close = FALSE /\ error = FALSE
    /\ id = 0 /\ close_cb = FALSE
    /\ hv_write = FALSE
    /\ write_queue = <<>>
    /\ keepalive_timer = FALSE /\ close_timer = FALSE /\ leaked = 0
    /\ custom_events = <<>>
    /\ pc = "idle"
    /\ tpc = [t \in Threads |-> "out"]
    /\ meant = [t \in Threads |-> 0]
    /\ late = FALSE
    /\ conn = 0 /\ open = FALSE
    /\ msgs = 0 /\ accepted = <<>> /\ sent = <<>>
    /\ asked = 0 /\ due = 0
    /\ closes = 1
-----------------------------------------------------------------------------
(* A descriptor gets ready *)

\* Mutant: the descriptor keeps its id.
hio_ready_same_id ==
    /\ ready' = TRUE /\ closed' = FALSE /\ close' = FALSE /\ error' = FALSE
    /\ id' = id
    /\ leaked' = leaked + One(keepalive_timer) + One(close_timer)
    /\ close_timer' = FALSE

\* hio_ready forgets the timers that a connection left behind.
hio_ready ==
    /\ ready' = TRUE /\ closed' = FALSE /\ close' = FALSE /\ error' = FALSE
    /\ id' = id + 1
    /\ leaked' = leaked + One(keepalive_timer) + One(close_timer)
    /\ close_timer' = FALSE

\* accept gives the descriptor to a new connection: hio_get, then the accept
\* callback with its hio_setcb_close and hio_set_keepalive_timeout.
Accept ==
    /\ Idle /\ ~open /\ conn < MaxConns
    /\ IF ready
         THEN UNCHANGED <<ready, closed, close, error, id, close_timer, leaked>>
         ELSE hio_ready
    /\ close_cb' = TRUE /\ keepalive_timer' = TRUE
    /\ hv_write' = (ready /\ hv_write)
    /\ conn' = conn + 1 /\ open' = TRUE
    /\ msgs' = 0 /\ accepted' = <<>> /\ sent' = <<>>
    /\ asked' = 0 /\ due' = 0 /\ closes' = 0
    /\ UNCHANGED <<write_queue, custom_events, pc, threads>>
-----------------------------------------------------------------------------
(* hio_write after its test of closed, inside write_mutex *)

\* The kernel takes n units of the message; the rest is queued, and hio_add
\* asks for HV_WRITE (and makes an hio_t ready that was closed meanwhile).
TryWrite ==
    /\ write_queue = <<>> /\ open
    /\ \E n \in 0..MsgLen :
         /\ sent' = sent \o SubSeq(Units(msgs + 1), 1, n)
         /\ write_queue' = SubSeq(Units(msgs + 1), n + 1, MsgLen)
         /\ hv_write' = (hv_write \/ n < MsgLen)
         /\ IF n < MsgLen /\ ~ready
              THEN hio_ready /\ close_cb' = FALSE /\ keepalive_timer' = FALSE
              ELSE UNCHANGED <<flags, timers>>

\* Mutant: the kernel is given the message although older data are queued.
EnqueueOvertakes ==
    /\ write_queue # <<>>
    /\ sent' = sent \o Units(msgs + 1)
    /\ UNCHANGED <<flags, timers, hv_write, write_queue>>

Enqueue ==
    /\ write_queue # <<>>
    /\ write_queue' = write_queue \o Units(msgs + 1)
    /\ UNCHANGED <<flags, timers, hv_write, sent>>

WriteLocked ==
    /\ TryWrite \/ Enqueue
    /\ accepted' = accepted \o Units(msgs + 1)
    /\ msgs' = msgs + 1

\* write fails or returns 0: the peer is gone, or fd is closed already.
WriteFails ==
    /\ write_queue = <<>>
    /\ error' \in {error, TRUE}
    /\ UNCHANGED <<ready, closed, close, id, close_cb, timers, hv_write,
                   write_queue, stream>>

\* Another thread calls hio_write and sees a connection that is not closed.
hio_write(t) ==
    /\ tpc[t] = "out" /\ ~closed
    /\ msgs + Cardinality(Writing) < MaxMsgs
    /\ tpc' = [tpc EXCEPT ![t] = "write"]
    /\ meant' = [meant EXCEPT ![t] = conn]
    /\ UNCHANGED <<flags, hv_write, write_queue, timers, custom_events, pc, late,
                   conn, open, stream, request, closes>>

\* The connection that thread t means has been closed.
Overtaken(t) == closed \/ meant[t] # conn

\* The rest of hio_write. A late write can be taken by the next connection, and
\* the hio_ready of one that is taken only in part opens the closed hio_t again
\* and clears close_cb. A late failure is harmless: hio_close comes next.
ThreadWrites(t) ==
    /\ tpc[t] = "write"
    /\ \/ /\ WriteLocked
          /\ tpc' = [tpc EXCEPT ![t] = "out"] /\ meant' = [meant EXCEPT ![t] = 0]
          /\ late' = (late \/ Overtaken(t))
       \/ /\ WriteFails
          /\ tpc' = [tpc EXCEPT ![t] = "close"]
          /\ UNCHANGED <<meant, late>>
    /\ UNCHANGED <<custom_events, pc, conn, open, request, closes>>

\* hio_close on a thread other than the loop's, called by the user or by a
\* hio_write that failed: its test of closed.
ThreadCloses(t) ==
    /\ tpc[t] \in {"out", "close"}
    /\ \/ /\ closed
          /\ tpc' = [tpc EXCEPT ![t] = "out"] /\ meant' = [meant EXCEPT ![t] = 0]
       \/ /\ ~closed
          /\ tpc' = [tpc EXCEPT ![t] = "post"]
          /\ meant' = [meant EXCEPT ![t] = IF tpc[t] = "out" THEN conn ELSE @]
    /\ UNCHANGED <<flags, hv_write, write_queue, timers, custom_events, pc, late,
                   conn, open, stream, request, closes>>

\* It posts an event with the id that the hio_t has now. A late one has the id
\* of the next connection.
PostClose(t) ==
    /\ tpc[t] = "post" /\ Len(custom_events) < MaxPosted
    /\ tpc' = [tpc EXCEPT ![t] = "out"] /\ meant' = [meant EXCEPT ![t] = 0]
    /\ custom_events' = Append(custom_events, [id |-> id, conn |-> meant[t]])
    /\ late' = (late \/ meant[t] # conn)
    /\ UNCHANGED <<flags, hv_write, write_queue, timers, pc, conn, open, stream,
                   request, closes>>
-----------------------------------------------------------------------------
(* hio_close on the loop thread *)

\* The loop thread calls hio_close, which takes the steps below.
CallClose ==
    /\ pc' = "close"
    /\ asked' = IF asked = 0 THEN 1 ELSE 2
    /\ due' = IF asked = 0 THEN Len(accepted) ELSE due

\* Mutant: data that are queued do not defer the close.
DeferredNever == FALSE

Deferred == write_queue # <<>> /\ ~error /\ ~close

\* Mutant: a deferred close sets no timer.
SetNoTimer == UNCHANGED <<close_timer, leaked>>

\* The timer of a deferred close; that of an earlier one is forgotten.
SetCloseTimer ==
    /\ close_timer' = TRUE
    /\ leaked' = leaked + One(close_timer)

\* Mutant: hio_close does not look whether the descriptor is closed.
hio_close_again ==
    /\ pc = "close"
    /\ \/ Deferred /\ pc' = "idle" /\ close' = TRUE /\ SetCloseTimer
       \/ ~Deferred /\ pc' = "closing" /\ UNCHANGED <<close, close_timer, leaked>>
    /\ UNCHANGED <<ready, closed, error, id, close_cb, hv_write, write_queue,
                   keepalive_timer, custom_events, threads, conn, open, stream,
                   request, closes>>

\* hio_close up to the unlock of write_mutex: return, defer, or go on.
hio_close ==
    /\ pc = "close"
    /\ \/ closed /\ pc' = "idle" /\ UNCHANGED <<close, close_timer, leaked>>
       \/ ~closed /\ Deferred /\ pc' = "idle" /\ close' = TRUE /\ SetCloseTimer
       \/ ~closed /\ ~Deferred /\ pc' = "closing"
          /\ UNCHANGED <<close, close_timer, leaked>>
    /\ UNCHANGED <<ready, closed, error, id, close_cb, hv_write, write_queue,
                   keepalive_timer, custom_events, threads, conn, open, stream,
                   request, closes>>

\* closed = 1, and hio_done up to its lock: ready = 0 and hio_del. (hio_done
\* returns if the hio_t is not ready, but it is ready whenever it is not closed.)
MarkClosed ==
    /\ pc = "closing"
    /\ closed' = TRUE /\ ready' = FALSE /\ hv_write' = FALSE
    /\ pc' = "done"
    /\ UNCHANGED <<close, error, id, close_cb, write_queue, timers, custom_events,
                   threads, conn, open, stream, request, closes>>

\* hio_done frees what is queued.
DropQueue ==
    /\ pc = "done"
    /\ write_queue' = <<>>
    /\ pc' = "callback"
    /\ UNCHANGED <<flags, hv_write, timers, custom_events, threads, conn, open,
                   stream, request, closes>>

\* __close_cb deletes the timers and calls close_cb; then closesocket.
CloseCallback ==
    /\ pc = "callback"
    /\ keepalive_timer' = FALSE /\ close_timer' = FALSE
    /\ closes' = closes + One(close_cb)
    /\ open' = FALSE
    /\ pc' = "idle"
    /\ UNCHANGED <<flags, hv_write, write_queue, leaked, custom_events, threads,
                   conn, stream, request>>
-----------------------------------------------------------------------------
(* What the loop thread is called for *)

\* Mutant: HV_WRITE is given up without a look at the queue.
WriteReadyGivesUp ==
    /\ Idle /\ open /\ ~closed /\ hv_write
    /\ hv_write' = FALSE
    /\ pc' = "nio_write"
    /\ UNCHANGED <<flags, write_queue, timers, custom_events, threads, conn,
                   open, stream, request, closes>>

\* hio_handle_events with HV_WRITE, up to its call of nio_write.
WriteReady ==
    /\ Idle /\ open /\ ~closed /\ hv_write
    /\ hv_write' = (write_queue # <<>>)
    /\ pc' = "nio_write"
    /\ UNCHANGED <<flags, write_queue, timers, custom_events, threads, conn,
                   open, stream, request, closes>>

\* The loop of nio_write under write_mutex: the kernel takes n units of the
\* queue; then it is empty, or write would block, fails or returns 0.
nio_write ==
    /\ pc = "nio_write"
    /\ \E n \in 0..Len(write_queue) :
         /\ sent' = sent \o SubSeq(write_queue, 1, n)
         /\ write_queue' = SubSeq(write_queue, n + 1, Len(write_queue))
         /\ \/ n = Len(write_queue) /\ pc' = "drained" /\ UNCHANGED <<error, request>>
            \/ n < Len(write_queue) /\ pc' = "idle" /\ UNCHANGED <<error, request>>
            \/ n < Len(write_queue) /\ error' \in {error, TRUE} /\ CallClose
    /\ UNCHANGED <<ready, closed, close, id, close_cb, hv_write, timers,
                   custom_events, threads, conn, open, msgs, accepted, closes>>

\* nio_write after it found the queue empty and unlocked: a deferred close.
Drained ==
    /\ pc = "drained"
    /\ close' = FALSE
    /\ pc' = IF close THEN "close" ELSE "idle"
    /\ UNCHANGED <<ready, closed, error, id, close_cb, hv_write, write_queue,
                   timers, custom_events, threads, conn, open, stream, request,
                   closes>>

\* A callback on the loop thread writes; no close can come in between.
CallbackWrites ==
    /\ Idle /\ ~closed
    /\ msgs + Cardinality(Writing) < MaxMsgs
    /\ \/ WriteLocked /\ UNCHANGED <<pc, request>>
       \/ WriteFails /\ CallClose
    /\ UNCHANGED <<custom_events, threads, conn, open, closes>>

\* nio_read ends in hio_close: the peer closed, reading failed, or the read
\* callback closes the connection.
ReadCloses ==
    /\ Idle /\ open /\ ~closed
    /\ error' \in {error, TRUE}
    /\ CallClose
    /\ UNCHANGED <<ready, closed, close, id, close_cb, hv_write, write_queue,
                   timers, custom_events, threads, conn, open, stream, closes>>

\* The callback of a keep-alive or close timer.
TimedOut ==
    /\ error' = TRUE
    /\ CallClose
    /\ UNCHANGED <<ready, closed, close, id, close_cb, hv_write, write_queue,
                   keepalive_timer, close_timer, custom_events, threads, conn,
                   open, stream, closes>>

KeepaliveTimeout == Idle /\ keepalive_timer /\ TimedOut /\ UNCHANGED leaked
CloseTimeout == Idle /\ close_timer /\ TimedOut /\ UNCHANGED leaked
LeakedTimeout == Idle /\ leaked > 0 /\ TimedOut /\ leaked' = leaked - 1

\* hio_close_event_cb
CloseEvent ==
    /\ Idle /\ custom_events # <<>>
    /\ IF Head(custom_events).id = id THEN CallClose ELSE UNCHANGED <<pc, request>>
    /\ custom_events' = Tail(custom_events)
    /\ UNCHANGED <<flags, hv_write, write_queue, timers, threads, conn, open,
                   stream, closes>>
-----------------------------------------------------------------------------
LoopStep == hio_close \/ MarkClosed \/ DropQueue \/ CloseCallback \/ nio_write \/ Drained

Next ==
    \/ Accept \/ LoopStep
    \/ WriteReady \/ CallbackWrites \/ ReadCloses
    \/ KeepaliveTimeout \/ CloseTimeout \/ LeakedTimeout \/ CloseEvent
    \/ \E t \in Threads : hio_write(t) \/ ThreadWrites(t)
                         \/ ThreadCloses(t) \/ PostClose(t)

Spec == Init /\ [][Next]_vars

\* The loop finishes what it began and looks at its timers in every turn;
\* a thread inside hio_write gets on. Nobody has to call anything.
FairSpec ==
    /\ Spec
    /\ WF_vars(LoopStep)
    /\ SF_vars(CloseTimeout)
    /\ \A t \in Threads : WF_vars(ThreadWrites(t))
-----------------------------------------------------------------------------
(* Properties *)

Unit == (Nat \ {0}) \X (1..MsgLen)

TypeOK ==
    /\ ready \in BOOLEAN /\ closed \in BOOLEAN /\ close \in BOOLEAN
    /\ error \in BOOLEAN /\ id \in Nat /\ close_cb \in BOOLEAN
    /\ hv_write \in BOOLEAN
    /\ write_queue \in Seq(Unit)
    /\ keepalive_timer \in BOOLEAN /\ close_timer \in BOOLEAN /\ leaked \in Nat
    /\ custom_events \in Seq([id : Nat, conn : Nat])
    /\ pc \in {"idle", "close", "closing", "done", "callback", "nio_write", "drained"}
    /\ tpc \in [Threads -> {"out", "write", "close", "post"}]
    /\ meant \in [Threads -> Nat] /\ late \in BOOLEAN
    /\ conn \in Nat /\ open \in BOOLEAN
    /\ msgs \in Nat /\ accepted \in Seq(Unit) /\ sent \in Seq(Unit)
    /\ asked \in 0..2 /\ due \in Nat
    /\ closes \in Nat

\* Writes of several threads and partial writes of hio_write and nio_write
\* neither lose nor reorder nor mix bytes: what the kernel took and what is
\* queued are together what hio_write accepted, until hio_done drops the queue.
\* (A late write can leave data queued for the next connection.)
StreamInOrder ==
    open /\ pc # "callback" => accepted = sent \o write_queue \/ late

\* A close without an error that is asked for once loses nothing that was
\* accepted before it was asked for: hio_close defers itself until nio_write
\* has drained the queue. (The hio_ready of a late write clears error.)
CloseIsLossless ==
    ~open /\ ~error /\ asked = 1 => Len(sent) >= due \/ late

\* As long as data are queued the loop waits for HV_WRITE, although
\* hio_handle_events gives it up and other threads queue data meanwhile.
QueueIsWatched ==
    write_queue # <<>> /\ ~closed => hv_write

\* close_cb is called exactly once for each connection, before its descriptor
\* can be used again, however many errors, time-outs, deferred, posted and
\* repeated closes there are. (The hio_ready of a late write clears close_cb,
\* which is then not called.)
ClosedOnce ==
    /\ closes <= 1
    /\ open /\ ~closed => closes = 0
    /\ ~open => closes = 1 \/ late

\* A close posted by another thread (hio_close_event_cb) never closes a later
\* connection that got the same descriptor than the one the thread meant,
\* unless the connection was replaced before the event was even posted (late).
PostedCloseIsOwn ==
    [][Idle /\ pc' = "close" /\ custom_events' # custom_events
         => Head(custom_events).conn = conn \/ late]_vars

\* A connection that is asked to close is closed in the end, also when the peer
\* takes no more data: the timer of the deferred close sees to it. (The
\* hio_ready of a late write forgets that timer.)
CloseEnds ==
    (open /\ asked > 0) ~> (~open \/ late)

\* event/hloop.h:259, "hio_write is thread-safe": a write that another thread
\* makes on a connection goes to that connection.
WriteIsOwn ==
    [][\A t \in Threads : tpc[t] = "write" /\ tpc'[t] = "out" => meant[t] = conn]_vars
=============================================================================
