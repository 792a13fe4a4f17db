---------------------------- MODULE AsyncHttpClient ----------------------------
(***************************************************************************)
(* http/client/AsyncHttpClient: requests of any thread are tasks of one    *)
(* loop thread, which gives each a connection, new or from the pool, and a *)
(* timer. A connection that closes under its task hands it to a retry. One *)
(* peer is modelled; a descriptor is used again once it is closed. The     *)
(* callback of a timer, and sendRequest after a write, use the channel by  *)
(* reference: when removeChannel has deleted it meanwhile, freed memory is *)
(* used, and the model stops.                                              *)
(***************************************************************************)
EXTENDS Naturals, FiniteSets, SequencesExt

CONSTANTS
    Tasks,
    Fds,
    RetryCnt,   \* retry_cnt of a new task, 3 in the code
    NULL

ASSUME ClientAssumption == RetryCnt \in Nat /\ NULL \notin Tasks

VARIABLES
    sent,       \* tasks sent by the user
    timed,      \* tasks whose request has a time-out
    expired,    \* tasks whose time-out is over
    events,     \* the posted sendInLoop, in order
    retry_cnt,
    answers,    \* how often a task's callback was called
    channel,    \* state of a descriptor's channel, "none" when there is none
    closing,    \* channels whose close waits for queued data
    task,       \* ctx->task
    timer,      \* channels whose timer is set
    dangling,   \* tasks with a timer that outlived its channel
    conn_pool,
    wild        \* freed memory was used

vars == <<sent, timed, expired, events, retry_cnt, answers, channel, closing,
          task, timer, dangling, conn_pool, wild>>

Init ==
    /\ sent = {} /\ timed = {} /\ expired = {}
    /\ events = <<>>
    /\ retry_cnt = [t \in Tasks |-> RetryCnt]
    /\ answers = [t \in Tasks |-> 0]
    /\ channel = [f \in Fds |-> "none"]
    /\ closing = {}
    /\ task = [f \in Fds |-> NULL]
    /\ timer = {} /\ dangling = {}
    /\ conn_pool = <<>>
    /\ wild = FALSE

Wild ==
    /\ wild' = TRUE
    /\ UNCHANGED <<sent, timed, expired, events, retry_cnt, answers, channel,
                   closing, task, timer, dangling, conn_pool>>
-----------------------------------------------------------------------------
(* Sending *)

\* send by a user, with or without a time-out.
send(t) ==
    /\ ~wild /\ t \notin sent
    /\ sent' = sent \cup {t}
    /\ timed' \in {timed, timed \cup {t}}
    /\ events' = Append(events, t)
    /\ UNCHANGED <<expired, retry_cnt, answers, channel, closing, task, timer,
                   dangling, conn_pool, wild>>

\* Time passes.
Deadline(t) ==
    /\ ~wild /\ t \in timed \ expired
    /\ expired' = expired \cup {t}
    /\ UNCHANGED <<sent, timed, events, retry_cnt, answers, channel, closing, task,
                   timer, dangling, conn_pool, wild>>

\* sendInLoop when doTask fails: late, unknown host, or no socket.
SendFails ==
    /\ ~wild /\ events # <<>>
    /\ answers' = [answers EXCEPT ![Head(events)] = @ + 1]
    /\ events' = Tail(events)
    /\ UNCHANGED <<sent, timed, expired, retry_cnt, channel, closing, task, timer,
                   dangling, conn_pool, wild>>

\* Mutant: the task gets no timer.
TimerNotSet(f, t) == timer

TimerSet(f, t) == IF t \in timed THEN timer \cup {f} ELSE timer

\* doTask gets a channel, gives it the task and a timer and sends or connects.
doTask ==
    /\ ~wild /\ events # <<>>
    /\ Head(events) \notin expired
    /\ \E f \in Fds :
         /\ \/ /\ conn_pool # <<>> /\ f = Head(conn_pool)
               /\ conn_pool' = Tail(conn_pool)
               /\ UNCHANGED channel
            \/ /\ conn_pool = <<>> /\ channel[f] = "none"
               /\ channel' = [channel EXCEPT ![f] = "connecting"]
               /\ UNCHANGED conn_pool
         /\ task' = [task EXCEPT ![f] = Head(events)]
         /\ timer' = TimerSet(f, Head(events))
    /\ events' = Tail(events)
    /\ UNCHANGED <<sent, timed, expired, retry_cnt, answers, closing, dangling, wild>>

\* sendRequest on a connection from the pool fails to write: hio_write closes
\* the channel, which is deleted when sendRequest goes on.
PooledWriteFails ==
    /\ ~wild /\ events # <<>> /\ conn_pool # <<>>
    /\ Head(events) \notin expired
    /\ Wild
-----------------------------------------------------------------------------
(* The end of a task and of a channel *)

Answered(t) == answers' = [answers EXCEPT ![t] = @ + 1]

\* Mutant: the timer is not killed.
KilledNot(f) == timer

\* HttpClientContext::callback: kill the timer, call back, task = NULL.
Killed(f) == timer \ {f}

callback(f) ==
    /\ timer' = Killed(f)
    /\ IF task[f] = NULL THEN UNCHANGED answers ELSE Answered(task[f])

\* Mutant: a task that is tried again is answered as well.
TriedAgainAndAnswered(f, set) ==
    /\ task[f] # NULL /\ retry_cnt[task[f]] > 0
    /\ events' = Append(events, task[f])
    /\ retry_cnt' = [retry_cnt EXCEPT ![task[f]] = @ - 1]
    /\ dangling' = IF set THEN dangling \cup {task[f]} ELSE dangling
    /\ timer' = timer \ {f}
    /\ Answered(task[f])

\* The task is sent again; nobody kills the timer of the channel.
TriedAgain(f, set) ==
    /\ task[f] # NULL /\ retry_cnt[task[f]] > 0
    /\ events' = Append(events, task[f])
    /\ retry_cnt' = [retry_cnt EXCEPT ![task[f]] = @ - 1]
    /\ dangling' = IF set THEN dangling \cup {task[f]} ELSE dangling
    /\ timer' = timer \ {f}
    /\ UNCHANGED answers

\* Mutant: onclose does not look into the pool.
UnpooledNot(f) == conn_pool

\* onclose removes the descriptor from the pool.
Unpooled(f) == RemoveFirst(conn_pool, f)

\* onclose with removeChannel; set says whether the channel's timer is set.
onclose(f, set) ==
    /\ \/ TriedAgain(f, set)
       \/ /\ task[f] # NULL => retry_cnt[task[f]] = 0
          /\ callback(f)
          /\ UNCHANGED <<events, retry_cnt, dangling>>
    /\ conn_pool' = Unpooled(f)
    /\ channel' = [channel EXCEPT ![f] = "none"]
    /\ task' = [task EXCEPT ![f] = NULL]
    /\ closing' = closing \ {f}

\* channel->close(): at once, or when queued data have gone (event/nio.c).
Deferred(f) ==
    /\ channel[f] = "connected" /\ f \notin closing
    /\ closing' = closing \cup {f}
    /\ UNCHANGED <<events, retry_cnt, dangling, conn_pool, channel, task>>
-----------------------------------------------------------------------------
(* What the loop thread is called for *)

\* on_connect with sendRequest.
onconnect(f) ==
    /\ ~wild /\ channel[f] = "connecting"
    /\ \/ /\ channel' = [channel EXCEPT ![f] = "connected"]
          /\ UNCHANGED <<sent, timed, expired, events, retry_cnt, answers, closing,
                         task, timer, dangling, conn_pool, wild>>
       \/ Wild

\* The peer closes, an error or a time-out of the connection, the end of a
\* deferred close: on_close.
Closed(f) ==
    /\ ~wild /\ channel[f] # "none"
    /\ onclose(f, f \in timer)
    /\ UNCHANGED <<sent, timed, expired, wild>>

\* onread when the response does not parse, or is complete and the connection
\* is not kept alive: errorCallback or successCallback, then close. When the
\* close comes at once, onclose finds no task.
ResponseCloses(f) ==
    /\ ~wild /\ channel[f] = "connected" /\ task[f] # NULL
    /\ callback(f)
    /\ UNCHANGED <<sent, timed, expired, events, retry_cnt, dangling, wild>>
    /\ task' = [task EXCEPT ![f] = NULL]
    /\ \/ /\ channel' = [channel EXCEPT ![f] = "none"]
          /\ closing' = closing \ {f}
          /\ conn_pool' = Unpooled(f)
       \/ closing' = closing \cup {f} /\ f \notin closing /\ UNCHANGED <<channel, conn_pool>>

\* onread when the response is complete and the connection is kept alive.
ResponseKeepsAlive(f) ==
    /\ ~wild /\ channel[f] = "connected" /\ task[f] # NULL
    /\ callback(f)
    /\ task' = [task EXCEPT ![f] = NULL]
    /\ conn_pool' = Append(conn_pool, f)
    /\ UNCHANGED <<sent, timed, expired, events, retry_cnt, channel, closing,
                   dangling, wild>>

\* The callback of the timer closes the channel.
Timeout(f) ==
    /\ ~wild /\ f \in timer /\ task[f] \in expired
    /\ \/ onclose(f, FALSE)
       \/ Deferred(f) /\ timer' = timer \ {f} /\ UNCHANGED answers
    /\ UNCHANGED <<sent, timed, expired, wild>>

\* The callback of a timer whose channel is gone.
DanglingTimeout(t) ==
    /\ ~wild /\ t \in dangling \cap expired
    /\ Wild
-----------------------------------------------------------------------------
Next ==
    \/ \E t \in Tasks : send(t) \/ Deadline(t) \/ DanglingTimeout(t)
    \/ SendFails \/ doTask \/ PooledWriteFails
    \/ \E f \in Fds : \/ onconnect(f) \/ Closed(f) \/ ResponseCloses(f)
                      \/ ResponseKeepsAlive(f) \/ Timeout(f)

Spec == Init /\ [][Next]_vars

\* The loop takes what is posted, time passes, a timer that is due fires, and a
\* deferred close ends (event/nio.c sets a timer for it). The peer owes nothing.
FairSpec ==
    /\ Spec
    /\ WF_vars(SendFails \/ doTask \/ PooledWriteFails)
    /\ \A t \in Tasks : WF_vars(Deadline(t))
    /\ \A f \in Fds : WF_vars(Timeout(f)) /\ WF_vars(f \in closing /\ Closed(f))
-----------------------------------------------------------------------------
(* Properties *)

TypeOK ==
    /\ sent \subseteq Tasks /\ timed \subseteq Tasks
    /\ expired \subseteq Tasks /\ dangling \subseteq Tasks
    /\ events \in Seq(Tasks)
    /\ retry_cnt \in [Tasks -> 0..RetryCnt]
    /\ answers \in [Tasks -> Nat]
    /\ channel \in [Fds -> {"none", "connecting", "connected"}]
    /\ closing \subseteq Fds /\ timer \subseteq Fds
    /\ task \in [Fds -> Tasks \cup {NULL}]
    /\ conn_pool \in Seq(Fds)
    /\ wild \in BOOLEAN

Posted(t) == {k \in DOMAIN events : events[k] = t}
Holding(t) == {f \in Fds : task[f] = t}

\* A task that was sent is posted once, or one channel has it, or its callback
\* was called once: responses, closes, retries, time-outs and late sends
\* between them neither lose it nor answer it twice.
TaskInOnePlace ==
    \A t \in Tasks :
      Cardinality(Posted(t)) + Cardinality(Holding(t)) + answers[t]
        = IF t \in sent THEN 1 ELSE 0

\* What the pool hands out is an open connection without a task and without a
\* timer, and no connection is in the pool twice.
PoolIsIdle ==
    \A k \in DOMAIN conn_pool :
      /\ channel[conn_pool[k]] = "connected"
      /\ task[conn_pool[k]] = NULL
      /\ conn_pool[k] \notin timer
      /\ \A j \in DOMAIN conn_pool : conn_pool[j] = conn_pool[k] => j = k

\* assert(ctx->task != NULL) of the timer's callback, while its channel lives:
\* the timer of a channel is the one of the task it has now.
TimerHasTask ==
    \A f \in timer : task[f] \in timed

\* A request with a time-out is answered in the end, whatever the peer does,
\* also when its retries begin after the time-out.
TimedIsAnswered ==
    \A t \in Tasks : t \in timed ~> answers[t] > 0 \/ wild
=============================================================================
