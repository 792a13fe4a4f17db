---------------------------- MODULE HttpServerStop ----------------------------
(***************************************************************************)
(* http_server_stop of a server with worker threads (HttpServer.cpp), and  *)
(* what it is made of: EventLoop::run and stop (evpp/EventLoop.h) and      *)
(* hloop_run and hloop_stop (event/hloop.c). A worker runs a loop that it  *)
(* frees itself; the stopping thread sets the same fields without a lock.  *)
(* A thread that follows a null or freed loop ends what can be said.       *)
(***************************************************************************)
EXTENDS Naturals, Sequences, FiniteSets

CONSTANTS Workers

VARIABLES
    wpc,        \* where a worker is
    spc,        \* where the stopping thread is
    loops,      \* privdata->loops, by their workers
    loop_,      \* workers whose EventLoop::loop_ is not NULL
    status,     \* hloop_t::status
    kStatus,    \* Status of the EventLoop
    posted,     \* workers with a posted stop event
    freed,      \* workers that freed their hloop_t
    next,       \* index in loops of the loop that is being stopped
    wild

serverVars == <<wpc, spc, loops, loop_, status, kStatus, posted, freed, next, wild>>

ServerInit ==
    /\ wpc = [w \in Workers |-> "start"]
    /\ spc = "running"
    /\ loops = <<>> /\ loop_ = {}
    /\ status = [w \in Workers |-> "STOP"]
    /\ kStatus = [w \in Workers |-> "kInitialized"]
    /\ posted = {} /\ freed = {}
    /\ next = 1
    /\ wild = FALSE

Wild ==
    /\ wild' = TRUE
    /\ UNCHANGED <<wpc, spc, loops, loop_, status, kStatus, posted, freed, next>>

At(w, from, to) ==
    /\ ~wild /\ wpc[w] = from
    /\ wpc' = [wpc EXCEPT ![w] = to]
-----------------------------------------------------------------------------
(* A worker *)

\* loop_thread: a new EventLoop is put into loops under mutex_.
Created(w) ==
    /\ At(w, "start", "run")
    /\ loops' = Append(loops, w)
    /\ loop_' = loop_ \cup {w}
    /\ UNCHANGED <<spc, status, kStatus, posted, freed, next, wild>>

\* EventLoop::run returns when loop_ is NULL.
run(w) ==
    /\ At(w, "run", IF w \in loop_ THEN "set" ELSE "ended")
    /\ UNCHANGED <<spc, loops, loop_, status, kStatus, posted, freed, next, wild>>

SetRunning(w) ==
    /\ At(w, "set", "hloop_run")
    /\ kStatus' = [kStatus EXCEPT ![w] = "kRunning"]
    /\ UNCHANGED <<spc, loops, loop_, status, posted, freed, next, wild>>

\* hloop_run(loop_) reads loop_ once more.
hloop_run(w) ==
    \/ /\ At(w, "hloop_run", "store")
       /\ w \in loop_
       /\ UNCHANGED <<spc, loops, loop_, status, kStatus, posted, freed, next, wild>>
    \/ ~wild /\ wpc[w] = "hloop_run" /\ w \notin loop_ /\ Wild

\* hloop_run: loop->status = RUNNING.
StoreRunning(w) ==
    /\ At(w, "store", "while")
    /\ status' = [status EXCEPT ![w] = "RUNNING"]
    /\ UNCHANGED <<spc, loops, loop_, kStatus, posted, freed, next, wild>>

\* Mutant: the loop does not test its status again.
WhileTrue(w) ==
    /\ At(w, "while", "poll")
    /\ UNCHANGED <<spc, loops, loop_, status, kStatus, posted, freed, next, wild>>

\* The condition of the while.
While(w) ==
    /\ At(w, "while", IF status[w] = "STOP" THEN "free" ELSE "poll")
    /\ UNCHANGED <<spc, loops, loop_, status, kStatus, posted, freed, next, wild>>

\* The status after the posted events were taken: hloop_stop_event_cb.
Takes(w) == IF w \in posted THEN "STOP" ELSE status[w]

\* hloop_process_events: the poll ends, by a posted event, some other event or
\* after HLOOP_MAX_BLOCK_TIME.
Poll(w) ==
    /\ At(w, "poll", "while")
    /\ status' = [status EXCEPT ![w] = Takes(w)]
    /\ posted' = IF status[w] = "STOP" THEN posted ELSE posted \ {w}
    /\ UNCHANGED <<spc, loops, loop_, kStatus, freed, next, wild>>

\* The end of hloop_run: status = STOP and, with AUTO_FREE, free the loop.
Free(w) ==
    /\ At(w, "free", "left")
    /\ status' = [status EXCEPT ![w] = "STOP"]
    /\ freed' = freed \cup {w}
    /\ UNCHANGED <<spc, loops, loop_, kStatus, posted, next, wild>>

SetStopped(w) ==
    /\ At(w, "left", "ended")
    /\ kStatus' = [kStatus EXCEPT ![w] = "kStopped"]
    /\ UNCHANGED <<spc, loops, loop_, status, posted, freed, next, wild>>
-----------------------------------------------------------------------------
(* http_server_stop *)

Goes(from, to) == ~wild /\ spc = from /\ spc' = to

\* The first loop waits for all loops to be created; the continue of the for in
\* it starts the for's next round, so that nothing waits for them to run.
http_server_stop ==
    /\ Goes("running", "stop")
    /\ Len(loops) = Cardinality(Workers)
    /\ UNCHANGED <<wpc, loops, loop_, status, kStatus, posted, freed, next, wild>>

w_ == loops[next]

\* EventLoop::stop of the next loop: setStatus(kStopping).
stop ==
    /\ next <= Len(loops)
    /\ Goes("stop", "hloop_stop")
    /\ kStatus' = [kStatus EXCEPT ![w_] = "kStopping"]
    /\ UNCHANGED <<wpc, loops, loop_, status, posted, freed, next, wild>>

\* hloop_stop: loop->status = STOP. No loop has ended before.
hloop_stop ==
    /\ Goes("hloop_stop", "post")
    /\ status' = [status EXCEPT ![w_] = "STOP"]
    /\ UNCHANGED <<wpc, loops, loop_, kStatus, posted, freed, next, wild>>

\* Mutant: no event is posted.
PostNothing ==
    \/ /\ Goes("post", "null")
       /\ w_ \notin freed
       /\ UNCHANGED <<wpc, loops, loop_, status, kStatus, posted, freed, next, wild>>
    \/ ~wild /\ spc = "post" /\ w_ \in freed /\ Wild

\* hloop_stop: hloop_post_event with hloop_stop_event_cb.
PostStop ==
    \/ /\ Goes("post", "null")
       /\ w_ \notin freed
       /\ posted' = posted \cup {w_}
       /\ UNCHANGED <<wpc, loops, loop_, status, kStatus, freed, next, wild>>
    \/ ~wild /\ spc = "post" /\ w_ \in freed /\ Wild

\* EventLoop::stop: loop_ = NULL; the next loop.
SetNull ==
    /\ Goes("null", "stop")
    /\ loop_' = loop_ \ {w_}
    /\ next' = next + 1
    /\ UNCHANGED <<wpc, loops, status, kStatus, posted, freed, wild>>

\* All threads are joined.
Join ==
    /\ next > Len(loops)
    /\ \A w \in Workers : wpc[w] = "ended"
    /\ Goes("stop", "returned")
    /\ UNCHANGED <<wpc, loops, loop_, status, kStatus, posted, freed, next, wild>>
-----------------------------------------------------------------------------
Worker(w) ==
    \/ Created(w) \/ run(w) \/ SetRunning(w) \/ hloop_run(w) \/ StoreRunning(w)
    \/ While(w) \/ Poll(w) \/ Free(w) \/ SetStopped(w)

Stopper == stop \/ hloop_stop \/ PostStop \/ SetNull \/ Join

ServerNext == http_server_stop \/ Stopper \/ \E w \in Workers : Worker(w)

ServerSpec == ServerInit /\ [][ServerNext]_serverVars

\* Threads get on; nobody has to stop the server.
FairServerSpec == ServerSpec /\ WF_serverVars(Stopper) /\ \A w \in Workers : WF_serverVars(Worker(w))
-----------------------------------------------------------------------------
(* Properties *)

\* A loop whose stop has returned will end, although hloop_run may have stored
\* RUNNING over the STOP of hloop_stop: then the posted event is still there.
StopIsPending ==
    \A k \in 1..(next - 1) :
      LET w == loops[k] IN
        wpc[w] \in {"while", "poll"} => status[w] = "STOP" \/ w \in posted

\* http_server_stop returns, with every thread joined, also when it comes while
\* the loops are starting; unless it met a loop that is freed, or a worker one
\* that is NULL.
StopReturns ==
    (spc = "stop") ~> (spc = "returned" \/ wild)
=============================================================================
