------------------------------ MODULE HioProofs ------------------------------
(***************************************************************************)
(* Proofs about the connections of a descriptor, for any number of         *)
(* threads, connections, messages and bytes. Some facts hold whatever the  *)
(* threads do; the others hold until a thread acts on a connection that    *)
(* was closed under it (late), which is part of the properties' statement. *)
(***************************************************************************)
EXTENDS Hio, SequenceTheorems, TLAPS

\* What also a late call leaves true: the flags go together, a closed hio_t has
\* data queued only until hio_done drops them, and a close_cb that hio_ready
\* cleared is not called for the closed connection any more.
Base ==
    /\ ready <=> ~closed
    /\ pc \in {"closing", "nio_write", "drained"} => ~closed
    /\ closed /\ write_queue # <<>> => pc = "done"
    /\ closes <= 1
    /\ open => closes = 0
    /\ ~closed /\ (~open \/ pc \in {"done", "callback"}) => ~close_cb
    /\ ~open /\ pc \in {"done", "callback"} => ~close_cb

\* The loop thread closes an open connection, which then stays closed.
Control ==
    /\ ~closed => open
    /\ pc \in {"done", "callback"} <=> closed /\ open

\* close_cb is set for an open connection and has been called for a closed one.
Called ==
    /\ open => close_cb
    /\ closes = IF open THEN 0 ELSE 1

\* The hio_t has a new id for each connection, so that a posted id names the
\* connection meant.
Own ==
    /\ id = conn
    /\ \A k \in 1..Len(custom_events) : custom_events[k].id = custom_events[k].conn

\* Nothing is queued once hio_done has dropped the queue.
Dropped == ~open \/ pc = "callback" => write_queue = <<>>

\* What was due when the close was asked for is sent when the close goes on,
\* unless there was an error or another close; a deferred close was asked for,
\* and going on with it takes another.
Kept ==
    /\ close => asked >= 1
    /\ pc \in {"close", "closing", "done", "callback"} => asked >= 1
    /\ pc = "close" /\ close => asked = 2
    /\ asked = 0 => due = 0
    /\ open => due <= Len(accepted)
    /\ ~open /\ asked = 0 => accepted = <<>>
    /\ pc \in {"closing", "done", "callback"} \/ ~open =>
          Len(sent) >= due \/ error \/ asked = 2

\* Until hio_done drops the queue, what was accepted is sent or queued.
InOrder == open /\ pc # "callback" => accepted = sent \o write_queue

Regular == Control /\ Called /\ Own /\ Dropped /\ InOrder /\ Kept

IInv == TypeOK /\ Base /\ QueueIsWatched /\ (late \/ Regular)

LEMMA InitIInv == Init => IInv
<1> SUFFICES ASSUME Init PROVE IInv
  OBVIOUS
<1>1. TypeOK
  <2>1. <<>> \in Seq(Unit) /\ <<>> \in Seq([id : Nat, conn : Nat])
    OBVIOUS
  <2>2. /\ ready \in BOOLEAN /\ closed \in BOOLEAN /\ close \in BOOLEAN
        /\ error \in BOOLEAN /\ close_cb \in BOOLEAN /\ hv_write \in BOOLEAN
        /\ keepalive_timer \in BOOLEAN /\ close_timer \in BOOLEAN /\ open \in BOOLEAN
        /\ late \in BOOLEAN
    BY Zenon DEF Init
  <2> QED
    BY <2>1, <2>2 DEF Init, TypeOK
<1>2. Control /\ Called /\ Own /\ Dropped
  BY DEF Init, Control, Called, Own, Dropped
<1>3. Base /\ QueueIsWatched /\ InOrder /\ Kept
  BY DEF Init, Base, QueueIsWatched, InOrder, Kept
<1> QED
  BY <1>1, <1>2, <1>3 DEF IInv, Regular

\* The units of a message, and how they are cut.
LEMMA UnitsShape ==
  ASSUME NEW m \in Nat
  PROVE  Units(m + 1) \in Seq(Unit) /\ Len(Units(m + 1)) = MsgLen
<1>1. MsgLen \in Nat
  BY HioAssumption
<1>2. \A k \in 1..MsgLen : <<m + 1, k>> \in Unit
  BY <1>1 DEF Unit
<1>3. Units(m + 1) \in [1..MsgLen -> Unit]
  BY <1>2 DEF Units
<1> QED
  BY <1>1, <1>3

LEMMA Cut ==
  ASSUME NEW S, NEW s \in Seq(S), NEW n \in 0..Len(s)
  PROVE  /\ SubSeq(s, 1, n) \in Seq(S)
         /\ SubSeq(s, n + 1, Len(s)) \in Seq(S)
         /\ SubSeq(s, 1, n) \o SubSeq(s, n + 1, Len(s)) = s
         /\ Len(SubSeq(s, 1, n)) = n
         /\ SubSeq(s, n + 1, Len(s)) = <<>> <=> n = Len(s)
<1>1. Len(s) \in Nat /\ \A i \in 1..Len(s) : s[i] \in S
  OBVIOUS
<1>2. SubSeq(s, 1, n) \in Seq(S) /\ Len(SubSeq(s, 1, n)) = n
  BY <1>1, SubSeqProperties
<1>3. /\ SubSeq(s, n + 1, Len(s)) \in Seq(S)
      /\ Len(SubSeq(s, n + 1, Len(s))) = Len(s) - n
  BY <1>1, SubSeqProperties
<1>4. SubSeq(s, 1, n) \o SubSeq(s, n + 1, Len(s)) = SubSeq(s, 1, Len(s))
  <2>1. 1 \in 1..Len(s) + 1 /\ n \in 1 - 1..Len(s) /\ Len(s) \in n..Len(s)
    BY <1>1
  <2> QED
    BY <2>1, ConcatAdjacentSubSeq, Zenon
<1>5. SubSeq(s, 1, Len(s)) = s
  BY SubSeqFull
<1>6. SubSeq(s, n + 1, Len(s)) = <<>> <=> n = Len(s)
  <2>1. n = Len(s) => SubSeq(s, n + 1, Len(s)) = <<>>
    BY <1>1, SubSeqEmpty
  <2>2. SubSeq(s, n + 1, Len(s)) = <<>> => Len(SubSeq(s, n + 1, Len(s))) = 0
    BY EmptySeq, Zenon
  <2> QED
    BY <1>1, <1>3, <2>1, <2>2
<1> QED
  BY <1>2, <1>3, <1>4, <1>5, <1>6

LEMMA AcceptStep ==
  ASSUME IInv, Accept
  PROVE  IInv'
<1> USE DEF IInv, Regular, flags, timers, threads, stream, request
<1>1. TypeOK'
  <2>1. One(keepalive_timer) \in Nat /\ One(close_timer) \in Nat
    BY DEF One
  <2>2. leaked' \in Nat /\ id' \in Nat
    BY <2>1 DEF Accept, hio_ready, TypeOK
  <2>3. /\ ready' \in BOOLEAN /\ closed' \in BOOLEAN /\ close' \in BOOLEAN
        /\ error' \in BOOLEAN /\ close_timer' \in BOOLEAN
    BY Zenon DEF Accept, hio_ready, TypeOK
  <2>4. hv_write' \in BOOLEAN /\ close_cb' \in BOOLEAN /\ keepalive_timer' \in BOOLEAN
        /\ open' \in BOOLEAN
    BY Zenon DEF Accept, TypeOK
  <2> QED
    BY <2>2, <2>3, <2>4 DEF Accept, TypeOK
<1>2. Base'
  BY <1>1 DEF Accept, hio_ready, Idle, One, TypeOK, Base
<1>3. QueueIsWatched'
  BY <1>1 DEF Accept, hio_ready, Idle, One, TypeOK, Base, QueueIsWatched
<1>4. ASSUME ~late
      PROVE  Regular'
  <2> USE <1>4
  <2>1. Control'
    BY <1>1 DEF Accept, hio_ready, Idle, One, TypeOK, Base, Control
  <2>2. Called'
    BY <1>1 DEF Accept, hio_ready, Idle, One, TypeOK, Base, Control, Called
  <2>3. Own'
    BY <1>1 DEF Accept, hio_ready, Idle, One, TypeOK, Base, Control, Own
  <2>4. Dropped'
    BY <1>1 DEF Accept, hio_ready, Idle, One, TypeOK, Base, Control, Dropped
  <2>5. InOrder'
    BY <1>1 DEF Accept, hio_ready, Idle, One, TypeOK, Base, Control, Dropped, InOrder
  <2>6. Kept'
    BY <1>1 DEF Accept, hio_ready, Idle, One, TypeOK, Base, Control, Dropped, InOrder, Kept
  <2> QED
    BY <2>1, <2>2, <2>3, <2>4, <2>5, <2>6
<1>5. late' = late
  BY DEF Accept, hio_ready, Idle, One
<1> QED
  BY <1>1, <1>2, <1>3, <1>4, <1>5

LEMMA Hio_writeStep ==
  ASSUME IInv, NEW t \in Threads, hio_write(t)
  PROVE  IInv'
<1> USE DEF IInv, Regular, flags, timers, threads, stream, request
<1>1. TypeOK'
  BY DEF hio_write, TypeOK
<1>2. Base'
  BY <1>1 DEF hio_write, TypeOK, Base
<1>3. QueueIsWatched'
  BY <1>1 DEF hio_write, TypeOK, Base, QueueIsWatched
<1>4. ASSUME ~late
      PROVE  Regular'
  <2> USE <1>4
  <2>1. Control'
    BY <1>1 DEF hio_write, TypeOK, Base, Control
  <2>2. Called'
    BY <1>1 DEF hio_write, TypeOK, Base, Control, Called
  <2>3. Own'
    BY <1>1 DEF hio_write, TypeOK, Base, Control, Own
  <2>4. Dropped'
    BY <1>1 DEF hio_write, TypeOK, Base, Control, Dropped
  <2>5. InOrder'
    BY <1>1 DEF hio_write, TypeOK, Base, Control, Dropped, InOrder
  <2>6. Kept'
    BY <1>1 DEF hio_write, TypeOK, Base, Control, Dropped, InOrder, Kept
  <2> QED
    BY <2>1, <2>2, <2>3, <2>4, <2>5, <2>6
<1>5. late' = late
  BY DEF hio_write
<1> QED
  BY <1>1, <1>2, <1>3, <1>4, <1>5

LEMMA ThreadClosesStep ==
  ASSUME IInv, NEW t \in Threads, ThreadCloses(t)
  PROVE  IInv'
<1> USE DEF IInv, Regular, flags, timers, threads, stream, request
<1>1. TypeOK'
  <2>1. tpc' \in [Threads -> {"out", "write", "close", "post"}]
    BY DEF ThreadCloses, TypeOK
  <2>2. meant' \in [Threads -> Nat]
    <3>1. CASE meant' = [meant EXCEPT ![t] = 0]
      BY <3>1 DEF TypeOK
    <3>2. CASE meant' = [meant EXCEPT ![t] = IF tpc[t] = "out" THEN conn ELSE @]
      BY <3>2 DEF TypeOK
    <3> QED
      BY <3>1, <3>2 DEF ThreadCloses
  <2> QED
    BY <2>1, <2>2 DEF ThreadCloses, TypeOK
<1>2. Base'
  BY <1>1 DEF ThreadCloses, TypeOK, Base
<1>3. QueueIsWatched'
  BY <1>1 DEF ThreadCloses, TypeOK, Base, QueueIsWatched
<1>4. ASSUME ~late
      PROVE  Regular'
  <2> USE <1>4
  <2>1. Control'
    BY <1>1 DEF ThreadCloses, TypeOK, Base, Control
  <2>2. Called'
    BY <1>1 DEF ThreadCloses, TypeOK, Base, Control, Called
  <2>3. Own'
    BY <1>1 DEF ThreadCloses, TypeOK, Base, Control, Own
  <2>4. Dropped'
    BY <1>1 DEF ThreadCloses, TypeOK, Base, Control, Dropped
  <2>5. InOrder'
    BY <1>1 DEF ThreadCloses, TypeOK, Base, Control, Dropped, InOrder
  <2>6. Kept'
    BY <1>1 DEF ThreadCloses, TypeOK, Base, Control, Dropped, InOrder, Kept
  <2> QED
    BY <2>1, <2>2, <2>3, <2>4, <2>5, <2>6
<1>5. late' = late
  BY DEF ThreadCloses
<1> QED
  BY <1>1, <1>2, <1>3, <1>4, <1>5

LEMMA PostCloseStep ==
  ASSUME IInv, NEW t \in Threads, PostClose(t)
  PROVE  IInv'
<1> USE DEF IInv, Regular, flags, timers, threads, stream, request
<1> DEFINE e == [id |-> id, conn |-> meant[t]]
<1>1. TypeOK'
  <2>1. e \in [id : Nat, conn : Nat]
    BY DEF TypeOK
  <2>2. Append(custom_events, e) \in Seq([id : Nat, conn : Nat])
    BY <2>1, AppendProperties DEF TypeOK
  <2>3. late' \in BOOLEAN
    BY Zenon DEF PostClose, TypeOK
  <2> QED
    BY <2>2, <2>3 DEF PostClose, TypeOK
<1>2. Base'
  BY <1>1 DEF PostClose, TypeOK, Base
<1>3. QueueIsWatched'
  BY <1>1 DEF PostClose, TypeOK, Base, QueueIsWatched
<1>4. ASSUME ~late'
      PROVE  Regular'
  <2> USE <1>4
  <2>0. ~late /\ meant[t] = conn
    BY Zenon DEF PostClose
  <2>1. Control'
    BY <1>1, <2>0 DEF PostClose, TypeOK, Base, Control
  <2>2. Called'
    BY <1>1, <2>0 DEF PostClose, TypeOK, Base, Control, Called
  <2>3. Own'
    <3>1. e \in [id : Nat, conn : Nat]
      BY DEF TypeOK
    <3>2. /\ Len(custom_events') = Len(custom_events) + 1
          /\ \A k \in 1..Len(custom_events) : custom_events'[k] = custom_events[k]
          /\ custom_events'[Len(custom_events) + 1] = e
      BY <3>1, AppendProperties DEF PostClose, TypeOK
    <3>3. id' = id /\ conn' = conn /\ id = conn /\ e.id = e.conn
      BY <2>0 DEF PostClose, Own
    <3>4. Len(custom_events) \in Nat
      BY DEF TypeOK
    <3> HIDE DEF e
    <3>5. ASSUME NEW k \in 1..Len(custom_events')
          PROVE  custom_events'[k].id = custom_events'[k].conn
      <4>1. CASE k \in 1..Len(custom_events)
        BY <2>0, <3>2, <4>1 DEF Own
      <4>2. CASE k = Len(custom_events) + 1
        BY <3>2, <3>3, <4>2
      <4> QED
        BY <3>2, <3>4, <4>1, <4>2
    <3> QED
      BY <3>3, <3>5 DEF Own
  <2>4. Dropped'
    BY <1>1, <2>0 DEF PostClose, TypeOK, Base, Control, Dropped
  <2>5. InOrder'
    BY <1>1, <2>0 DEF PostClose, TypeOK, Base, Control, Dropped, InOrder
  <2>6. Kept'
    BY <1>1, <2>0 DEF PostClose, TypeOK, Base, Control, Dropped, InOrder, Kept
  <2> QED
    BY <2>1, <2>2, <2>3, <2>4, <2>5, <2>6
<1> QED
  BY <1>1, <1>2, <1>3, <1>4

LEMMA Hio_closeStep ==
  ASSUME IInv, hio_close
  PROVE  IInv'
<1> USE DEF IInv, Regular, flags, timers, threads, stream, request
<1>1. TypeOK'
  <2>1. One(close_timer) \in Nat
    BY DEF One
  <2>2. leaked' \in Nat
    BY <2>1 DEF hio_close, SetCloseTimer, TypeOK
  <2>3. close' \in BOOLEAN /\ close_timer' \in BOOLEAN
    BY Zenon DEF hio_close, SetCloseTimer, TypeOK
  <2> QED
    BY <2>2, <2>3 DEF hio_close, TypeOK
<1>2. Base'
  BY <1>1 DEF hio_close, Deferred, SetCloseTimer, One, TypeOK, Base
<1>3. QueueIsWatched'
  BY <1>1 DEF hio_close, Deferred, SetCloseTimer, One, TypeOK, Base, QueueIsWatched
<1>4. ASSUME ~late
      PROVE  Regular'
  <2> USE <1>4
  <2>1. Control'
    BY <1>1 DEF hio_close, Deferred, SetCloseTimer, One, TypeOK, Base, Control
  <2>2. Called'
    BY <1>1 DEF hio_close, Deferred, SetCloseTimer, One, TypeOK, Base, Control, Called
  <2>3. Own'
    BY <1>1 DEF hio_close, Deferred, SetCloseTimer, One, TypeOK, Base, Control, Own
  <2>4. Dropped'
    BY <1>1 DEF hio_close, Deferred, SetCloseTimer, One, TypeOK, Base, Control, Dropped
  <2>5. InOrder'
    BY <1>1 DEF hio_close, Deferred, SetCloseTimer, One, TypeOK, Base, Control, Dropped, InOrder
  <2>6. Kept'
    BY <1>1 DEF hio_close, Deferred, SetCloseTimer, One, TypeOK, Base, Control, Dropped, InOrder, Kept
  <2> QED
    BY <2>1, <2>2, <2>3, <2>4, <2>5, <2>6
<1>5. late' = late
  BY DEF hio_close, Deferred, SetCloseTimer, One
<1> QED
  BY <1>1, <1>2, <1>3, <1>4, <1>5

LEMMA MarkClosedStep ==
  ASSUME IInv, MarkClosed
  PROVE  IInv'
<1> USE DEF IInv, Regular, flags, timers, threads, stream, request
<1>1. TypeOK'
  BY DEF MarkClosed, Writing, TypeOK
<1>2. Base'
  BY <1>1 DEF MarkClosed, Writing, TypeOK, Base
<1>3. QueueIsWatched'
  BY <1>1 DEF MarkClosed, Writing, TypeOK, Base, QueueIsWatched
<1>4. ASSUME ~late
      PROVE  Regular'
  <2> USE <1>4
  <2>1. Control'
    BY <1>1 DEF MarkClosed, Writing, TypeOK, Base, Control
  <2>2. Called'
    BY <1>1 DEF MarkClosed, Writing, TypeOK, Base, Control, Called
  <2>3. Own'
    BY <1>1 DEF MarkClosed, Writing, TypeOK, Base, Control, Own
  <2>4. Dropped'
    BY <1>1 DEF MarkClosed, Writing, TypeOK, Base, Control, Dropped
  <2>5. InOrder'
    BY <1>1 DEF MarkClosed, Writing, TypeOK, Base, Control, Dropped, InOrder
  <2>6. Kept'
    BY <1>1 DEF MarkClosed, Writing, TypeOK, Base, Control, Dropped, InOrder, Kept
  <2> QED
    BY <2>1, <2>2, <2>3, <2>4, <2>5, <2>6
<1>5. late' = late
  BY DEF MarkClosed, Writing
<1> QED
  BY <1>1, <1>2, <1>3, <1>4, <1>5

LEMMA DropQueueStep ==
  ASSUME IInv, DropQueue
  PROVE  IInv'
<1> USE DEF IInv, Regular, flags, timers, threads, stream, request
<1>1. TypeOK'
  BY DEF DropQueue, TypeOK
<1>2. Base'
  BY <1>1 DEF DropQueue, TypeOK, Base
<1>3. QueueIsWatched'
  BY <1>1 DEF DropQueue, TypeOK, Base, QueueIsWatched
<1>4. ASSUME ~late
      PROVE  Regular'
  <2> USE <1>4
  <2>1. Control'
    BY <1>1 DEF DropQueue, TypeOK, Base, Control
  <2>2. Called'
    BY <1>1 DEF DropQueue, TypeOK, Base, Control, Called
  <2>3. Own'
    BY <1>1 DEF DropQueue, TypeOK, Base, Control, Own
  <2>4. Dropped'
    BY <1>1 DEF DropQueue, TypeOK, Base, Control, Dropped
  <2>5. InOrder'
    BY <1>1 DEF DropQueue, TypeOK, Base, Control, Dropped, InOrder
  <2>6. Kept'
    BY <1>1 DEF DropQueue, TypeOK, Base, Control, Dropped, InOrder, Kept
  <2> QED
    BY <2>1, <2>2, <2>3, <2>4, <2>5, <2>6
<1>5. late' = late
  BY DEF DropQueue
<1> QED
  BY <1>1, <1>2, <1>3, <1>4, <1>5

LEMMA CloseCallbackStep ==
  ASSUME IInv, CloseCallback
  PROVE  IInv'
<1> USE DEF IInv, Regular, flags, timers, threads, stream, request
<1>1. TypeOK'
  <2>1. One(close_cb) \in Nat
    BY DEF One
  <2>2. keepalive_timer' \in BOOLEAN /\ close_timer' \in BOOLEAN /\ open' \in BOOLEAN
    BY Zenon DEF CloseCallback
  <2> QED
    BY <2>1, <2>2 DEF CloseCallback, TypeOK
<1>2. Base'
  BY <1>1 DEF CloseCallback, One, TypeOK, Base
<1>3. QueueIsWatched'
  BY <1>1 DEF CloseCallback, One, TypeOK, Base, QueueIsWatched
<1>4. ASSUME ~late
      PROVE  Regular'
  <2> USE <1>4
  <2>1. Control'
    BY <1>1 DEF CloseCallback, One, TypeOK, Base, Control
  <2>2. Called'
    BY <1>1 DEF CloseCallback, One, TypeOK, Base, Control, Called
  <2>3. Own'
    BY <1>1 DEF CloseCallback, One, TypeOK, Base, Control, Own
  <2>4. Dropped'
    BY <1>1 DEF CloseCallback, One, TypeOK, Base, Control, Dropped
  <2>5. InOrder'
    BY <1>1 DEF CloseCallback, One, TypeOK, Base, Control, Dropped, InOrder
  <2>6. Kept'
    BY <1>1 DEF CloseCallback, One, TypeOK, Base, Control, Dropped, InOrder, Kept
  <2> QED
    BY <2>1, <2>2, <2>3, <2>4, <2>5, <2>6
<1>5. late' = late
  BY DEF CloseCallback, One
<1> QED
  BY <1>1, <1>2, <1>3, <1>4, <1>5

LEMMA WriteReadyStep ==
  ASSUME IInv, WriteReady
  PROVE  IInv'
<1> USE DEF IInv, Regular, flags, timers, threads, stream, request
<1>1. TypeOK'
  BY DEF WriteReady, Idle, TypeOK
<1>2. Base'
  BY <1>1 DEF WriteReady, Idle, TypeOK, Base
<1>3. QueueIsWatched'
  BY <1>1 DEF WriteReady, Idle, TypeOK, Base, QueueIsWatched
<1>4. ASSUME ~late
      PROVE  Regular'
  <2> USE <1>4
  <2>1. Control'
    BY <1>1 DEF WriteReady, Idle, TypeOK, Base, Control
  <2>2. Called'
    BY <1>1 DEF WriteReady, Idle, TypeOK, Base, Control, Called
  <2>3. Own'
    BY <1>1 DEF WriteReady, Idle, TypeOK, Base, Control, Own
  <2>4. Dropped'
    BY <1>1 DEF WriteReady, Idle, TypeOK, Base, Control, Dropped
  <2>5. InOrder'
    BY <1>1 DEF WriteReady, Idle, TypeOK, Base, Control, Dropped, InOrder
  <2>6. Kept'
    BY <1>1 DEF WriteReady, Idle, TypeOK, Base, Control, Dropped, InOrder, Kept
  <2> QED
    BY <2>1, <2>2, <2>3, <2>4, <2>5, <2>6
<1>5. late' = late
  BY DEF WriteReady, Idle
<1> QED
  BY <1>1, <1>2, <1>3, <1>4, <1>5

LEMMA Nio_writeStep ==
  ASSUME IInv, nio_write
  PROVE  IInv'
<1> USE DEF IInv, Regular, flags, timers, threads, stream, request
<1>0. /\ pc = "nio_write" /\ UNCHANGED <<close, open, accepted>>
      /\ \/ pc' \in {"idle", "drained"} /\ UNCHANGED <<error, asked, due>>
         \/ (error => error') /\ CallClose
  <2>1. error' \in {error, TRUE} => (error => error')
    BY Zenon
  <2>2. pc = "nio_write" /\ UNCHANGED <<close, open, accepted>>
    BY DEF nio_write
  <2>3. \/ pc' \in {"idle", "drained"} /\ UNCHANGED <<error, asked, due>>
        \/ error' \in {error, TRUE} /\ CallClose
    BY DEF nio_write
  <2> QED
    BY <2>1, <2>2, <2>3, Zenon
<1>1. TypeOK'
  <2>1. error' \in BOOLEAN
    BY Zenon DEF nio_write, TypeOK
  <2>2. sent' \in Seq(Unit) /\ write_queue' \in Seq(Unit)
    BY Cut DEF nio_write, TypeOK
  <2>3. asked' \in 0..2 /\ due' \in Nat
    BY <1>0 DEF CallClose, TypeOK
  <2>4. pc' \in {"idle", "close", "drained"}
    BY <1>0 DEF CallClose
  <2> QED
    BY <2>1, <2>2, <2>3, <2>4 DEF nio_write, TypeOK
<1>2. Base'
  BY <1>1 DEF nio_write, CallClose, TypeOK, Base
<1>3. QueueIsWatched'
  BY <1>1 DEF nio_write, CallClose, TypeOK, Base, QueueIsWatched
<1>4. ASSUME ~late
      PROVE  Regular'
  <2> USE <1>4
  <2>1. Control'
    BY <1>1 DEF nio_write, CallClose, TypeOK, Base, Control
  <2>2. Called'
    BY <1>1 DEF nio_write, CallClose, TypeOK, Base, Control, Called
  <2>3. Own'
    BY <1>1 DEF nio_write, CallClose, TypeOK, Base, Control, Own
  <2>4. Dropped'
    BY <1>1 DEF nio_write, CallClose, TypeOK, Base, Control, Dropped
  <2>5. InOrder'
    <3>1. PICK n \in 0..Len(write_queue) :
            /\ sent' = sent \o SubSeq(write_queue, 1, n)
            /\ write_queue' = SubSeq(write_queue, n + 1, Len(write_queue))
      BY DEF nio_write
    <3>2. /\ SubSeq(write_queue, 1, n) \in Seq(Unit)
          /\ SubSeq(write_queue, n + 1, Len(write_queue)) \in Seq(Unit)
          /\ SubSeq(write_queue, 1, n) \o SubSeq(write_queue, n + 1, Len(write_queue))
               = write_queue
      BY Cut DEF TypeOK
    <3>3. sent' \o write_queue' = sent \o write_queue
      <4>1. sent \in Seq(Unit)
        BY DEF TypeOK
      <4>2. \A a, b \in Seq(Unit) : (sent \o a) \o b = sent \o (a \o b)
        BY <4>1, ConcatAssociative
      <4> QED
        BY <3>1, <3>2, <4>2, Zenon
    <3> QED
      BY <3>3 DEF nio_write, CallClose, TypeOK, Base, Control, InOrder
  <2>6. Kept'
    <3>1. Len(sent') >= Len(sent)
      BY Cut DEF nio_write, TypeOK
    <3> QED
      BY <1>0, <1>1, <3>1 DEF CallClose, TypeOK, Base, Control, Kept
  <2> QED
    BY <2>1, <2>2, <2>3, <2>4, <2>5, <2>6
<1>5. late' = late
  BY DEF nio_write, CallClose
<1> QED
  BY <1>1, <1>2, <1>3, <1>4, <1>5

LEMMA DrainedStep ==
  ASSUME IInv, Drained
  PROVE  IInv'
<1> USE DEF IInv, Regular, flags, timers, threads, stream, request
<1>1. TypeOK'
  BY DEF Drained, TypeOK
<1>2. Base'
  BY <1>1 DEF Drained, TypeOK, Base
<1>3. QueueIsWatched'
  BY <1>1 DEF Drained, TypeOK, Base, QueueIsWatched
<1>4. ASSUME ~late
      PROVE  Regular'
  <2> USE <1>4
  <2>1. Control'
    BY <1>1 DEF Drained, TypeOK, Base, Control
  <2>2. Called'
    BY <1>1 DEF Drained, TypeOK, Base, Control, Called
  <2>3. Own'
    BY <1>1 DEF Drained, TypeOK, Base, Control, Own
  <2>4. Dropped'
    BY <1>1 DEF Drained, TypeOK, Base, Control, Dropped
  <2>5. InOrder'
    BY <1>1 DEF Drained, TypeOK, Base, Control, Dropped, InOrder
  <2>6. Kept'
    BY <1>1 DEF Drained, TypeOK, Base, Control, Dropped, InOrder, Kept
  <2> QED
    BY <2>1, <2>2, <2>3, <2>4, <2>5, <2>6
<1>5. late' = late
  BY DEF Drained
<1> QED
  BY <1>1, <1>2, <1>3, <1>4, <1>5

LEMMA ReadClosesStep ==
  ASSUME IInv, ReadCloses
  PROVE  IInv'
<1> USE DEF IInv, Regular, flags, timers, threads, stream, request
<1>1. TypeOK'
  <2>1. error' \in BOOLEAN
    BY Zenon DEF ReadCloses, TypeOK
  <2> QED
    BY <2>1 DEF ReadCloses, CallClose, TypeOK
<1>2. Base'
  BY <1>1 DEF ReadCloses, CallClose, Idle, TypeOK, Base
<1>3. QueueIsWatched'
  BY <1>1 DEF ReadCloses, CallClose, Idle, TypeOK, Base, QueueIsWatched
<1>4. ASSUME ~late
      PROVE  Regular'
  <2> USE <1>4
  <2>1. Control'
    BY <1>1 DEF ReadCloses, CallClose, Idle, TypeOK, Base, Control
  <2>2. Called'
    BY <1>1 DEF ReadCloses, CallClose, Idle, TypeOK, Base, Control, Called
  <2>3. Own'
    BY <1>1 DEF ReadCloses, CallClose, Idle, TypeOK, Base, Control, Own
  <2>4. Dropped'
    BY <1>1 DEF ReadCloses, CallClose, Idle, TypeOK, Base, Control, Dropped
  <2>5. InOrder'
    BY <1>1 DEF ReadCloses, CallClose, Idle, TypeOK, Base, Control, Dropped, InOrder
  <2>6. Kept'
    BY <1>1 DEF ReadCloses, CallClose, Idle, TypeOK, Base, Control, Dropped, InOrder, Kept
  <2> QED
    BY <2>1, <2>2, <2>3, <2>4, <2>5, <2>6
<1>5. late' = late
  BY DEF ReadCloses, CallClose, Idle
<1> QED
  BY <1>1, <1>2, <1>3, <1>4, <1>5

LEMMA TimedOutStep ==
  ASSUME IInv, Idle, TimedOut, leaked' \in Nat
  PROVE  IInv'
<1> USE DEF IInv, Regular, flags, timers, threads, stream, request
<1>1. TypeOK'
  BY DEF TimedOut, CallClose, Idle, TypeOK
<1>2. Base'
  BY <1>1 DEF TimedOut, CallClose, Idle, TypeOK, Base
<1>3. QueueIsWatched'
  BY <1>1 DEF TimedOut, CallClose, Idle, TypeOK, Base, QueueIsWatched
<1>4. ASSUME ~late
      PROVE  Regular'
  <2> USE <1>4
  <2>1. Control'
    BY <1>1 DEF TimedOut, CallClose, Idle, TypeOK, Base, Control
  <2>2. Called'
    BY <1>1 DEF TimedOut, CallClose, Idle, TypeOK, Base, Control, Called
  <2>3. Own'
    BY <1>1 DEF TimedOut, CallClose, Idle, TypeOK, Base, Control, Own
  <2>4. Dropped'
    BY <1>1 DEF TimedOut, CallClose, Idle, TypeOK, Base, Control, Dropped
  <2>5. InOrder'
    BY <1>1 DEF TimedOut, CallClose, Idle, TypeOK, Base, Control, Dropped, InOrder
  <2>6. Kept'
    BY <1>1 DEF TimedOut, CallClose, Idle, TypeOK, Base, Control, Dropped, InOrder, Kept
  <2> QED
    BY <2>1, <2>2, <2>3, <2>4, <2>5, <2>6
<1>5. late' = late
  BY DEF TimedOut, CallClose, Idle
<1> QED
  BY <1>1, <1>2, <1>3, <1>4, <1>5

LEMMA CloseEventStep ==
  ASSUME IInv, CloseEvent
  PROVE  IInv'
<1> USE DEF IInv, Regular, flags, timers, threads, stream, request
<1>1. TypeOK'
  BY DEF CloseEvent, CallClose, Idle, TypeOK
<1>2. Base'
  BY <1>1 DEF CloseEvent, CallClose, Idle, TypeOK, Base
<1>3. QueueIsWatched'
  BY <1>1 DEF CloseEvent, CallClose, Idle, TypeOK, Base, QueueIsWatched
<1>4. ASSUME ~late
      PROVE  Regular'
  <2> USE <1>4
  <2>1. Control'
    BY <1>1 DEF CloseEvent, CallClose, Idle, TypeOK, Base, Control
  <2>2. Called'
    BY <1>1 DEF CloseEvent, CallClose, Idle, TypeOK, Base, Control, Called
  <2>3. Own'
    BY <1>1 DEF CloseEvent, CallClose, Idle, TypeOK, Base, Control, Own
  <2>4. Dropped'
    BY <1>1 DEF CloseEvent, CallClose, Idle, TypeOK, Base, Control, Dropped
  <2>5. InOrder'
    BY <1>1 DEF CloseEvent, CallClose, Idle, TypeOK, Base, Control, Dropped, InOrder
  <2>6. Kept'
    BY <1>1 DEF CloseEvent, CallClose, Idle, TypeOK, Base, Control, Dropped, InOrder, Kept
  <2> QED
    BY <2>1, <2>2, <2>3, <2>4, <2>5, <2>6
<1>5. late' = late
  BY DEF CloseEvent, CallClose, Idle
<1> QED
  BY <1>1, <1>2, <1>3, <1>4, <1>5

\* What a critical section of hio_write does to the queue: also one that comes
\* late keeps bytes in order and asks for HV_WRITE when it queues some.
LEMMA WriteLockedEffect ==
  ASSUME TypeOK, WriteLocked
  PROVE  /\ msgs' \in Nat /\ hv_write' \in BOOLEAN
         /\ accepted' \in Seq(Unit) /\ sent' \in Seq(Unit) /\ write_queue' \in Seq(Unit)
         /\ Len(accepted') >= Len(accepted) /\ Len(sent') >= Len(sent)
         /\ accepted = sent \o write_queue => accepted' = sent' \o write_queue'
         /\ (write_queue # <<>> => hv_write) => (write_queue' # <<>> => hv_write')
<1> DEFINE U == Units(msgs + 1)
<1>1. /\ U \in Seq(Unit) /\ Len(U) = MsgLen /\ MsgLen \in Nat
      /\ accepted \in Seq(Unit) /\ sent \in Seq(Unit) /\ write_queue \in Seq(Unit)
  BY UnitsShape, HioAssumption DEF TypeOK
<1>2. msgs' \in Nat
  BY DEF WriteLocked, TypeOK
<1>3. accepted' = accepted \o U /\ accepted' \in Seq(Unit) /\ Len(accepted') >= Len(accepted)
  BY <1>1 DEF WriteLocked
<1>4. \A a, b, c \in Seq(Unit) : (a \o b) \o c = a \o (b \o c)
  BY ConcatAssociative
<1>5. CASE TryWrite
  <2> HIDE DEF U
  <2>1. PICK n \in 0..MsgLen :
          /\ sent' = sent \o SubSeq(U, 1, n)
          /\ write_queue' = SubSeq(U, n + 1, MsgLen)
          /\ hv_write' = (hv_write \/ n < MsgLen)
    BY <1>5 DEF TryWrite, U
  <2>2. /\ SubSeq(U, 1, n) \in Seq(Unit) /\ SubSeq(U, n + 1, MsgLen) \in Seq(Unit)
        /\ SubSeq(U, 1, n) \o SubSeq(U, n + 1, MsgLen) = U
        /\ SubSeq(U, n + 1, MsgLen) = <<>> <=> n = MsgLen
    BY <1>1, Cut
  <2>3. sent' \in Seq(Unit) /\ write_queue' \in Seq(Unit) /\ Len(sent') >= Len(sent)
    BY <1>1, <2>1, <2>2
  <2>4. write_queue = <<>>
    BY <1>5 DEF TryWrite
  <2>5. sent' \o write_queue' = sent \o U
    <3>1. (sent \o SubSeq(U, 1, n)) \o SubSeq(U, n + 1, MsgLen)
          = sent \o (SubSeq(U, 1, n) \o SubSeq(U, n + 1, MsgLen))
      BY <1>1, <1>4, <2>2
    <3> QED
      BY <2>1, <2>2, <3>1, Zenon
  <2>6. sent \o write_queue = sent
    BY <1>1, <2>4
  <2>7. write_queue' # <<>> => n < MsgLen
    BY <1>1, <2>1, <2>2
  <2>8. hv_write' \in BOOLEAN /\ (write_queue' # <<>> => hv_write')
    BY <2>1, <2>7, Zenon
  <2> QED
    BY <1>2, <1>3, <2>1, <2>3, <2>5, <2>6, <2>8, Zenon
<1>6. CASE Enqueue
  <2>1. /\ write_queue # <<>> /\ write_queue' = write_queue \o U
        /\ UNCHANGED <<hv_write, sent>>
    BY <1>6 DEF Enqueue
  <2>2. write_queue' \in Seq(Unit) /\ sent' \in Seq(Unit) /\ Len(sent') >= Len(sent)
    BY <1>1, <2>1
  <2>3. sent' \o write_queue' = (sent \o write_queue) \o U
    BY <1>1, <1>4, <2>1
  <2>4. hv_write' = hv_write /\ hv_write \in BOOLEAN
    BY <2>1 DEF TypeOK
  <2>5. accepted = sent \o write_queue => accepted' = sent' \o write_queue'
    BY <1>3, <2>3, Zenon
  <2>6. (write_queue # <<>> => hv_write) => (write_queue' # <<>> => hv_write')
    BY <2>1, <2>4
  <2> QED
    BY <1>2, <1>3, <2>2, <2>4, <2>5, <2>6
<1> QED
  BY <1>5, <1>6 DEF WriteLocked

\* On an hio_t that is not closed it does nothing else; on a closed one it can
\* be the hio_ready of a late write, after which close_cb is gone.
LEMMA WriteLockedFlags ==
  ASSUME TypeOK, Base, WriteLocked
  PROVE  /\ ready => UNCHANGED <<flags, timers>>
         /\ \/ UNCHANGED <<flags, timers>> /\ (ready \/ write_queue # <<>> \/ write_queue' = <<>>)
            \/ write_queue = <<>> /\ ready' /\ ~closed' /\ ~close_cb'
         /\ ready' \in BOOLEAN /\ closed' \in BOOLEAN /\ close' \in BOOLEAN
         /\ error' \in BOOLEAN /\ close_cb' \in BOOLEAN
         /\ keepalive_timer' \in BOOLEAN /\ close_timer' \in BOOLEAN
         /\ id' \in Nat /\ leaked' \in Nat
<1> USE DEF flags, timers
<1> DEFINE Typed == /\ ready' \in BOOLEAN /\ closed' \in BOOLEAN /\ close' \in BOOLEAN
                    /\ error' \in BOOLEAN /\ close_cb' \in BOOLEAN
                    /\ keepalive_timer' \in BOOLEAN /\ close_timer' \in BOOLEAN
                    /\ id' \in Nat /\ leaked' \in Nat
<1>1. UNCHANGED <<flags, timers>> => Typed
  BY DEF TypeOK
<1>2. hio_ready /\ close_cb' = FALSE /\ keepalive_timer' = FALSE
      => Typed /\ ready' /\ ~closed' /\ ~close_cb'
  <2>1. One(keepalive_timer) \in Nat /\ One(close_timer) \in Nat
    BY DEF One
  <2>2. hio_ready => id' \in Nat /\ leaked' \in Nat
    BY <2>1 DEF hio_ready, TypeOK
  <2> QED
    BY <2>2, Zenon DEF hio_ready
<1>3. CASE TryWrite
  <2>0. write_queue = <<>>
    BY <1>3 DEF TryWrite
  <2>1. PICK n \in 0..MsgLen :
          /\ write_queue' = SubSeq(Units(msgs + 1), n + 1, MsgLen)
          /\ IF n < MsgLen /\ ~ready
               THEN hio_ready /\ close_cb' = FALSE /\ keepalive_timer' = FALSE
               ELSE UNCHANGED <<flags, timers>>
    BY <1>3 DEF TryWrite
  <2>2. CASE n < MsgLen /\ ~ready
    BY <1>2, <2>0, <2>1, <2>2
  <2>3. CASE ~(n < MsgLen)
    <3>1. n = MsgLen
      BY <2>3, HioAssumption
    <3>2. write_queue' = <<>>
      BY <2>1, <3>1, HioAssumption
    <3> QED
      BY <1>1, <2>1, <2>3, <3>2
  <2>4. CASE ready
    BY <1>1, <2>1, <2>4
  <2> QED
    BY <2>2, <2>3, <2>4
<1>4. CASE Enqueue
  BY <1>1, <1>4 DEF Enqueue
<1> QED
  BY <1>3, <1>4 DEF WriteLocked

LEMMA WriteFailsEffect ==
  ASSUME TypeOK, WriteFails
  PROVE  /\ error' \in BOOLEAN /\ (error => error')
         /\ UNCHANGED <<ready, closed, close, id, close_cb, timers, hv_write,
                        write_queue, stream>>
<1>1. error' \in BOOLEAN /\ (error => error')
  BY Zenon DEF WriteFails, TypeOK
<1> QED
  BY <1>1 DEF WriteFails

LEMMA ThreadWritesStep ==
  ASSUME IInv, NEW t \in Threads, ThreadWrites(t)
  PROVE  IInv'
<1> USE DEF IInv, Regular, flags, timers, threads, stream, request
<1>1. UNCHANGED <<custom_events, pc, conn, open, asked, due, closes>>
  BY DEF ThreadWrites
<1>2. CASE WriteLocked /\ tpc' = [tpc EXCEPT ![t] = "out"]
           /\ meant' = [meant EXCEPT ![t] = 0] /\ late' = (late \/ Overtaken(t))
  <2>1. /\ msgs' \in Nat /\ hv_write' \in BOOLEAN
        /\ accepted' \in Seq(Unit) /\ sent' \in Seq(Unit) /\ write_queue' \in Seq(Unit)
        /\ Len(accepted') >= Len(accepted) /\ Len(sent') >= Len(sent)
        /\ accepted = sent \o write_queue => accepted' = sent' \o write_queue'
        /\ (write_queue # <<>> => hv_write) => (write_queue' # <<>> => hv_write')
    BY <1>2, WriteLockedEffect
  <2>2. /\ ready => UNCHANGED <<ready, closed, close, error, id, close_cb,
                                keepalive_timer, close_timer, leaked>>
        /\ \/ /\ UNCHANGED <<ready, closed, close_cb>>
              /\ ready \/ write_queue # <<>> \/ write_queue' = <<>>
           \/ write_queue = <<>> /\ ready' /\ ~closed' /\ ~close_cb'
        /\ ready' \in BOOLEAN /\ closed' \in BOOLEAN /\ close' \in BOOLEAN
        /\ error' \in BOOLEAN /\ close_cb' \in BOOLEAN
        /\ keepalive_timer' \in BOOLEAN /\ close_timer' \in BOOLEAN
        /\ id' \in Nat /\ leaked' \in Nat
    BY <1>2, WriteLockedFlags, Zenon
  <2>3. late' \in BOOLEAN
    BY <1>2, Zenon
  <2>4. TypeOK'
    BY <1>1, <1>2, <2>1, <2>2, <2>3 DEF TypeOK
  <2>5. Base'
    BY <1>1, <2>1, <2>2 DEF Base, TypeOK
  <2>6. QueueIsWatched'
    BY <2>1, <2>2 DEF Base, QueueIsWatched
  <2>7. ASSUME ~late'
        PROVE  Regular'
    <3>1. ~late /\ ~closed
      BY <1>2, <2>7, Zenon DEF Overtaken
    <3>2. /\ ready /\ open /\ pc # "callback"
          /\ UNCHANGED <<ready, closed, close, error, id, close_cb>>
      BY <2>2, <3>1 DEF Base, Control
    <3>3. Control' /\ Called' /\ Own' /\ Dropped'
      BY <1>1, <3>1, <3>2 DEF Control, Called, Own, Dropped
    <3>4. InOrder'
      BY <1>1, <2>1, <3>1, <3>2 DEF InOrder
    <3>5. Kept'
      BY <1>1, <2>1, <2>4, <3>1, <3>2 DEF Kept, TypeOK
    <3> QED
      BY <3>3, <3>4, <3>5
  <2> QED
    BY <2>4, <2>5, <2>6, <2>7
<1>3. CASE WriteFails /\ tpc' = [tpc EXCEPT ![t] = "close"] /\ UNCHANGED <<meant, late>>
  <2>1. /\ error' \in BOOLEAN /\ (error => error')
        /\ UNCHANGED <<ready, closed, close, id, close_cb, keepalive_timer,
                       close_timer, leaked, hv_write, write_queue, msgs,
                       accepted, sent>>
    BY <1>3, WriteFailsEffect
  <2>2. TypeOK'
    BY <1>1, <1>3, <2>1 DEF TypeOK
  <2>3. Base' /\ QueueIsWatched'
    BY <1>1, <2>1 DEF Base, QueueIsWatched
  <2>4. ASSUME ~late
        PROVE  Regular'
    <3>1. Control' /\ Called' /\ Own' /\ Dropped' /\ InOrder'
      BY <1>1, <2>1, <2>4 DEF Control, Called, Own, Dropped, InOrder
    <3>2. Kept'
      BY <1>1, <2>1, <2>4 DEF Kept
    <3> QED
      BY <3>1, <3>2
  <2> QED
    BY <1>3, <2>2, <2>3, <2>4
<1> QED
  BY <1>2, <1>3 DEF ThreadWrites

LEMMA CallbackWritesStep ==
  ASSUME IInv, CallbackWrites
  PROVE  IInv'
<1> USE DEF IInv, Regular, flags, timers, threads, stream, request
<1>1. pc = "idle" /\ ready /\ ~closed
  BY DEF CallbackWrites, Base, TypeOK, Idle
<1>2. UNCHANGED <<custom_events, tpc, meant, late, conn, open, closes>>
  BY DEF CallbackWrites
<1>3. CASE WriteLocked /\ UNCHANGED <<pc, asked, due>>
  <2>1. /\ msgs' \in Nat /\ hv_write' \in BOOLEAN
        /\ accepted' \in Seq(Unit) /\ sent' \in Seq(Unit) /\ write_queue' \in Seq(Unit)
        /\ Len(accepted') >= Len(accepted) /\ Len(sent') >= Len(sent)
        /\ accepted = sent \o write_queue => accepted' = sent' \o write_queue'
        /\ (write_queue # <<>> => hv_write) => (write_queue' # <<>> => hv_write')
    BY <1>3, WriteLockedEffect
  <2>2. UNCHANGED <<ready, closed, close, error, id, close_cb, keepalive_timer,
                    close_timer, leaked>>
    BY <1>1, <1>3, WriteLockedFlags
  <2>3. TypeOK'
    BY <1>2, <1>3, <2>1, <2>2 DEF TypeOK
  <2>4. Base' /\ QueueIsWatched'
    BY <1>1, <1>2, <1>3, <2>1, <2>2 DEF Base, QueueIsWatched
  <2>5. ASSUME ~late
        PROVE  Regular'
    <3>1. open
      BY <1>1, <2>5 DEF Control
    <3>2. Control' /\ Called' /\ Own' /\ Dropped'
      BY <1>1, <1>2, <1>3, <2>2, <2>5, <3>1 DEF Control, Called, Own, Dropped
    <3>3. InOrder'
      BY <1>1, <1>2, <1>3, <2>1, <2>5, <3>1 DEF InOrder
    <3>4. Kept'
      BY <1>1, <1>2, <1>3, <2>1, <2>2, <2>3, <2>5, <3>1 DEF Kept, TypeOK
    <3> QED
      BY <3>2, <3>3, <3>4
  <2> QED
    BY <1>2, <2>3, <2>4, <2>5
<1>4. CASE WriteFails /\ CallClose
  <2>1. /\ error' \in BOOLEAN /\ (error => error')
        /\ UNCHANGED <<ready, closed, close, id, close_cb, keepalive_timer,
                       close_timer, leaked, hv_write, write_queue, msgs,
                       accepted, sent>>
    BY <1>4, WriteFailsEffect
  <2>2. TypeOK'
    BY <1>2, <1>4, <2>1 DEF CallClose, TypeOK
  <2>3. Base' /\ QueueIsWatched'
    BY <1>1, <1>2, <1>4, <2>1 DEF CallClose, Base, QueueIsWatched
  <2>4. ASSUME ~late
        PROVE  Regular'
    <3>1. open
      BY <1>1, <2>4 DEF Control
    <3>2. Control' /\ Called' /\ Own' /\ Dropped' /\ InOrder'
      BY <1>1, <1>2, <1>4, <2>1, <2>4, <3>1
         DEF CallClose, Control, Called, Own, Dropped, InOrder
    <3>3. Kept'
      BY <1>1, <1>2, <1>4, <2>1, <2>2, <2>4, <3>1 DEF CallClose, Kept, TypeOK
    <3> QED
      BY <3>2, <3>3
  <2> QED
    BY <1>2, <2>2, <2>3, <2>4
<1> QED
  BY <1>3, <1>4 DEF CallbackWrites

LEMMA NextIInv == IInv /\ [Next]_vars => IInv'
<1> SUFFICES ASSUME IInv, [Next]_vars PROVE IInv'
  OBVIOUS
<1>1. CASE Accept
  BY <1>1, AcceptStep
<1>2. CASE LoopStep
  BY <1>2, Hio_closeStep, MarkClosedStep, DropQueueStep, CloseCallbackStep,
     Nio_writeStep, DrainedStep DEF LoopStep
<1>3. CASE WriteReady \/ CallbackWrites \/ ReadCloses \/ CloseEvent
  BY <1>3, WriteReadyStep, CallbackWritesStep, ReadClosesStep, CloseEventStep
<1>4. CASE KeepaliveTimeout \/ CloseTimeout \/ LeakedTimeout
  <2>1. Idle /\ TimedOut /\ leaked' \in Nat
    BY <1>4 DEF KeepaliveTimeout, CloseTimeout, LeakedTimeout, IInv, TypeOK
  <2> QED
    BY <2>1, TimedOutStep
<1>5. ASSUME NEW t \in Threads,
             hio_write(t) \/ ThreadWrites(t) \/ ThreadCloses(t) \/ PostClose(t)
      PROVE  IInv'
  BY <1>5, Hio_writeStep, ThreadWritesStep, ThreadClosesStep, PostCloseStep
<1>6. CASE UNCHANGED vars
  <2> USE <1>6 DEF vars, flags, timers, threads, stream, request
  <2>1. TypeOK'
    BY DEF IInv, TypeOK
  <2>2. Base' /\ QueueIsWatched'
    BY DEF IInv, Base, QueueIsWatched
  <2>3. Regular => Control' /\ Called' /\ Dropped'
    BY DEF Regular, Control, Called, Dropped
  <2>4. Regular => Own' /\ InOrder' /\ Kept'
    BY DEF Regular, Own, InOrder, Kept
  <2>5. late' = late
    OBVIOUS
  <2> QED
    BY <2>1, <2>2, <2>3, <2>4, <2>5 DEF IInv, Regular
<1> QED
  BY <1>1, <1>2, <1>3, <1>4, <1>5, <1>6 DEF Next

LEMMA AlwaysIInv == Spec => []IInv
BY InitIInv, NextIInv, PTL DEF Spec

\* The fields of hio_t and the history of its connections keep their types.
THEOREM TypeCorrect == Spec => []TypeOK
<1>1. IInv => TypeOK
  BY DEF IInv
<1> QED
  BY <1>1, AlwaysIInv, PTL

\* However the threads' hio_write, the callbacks' and nio_write interleave, the
\* bytes that were accepted are those sent, then those queued, in order; only a
\* write whose connection was closed under it can spoil this.
THEOREM StreamKept == Spec => []StreamInOrder
<1>1. IInv => StreamInOrder
  BY DEF IInv, Regular, InOrder, StreamInOrder
<1> QED
  BY <1>1, AlwaysIInv, PTL

\* The loop never forgets queued data: hio_handle_events gives HV_WRITE up only
\* when the queue is empty, and a write that queues data on a closed hio_t
\* registers it again.
THEOREM QueueWatched == Spec => []QueueIsWatched
<1>1. IInv => QueueIsWatched
  BY DEF IInv
<1> QED
  BY <1>1, AlwaysIInv, PTL

\* No connection has its close_cb called twice, by whichever of the direct,
\* deferred, posted and timed-out calls of hio_close comes through, late writes
\* or not; and each has it called, unless a late write has cleared it.
THEOREM CloseCalledOnce == Spec => []ClosedOnce
<1>1. IInv => ClosedOnce
  <2> SUFFICES ASSUME IInv PROVE ClosedOnce
    OBVIOUS
  <2>1. closes <= 1 /\ (open /\ ~closed => closes = 0)
    BY DEF IInv, Base
  <2>2. ~open => closes = 1 \/ late
    BY DEF IInv, Regular, Called
  <2> QED
    BY <2>1, <2>2 DEF ClosedOnce
<1> QED
  BY <1>1, AlwaysIInv, PTL

\* A single close without an error loses nothing accepted before it, as long as
\* no write comes late.
THEOREM CloseLosesNothing == Spec => []CloseIsLossless
<1>1. IInv => CloseIsLossless
  BY DEF IInv, Regular, Kept, CloseIsLossless
<1> QED
  BY <1>1, AlwaysIInv, PTL

\* hio_close_event_cb closes only the connection that the poster meant: the id
\* it posted is that of no other connection of the descriptor, unless the
\* connection was replaced before the id was read.
THEOREM PostedClosesItsOwn == Spec => PostedCloseIsOwn
<1> DEFINE A == Idle /\ pc' = "close" /\ custom_events' # custom_events
                => Head(custom_events).conn = conn \/ late
<1>1. IInv /\ [Next]_vars => [A]_vars
  <2> SUFFICES ASSUME IInv, Next, Idle, pc' = "close", custom_events' # custom_events,
                      ~late
               PROVE  Head(custom_events).conn = conn
    OBVIOUS
  <2>1. CloseEvent
    BY DEF Next, LoopStep, Accept, hio_close, MarkClosed, DropQueue, CloseCallback,
       nio_write, Drained, WriteReady, CallbackWrites, ReadCloses, TimedOut,
       KeepaliveTimeout, CloseTimeout, LeakedTimeout, hio_write, ThreadWrites,
       ThreadCloses, PostClose, Idle
  <2>2. custom_events # <<>> /\ Head(custom_events).id = id
    BY <2>1 DEF CloseEvent, Idle
  <2>3. Len(custom_events) >= 1 /\ Head(custom_events) = custom_events[1]
    BY <2>2 DEF IInv, TypeOK
  <2> QED
    BY <2>2, <2>3 DEF IInv, Regular, Own, TypeOK
<1> HIDE DEF A
<1>2. Spec => [][A]_vars
  BY <1>1, AlwaysIInv, PTL DEF Spec
<1> QED
  BY <1>2 DEF PostedCloseIsOwn, A

-----------------------------------------------------------------------------
(* What CloseEnds rests on in every state. *)

\* An open connection that was asked to close is being closed, or the timer of a
\* deferred close is set, unless a late write made hio_ready forget it.
CloseUnderWay ==
    open /\ asked > 0 =>
        close_timer \/ pc \in {"close", "closing", "done", "callback"} \/ late

LEMMA CloseUnderWayStep ==
  ASSUME IInv, CloseUnderWay, [Next]_vars
  PROVE  CloseUnderWay'
<1> USE DEF CloseUnderWay, Idle, CallClose, flags, timers, threads, stream, request
<1>1. CASE Accept
  BY <1>1 DEF Accept
<1>2. CASE hio_close
  BY <1>2 DEF hio_close, SetCloseTimer, IInv, Regular, Control
<1>3. CASE MarkClosed \/ DropQueue \/ CloseCallback
  BY <1>3 DEF MarkClosed, DropQueue, CloseCallback
<1>4. CASE nio_write \/ Drained
  BY <1>4 DEF nio_write, Drained
<1>5. CASE WriteReady \/ ReadCloses \/ CloseEvent
  BY <1>5 DEF WriteReady, ReadCloses, CloseEvent
<1>6. CASE KeepaliveTimeout \/ CloseTimeout \/ LeakedTimeout
  BY <1>6 DEF KeepaliveTimeout, CloseTimeout, LeakedTimeout, TimedOut
<1>7. ASSUME TryWrite \/ Enqueue \/ WriteFails, ~closed
      PROVE  UNCHANGED close_timer
  BY <1>7 DEF TryWrite, Enqueue, WriteFails, IInv, Base
<1>8. CASE CallbackWrites
  <2>1. UNCHANGED close_timer
    BY <1>7, <1>8 DEF CallbackWrites, WriteLocked
  <2> QED
    BY <1>8, <2>1 DEF CallbackWrites
<1>9. ASSUME NEW t \in Threads, ThreadWrites(t)
      PROVE  CloseUnderWay'
  <2>1. UNCHANGED <<pc, open, asked>>
    BY <1>9 DEF ThreadWrites
  <2>2. CASE closed /\ WriteLocked /\ late' = (late \/ Overtaken(t))
    <3>1. late'
      BY <2>2, Zenon DEF Overtaken
    <3> QED
      BY <3>1
  <2>3. CASE ~closed /\ WriteLocked /\ late' = (late \/ Overtaken(t))
    <3>1. UNCHANGED close_timer
      BY <1>7, <2>3 DEF WriteLocked
    <3>2. late => late'
      BY <2>3, Zenon
    <3> QED
      BY <2>1, <3>1, <3>2
  <2>4. CASE WriteFails /\ UNCHANGED late
    BY <2>1, <2>4 DEF WriteFails
  <2> QED
    BY <1>9, <2>2, <2>3, <2>4 DEF ThreadWrites
<1>10. ASSUME NEW t \in Threads, hio_write(t) \/ ThreadCloses(t)
       PROVE  CloseUnderWay'
  BY <1>10 DEF hio_write, ThreadCloses
<1>11. ASSUME NEW t \in Threads, PostClose(t)
       PROVE  CloseUnderWay'
  <2>1. late => late'
    BY <1>11, Zenon DEF PostClose
  <2> QED
    BY <1>11, <2>1 DEF PostClose
<1>12. CASE UNCHANGED vars
  BY <1>12 DEF vars
<1> QED
  BY <1>1, <1>2, <1>3, <1>4, <1>5, <1>6, <1>8, <1>9, <1>10, <1>11, <1>12
     DEF Next, LoopStep

\* However closes, writes of other threads and time-outs interleave, a close that
\* was asked for is never left to the peer alone, as long as no write comes late.
THEOREM CloseNeverForgotten == Spec => []CloseUnderWay
<1>1. Init => CloseUnderWay
  BY DEF Init, CloseUnderWay
<1>2. IInv /\ CloseUnderWay /\ [Next]_vars => CloseUnderWay'
  BY CloseUnderWayStep
<1> QED
  BY <1>1, <1>2, AlwaysIInv, PTL DEF Spec
=============================================================================
